--------------------------- MODULE ServerSession ---------------------------
(***************************************************************************)
(* The echo sessions of the server: server/session.cpp, one ServerSession  *)
(* object per accepted TCP connection.  A session always has one           *)
(* asynchronous operation outstanding on its websocket stream, whose       *)
(* completion handler holds the only lasting reference to the object       *)
(* (shared_from_this), so that a handler that returns without starting the *)
(* next operation destroys the session.                                    *)
(*                                                                         *)
(* A handler is one atomic step: the handlers of a connection run on its   *)
(* own strand.  Between the start of an operation and its handler lie      *)
(* steps of Beast and of the kernel (it may take any number of them for a  *)
(* message to arrive) and of the peer, which can do whatever a TCP peer    *)
(* can do: send, stop reading, close, half-close, reset, or vanish.        *)
(***************************************************************************)
EXTENDS Naturals, Sequences

CONSTANTS
  Conns,      (* the TCP connections                                       *)
  Parts,      (* pieces of payload: what one read from the socket brings   *)
  Messages,   (* the messages peers send                                   *)
  Window,     (* replies the kernel buffers before a write blocks          *)
  MaxSend     (* bound on the messages a peer sends on one connection      *)

(* A message is text or binary; its payload arrives part by part and may   *)
(* be empty.                                                               *)
Message == [text : BOOLEAN, data : Seq(Parts)]

ASSUME SessionAssumption ==
  /\ Messages \subseteq Message
  /\ Window \in Nat \ {0}
  /\ MaxSend \in Nat

VARIABLES
  life,       (* the ServerSession object: none, live or gone (destroyed)  *)
  op,         (* the asynchronous operation outstanding on _ws             *)
  ec,         (* its outcome, "pending" until the handler can run          *)
  buffer,     (* _buffer                                                   *)
  textOut,    (* the text option of _ws: how outgoing messages are marked  *)
  link,       (* the TCP connection, as far as each end has taken it       *)
  sent,       (* every message the peer has sent (history)                 *)
  rcvd,       (* how many of them async_read has completed                 *)
  part,       (* how many parts of the next one are in the buffer          *)
  outbound,   (* every message the server has written (history)            *)
  taken       (* how many of them the peer has read                        *)

objectVars == <<life, op, ec, buffer, textOut>>
peerVars == <<sent, taken>>
vars == <<objectVars, link, peerVars, rcvd, part, outbound>>

(* link: "absent" before the connection is made; "tcp" once it is, "open"  *)
(* after the websocket handshake; then what the peer did ("closing": sent  *)
(* a close frame, "closed": and then closed its sending side, "eof": did   *)
(* so without a close frame, "reset", "silent": vanished without a trace)  *)
(* or what the server did ("shut").                                        *)
Links == {"absent", "tcp", "open", "closing", "closed", "eof", "reset", "silent", "shut"}

(* A read that meets a close frame has a last phase, "teardown".           *)

TypeOK ==
  /\ life \in [Conns -> {"none", "live", "gone"}]
  /\ op \in [Conns -> {"none", "accept", "read", "teardown", "write"}]
  /\ ec \in [Conns -> {"pending", "ok", "closed", "error"}]
  /\ buffer \in [Conns -> Seq(Parts)]
  /\ textOut \in [Conns -> BOOLEAN]
  /\ link \in [Conns -> Links]
  /\ sent \in [Conns -> Seq(Messages)]
  /\ rcvd \in [Conns -> Nat]
  /\ part \in [Conns -> Nat]
  /\ outbound \in [Conns -> Seq(Message)]
  /\ taken \in [Conns -> Nat]

Init ==
  /\ life = [c \in Conns |-> "none"]
  /\ op = [c \in Conns |-> "none"]
  /\ ec = [c \in Conns |-> "pending"]
  /\ buffer = [c \in Conns |-> <<>>]
  /\ textOut = [c \in Conns |-> TRUE]
  /\ link = [c \in Conns |-> "absent"]
  /\ sent = [c \in Conns |-> <<>>]
  /\ rcvd = [c \in Conns |-> 0]
  /\ part = [c \in Conns |-> 0]
  /\ outbound = [c \in Conns |-> <<>>]
  /\ taken = [c \in Conns |-> 0]

-----------------------------------------------------------------------------
(* The peer.                                                               *)

Connect(c) ==
  /\ link[c] = "absent"
  /\ link' = [link EXCEPT ![c] = "tcp"]
  /\ UNCHANGED <<objectVars, peerVars, rcvd, part, outbound>>

PeerSend(c, m) ==
  /\ link[c] = "open"
  /\ Len(sent[c]) < MaxSend
  /\ sent' = [sent EXCEPT ![c] = Append(@, m)]
  /\ UNCHANGED <<objectVars, link, rcvd, part, outbound, taken>>

(* The peer reads a reply, which makes room in the window.  (What it still *)
(* reads after the server closed its side is of no consequence to it.)     *)
PeerTake(c) ==
  /\ link[c] \in {"open", "closing", "closed", "eof"}
  /\ taken[c] < Len(outbound[c])
  /\ taken' = [taken EXCEPT ![c] = @ + 1]
  /\ UNCHANGED <<objectVars, link, sent, rcvd, part, outbound>>

(* The peer leaves: with a close frame, and a FIN behind it when it likes, *)
(* by closing its socket without one, with a reset, or without a word.     *)
PeerLeave(c, how) ==
  /\ \/ how = "closing" /\ link[c] = "open"
     \/ how = "closed" /\ link[c] = "closing"
     \/ how = "eof" /\ link[c] \in {"tcp", "open"}
     \/ /\ how \in {"reset", "silent"}
        /\ link[c] \in {"tcp", "open", "closing", "closed", "eof"}
  /\ link' = [link EXCEPT ![c] = how]
  /\ UNCHANGED <<objectVars, peerVars, rcvd, part, outbound>>

Departures == {"closing", "closed", "eof", "reset", "silent"}

Peer(c) ==
  \/ \E m \in Messages : PeerSend(c, m)
  \/ PeerTake(c)
  \/ \E how \in Departures : PeerLeave(c, how)

-----------------------------------------------------------------------------
(* Beast and the kernel: progress and completion of the outstanding        *)
(* operation.                                                              *)

Pending(c, o) == op[c] = o /\ ec[c] = "pending"

Complete(c, e) == ec' = [ec EXCEPT ![c] = e]

(* async_accept: the upgrade request has come and been answered.           *)
AcceptHandshake(c) ==
  /\ Pending(c, "accept")
  /\ link[c] = "tcp"
  /\ link' = [link EXCEPT ![c] = "open"]
  /\ Complete(c, "ok")
  /\ UNCHANGED <<life, op, buffer, textOut, peerVars, rcvd, part, outbound>>

(* Mutant: async_read_some, which completes with the first part.           *)
ReadSome(c) ==
  /\ Pending(c, "read")
  /\ link[c] # "shut"
  /\ rcvd[c] < Len(sent[c])
  /\ LET data == sent[c][rcvd[c] + 1].data
     IN buffer' = [buffer EXCEPT ![c] = IF data = <<>> THEN @ ELSE Append(@, Head(data))]
  /\ rcvd' = [rcvd EXCEPT ![c] = @ + 1]
  /\ Complete(c, "ok")
  /\ UNCHANGED <<life, op, textOut, link, peerVars, part, outbound>>

(* async_read: one more part of the next message is appended to the        *)
(* buffer; the operation completes with the last part.  Data that arrived  *)
(* before the peer left can still be read.                                 *)
ReadPart(c) ==
  /\ Pending(c, "read")
  /\ link[c] # "shut"
  /\ rcvd[c] < Len(sent[c])
  /\ LET data == sent[c][rcvd[c] + 1].data
         last == part[c] + 1 >= Len(data)
     IN /\ buffer' = IF part[c] < Len(data)
                       THEN [buffer EXCEPT ![c] = Append(@, data[part[c] + 1])]
                       ELSE buffer
        /\ part' = [part EXCEPT ![c] = IF last THEN 0 ELSE @ + 1]
        /\ rcvd' = [rcvd EXCEPT ![c] = IF last THEN @ + 1 ELSE @]
        /\ Complete(c, IF last THEN "ok" ELSE "pending")
  /\ UNCHANGED <<life, op, textOut, link, peerVars, outbound>>

(* A message the peer sent before it fell silent may never arrive.         *)
ReadArrived(c) == ReadPart(c) /\ link[c] # "silent"

AllRead(c) == rcvd[c] = Len(sent[c])

(* async_read meets the close frame behind the last message: Beast answers *)
(* it, closes its own sending side, and reads on for the peer to close its *)
(* side, too.  (The answer is short and takes no room in the window.)      *)
AnswerClose(c) ==
  /\ Pending(c, "read")
  /\ link[c] \in {"closing", "closed"}
  /\ AllRead(c)
  /\ op' = [op EXCEPT ![c] = "teardown"]
  /\ UNCHANGED <<life, ec, buffer, textOut, link, peerVars, rcvd, part, outbound>>

(* Only when the peer has done so does the read complete with              *)
(* error::closed.                                                          *)
TornDown(c) ==
  /\ Pending(c, "teardown")
  /\ link[c] = "closed"
  /\ Complete(c, "closed")
  /\ UNCHANGED <<life, op, buffer, textOut, link, peerVars, rcvd, part, outbound>>

(* async_write: the message built from the buffer as it is now, which the  *)
(* operation refers to and does not copy, fits into the send window.       *)
WriteOut(c) ==
  /\ Pending(c, "write")
  /\ link[c] \notin {"reset", "shut"}
  /\ Len(outbound[c]) - taken[c] < Window
  /\ outbound' = [outbound EXCEPT ![c] =
                    Append(@, [text |-> textOut[c], data |-> buffer[c]])]
  /\ Complete(c, "ok")
  /\ UNCHANGED <<life, op, buffer, textOut, link, peerVars, rcvd, part>>

(* Any operation fails on a broken connection; a read also at its end.     *)
OpFails(c) ==
  /\ op[c] # "none"
  /\ ec[c] = "pending"
  /\ \/ link[c] \in {"reset", "shut"}
     \/ link[c] = "eof" /\ (op[c] = "accept" \/ (op[c] = "read" /\ AllRead(c)))
  /\ Complete(c, "error")
  /\ UNCHANGED <<life, op, buffer, textOut, link, peerVars, rcvd, part, outbound>>

(* Mutant: run() asks for no idle timeout.                                 *)
OverdueHandshakeOnly(c) == op[c] = "accept" /\ ec[c] = "pending" /\ link[c] = "tcp"

(* Mutant: run() asks for no handshake timeout.                            *)
OverdueIdleOnly(c) == op[c] # "accept" /\ link[c] = "silent"

(* The timeouts that run() asks for, timeout::suggested(server): the       *)
(* handshake must be done within 30 s, and a peer that lets 300 s pass     *)
(* without a byte or a pong, or does not read for as long while a write is *)
(* blocked on it, is given up: Beast closes the socket, and whatever is    *)
(* outstanding then fails.  So is one that does not close its side after   *)
(* the close handshake.  (That a peer which is there answers a ping in     *)
(* time is assumed: only a silent one is timed out of a read.)             *)
Overdue(c) ==
  \/ op[c] = "accept" /\ ec[c] = "pending" /\ link[c] = "tcp"
  \/ link[c] = "silent"
  \/ /\ Pending(c, "write")
     /\ link[c] \in {"open", "closing", "closed", "eof"}
     /\ Len(outbound[c]) - taken[c] = Window
  \/ Pending(c, "teardown") /\ link[c] \in {"closing", "closed"}

Timeout(c) ==
  /\ op[c] # "none"
  /\ Overdue(c)
  /\ link' = [link EXCEPT ![c] = "shut"]
  /\ UNCHANGED <<objectVars, peerVars, rcvd, part, outbound>>

Io(c) ==
  \/ AcceptHandshake(c)
  \/ ReadPart(c)
  \/ AnswerClose(c)
  \/ TornDown(c)
  \/ WriteOut(c)
  \/ OpFails(c)
  \/ Timeout(c)

-----------------------------------------------------------------------------
(* The session object.                                                     *)

Start(c, o) ==
  /\ op' = [op EXCEPT ![c] = o]
  /\ Complete(c, "pending")

(* Mutant: the session object survives its socket in a state of its own.   *)
ReleaseSocketOnly(c) ==
  /\ life' = [life EXCEPT ![c] = "closing"]
  /\ op' = [op EXCEPT ![c] = "none"]
  /\ link' = [link EXCEPT ![c] = "shut"]
  /\ UNCHANGED <<ec, buffer, textOut>>

(* The handler returns without a new operation: the last shared_ptr goes,  *)
(* and the destructor closes the socket.                                   *)
Release(c) ==
  /\ life' = [life EXCEPT ![c] = "gone"]
  /\ op' = [op EXCEPT ![c] = "none"]
  /\ link' = [link EXCEPT ![c] = "shut"]
  /\ UNCHANGED <<ec, buffer, textOut>>

(* Constructed by Server::on_accept on the accepted socket and run.        *)
Run(c) ==
  /\ life[c] = "none"
  /\ link[c] # "absent"
  /\ life' = [life EXCEPT ![c] = "live"]
  /\ Start(c, "accept")
  /\ UNCHANGED <<buffer, textOut, link, peerVars, rcvd, part, outbound>>

Completed(c, o) == op[c] = o /\ ec[c] # "pending"

DoRead(c) ==
  /\ Start(c, "read")
  /\ UNCHANGED <<life, link>>

OnAccept(c) ==
  /\ Completed(c, "accept")
  /\ \/ ec[c] = "ok" /\ DoRead(c) /\ UNCHANGED <<buffer, textOut>>
     \/ ec[c] # "ok" /\ Release(c)
  /\ UNCHANGED <<peerVars, rcvd, part, outbound>>

(* got_text(): whether the message read last is text.                      *)
GotText(c) == sent[c][rcvd[c]].text

(* Mutant: on_read does not answer an empty message.                       *)
OnReadSkipEmpty(c) ==
  /\ Completed(c, "read") \/ Completed(c, "teardown")
  /\ \/ /\ ec[c] = "ok"
        /\ textOut' = [textOut EXCEPT ![c] = GotText(c)]
        /\ Start(c, IF buffer[c] = <<>> THEN "read" ELSE "write")
        /\ UNCHANGED <<life, link, buffer>>
     \/ ec[c] \in {"closed", "error"} /\ Release(c)
  /\ UNCHANGED <<peerVars, rcvd, part, outbound>>

(* Mutant: on_read does not set the text option.                           *)
OnReadNoText(c) ==
  /\ Completed(c, "read") \/ Completed(c, "teardown")
  /\ \/ ec[c] = "ok" /\ Start(c, "write") /\ UNCHANGED <<life, link, buffer, textOut>>
     \/ ec[c] \in {"closed", "error"} /\ Release(c)
  /\ UNCHANGED <<peerVars, rcvd, part, outbound>>

(* A closed session and a failed read end alike, but for the message       *)
(* fail() prints.                                                          *)
OnRead(c) ==
  /\ Completed(c, "read") \/ Completed(c, "teardown")
  /\ \/ /\ ec[c] = "ok"
        /\ textOut' = [textOut EXCEPT ![c] = GotText(c)]
        /\ Start(c, "write")
        /\ UNCHANGED <<life, link, buffer>>
     \/ ec[c] \in {"closed", "error"} /\ Release(c)
  /\ UNCHANGED <<peerVars, rcvd, part, outbound>>

(* Mutant: on_write does not clear the buffer.                             *)
OnWriteNoConsume(c) ==
  /\ Completed(c, "write")
  /\ \/ ec[c] = "ok" /\ DoRead(c) /\ UNCHANGED <<buffer, textOut>>
     \/ ec[c] # "ok" /\ Release(c)
  /\ UNCHANGED <<peerVars, rcvd, part, outbound>>

OnWrite(c) ==
  /\ Completed(c, "write")
  /\ \/ /\ ec[c] = "ok"
        /\ buffer' = [buffer EXCEPT ![c] = <<>>]
        /\ DoRead(c)
        /\ UNCHANGED textOut
     \/ ec[c] # "ok" /\ Release(c)
  /\ UNCHANGED <<peerVars, rcvd, part, outbound>>

Handler(c) ==
  \/ OnAccept(c)
  \/ OnRead(c)
  \/ OnWrite(c)

Next ==
  \E c \in Conns :
    \/ Connect(c)
    \/ Run(c)
    \/ Peer(c)
    \/ Io(c)
    \/ Handler(c)

(* What has arrived is read, what fits the window is sent, broken          *)
(* connections are reported and timers fire; a completed operation's       *)
(* handler is run by the io_context.  Nothing is assumed of the peer: it   *)
(* need not send, read or leave.                                           *)
IoFairness(c) ==
  /\ WF_vars(ReadArrived(c))
  /\ WF_vars(AnswerClose(c))
  /\ WF_vars(TornDown(c))
  /\ WF_vars(WriteOut(c))
  /\ WF_vars(OpFails(c))
  /\ WF_vars(Timeout(c))

Fairness == \A c \in Conns : IoFairness(c) /\ WF_vars(Handler(c))

Safety == Init /\ [][Next]_vars

Spec == Safety /\ Fairness

-----------------------------------------------------------------------------
(* Properties.                                                             *)

(* The peer gets back its own messages: the n-th reply is the n-th message *)
(* sent, the same payload in one message and the same text flag, however   *)
(* it was cut into parts and whatever came before it ("Echo the message    *)
(* back", server/session.cpp:46).                                          *)
Faithful(c) ==
  \A i \in 1..Len(outbound[c]) : i <= Len(sent[c]) /\ outbound[c][i] = sent[c][i]

EchoFaithful == \A c \in Conns : Faithful(c)

(* A session that answers the peer's close frame, and may end with         *)
(* error::closed, has answered every message the peer sent before it:      *)
(* on_read returns without a word because nothing can be left to say.      *)
Drained(c) ==
  op[c] = "teardown" \/ (op[c] # "none" /\ ec[c] = "closed") =>
    Len(outbound[c]) = Len(sent[c])

ClosedMeansAnswered == \A c \in Conns : Drained(c)

(* How the buffer relates to the messages in each phase of the loop: the   *)
(* inductive invariant behind both.                                        *)
HoldsStart(c, n, k) ==     \* the buffer has the first k parts of message n
  /\ n <= Len(sent[c])
  /\ k < Len(sent[c][n].data)
  /\ Len(buffer[c]) = k
  /\ \A i \in 1..k : buffer[c][i] = sent[c][n].data[i]

HoldsWhole(c, n) == n <= Len(sent[c]) /\ buffer[c] = sent[c][n].data

Reading(c) == (op[c] = "read" /\ ec[c] # "ok") \/ op[c] = "teardown"

Answering(c) == (op[c] = "read" /\ ec[c] = "ok") \/ (op[c] = "write" /\ ec[c] # "ok")

LoopInv(c) ==
  /\ life[c] = "live" <=> op[c] # "none"
  /\ link[c] = "open" => life[c] = "live"
  /\ rcvd[c] <= Len(sent[c])
  /\ op[c] = "teardown" =>
       ec[c] # "ok" /\ link[c] # "open" /\ rcvd[c] = Len(sent[c])
  /\ op[c] # "none" /\ ec[c] = "closed" => op[c] = "teardown"
  /\ op[c] \in {"none", "accept"} /\ life[c] # "gone" =>
       buffer[c] = <<>> /\ part[c] = 0 /\ rcvd[c] = 0 /\ outbound[c] = <<>>
  /\ Reading(c) =>
       /\ Len(outbound[c]) = rcvd[c]
       /\ part[c] = 0 => buffer[c] = <<>>
       /\ part[c] > 0 => HoldsStart(c, rcvd[c] + 1, part[c])
  /\ Answering(c) =>
       /\ Len(outbound[c]) + 1 = rcvd[c]
       /\ part[c] = 0
       /\ HoldsWhole(c, rcvd[c])
       /\ op[c] = "write" => textOut[c] = sent[c][rcvd[c]].text
  /\ op[c] = "write" /\ ec[c] = "ok" => Len(outbound[c]) = rcvd[c] /\ part[c] = 0

ConnInv(c) == LoopInv(c) /\ Faithful(c) /\ Drained(c)

EchoInv == \A c \in Conns : ConnInv(c)

(* A peer that has left, in whatever way, does not keep its session: the   *)
(* object and its socket are given up, a silent peer's by the timeout      *)
(* run() sets.                                                             *)
DepartedReleased ==
  \A c \in Conns :
    (life[c] = "live" /\ link[c] \in Departures) ~> life[c] = "gone"

(* A connection on which the handshake is never made does not stay         *)
(* (server/session.cpp:5, timeout::suggested).                             *)
HandshakeBounded == \A c \in Conns : (op[c] = "accept") ~> (op[c] # "accept")

(* The sessions implement the abstract service, its liveness included: a   *)
(* message the peer sent is answered or the session ends, also when the    *)
(* peer stops reading and the two would wait for each other.               *)
Echo == INSTANCE EchoService WITH
          asked <- sent, answered <- outbound,
          over <- [c \in Conns |-> life[c] = "gone"]

ImplementsEcho == Echo!Spec
=============================================================================
