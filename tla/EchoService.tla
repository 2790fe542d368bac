---------------------------- MODULE EchoService ----------------------------
(***************************************************************************)
(* What the server promises the peer of a connection, without sockets,     *)
(* buffers or threads: messages are answered in the order they were asked, *)
(* each with a copy of itself, until the conversation is over.  The        *)
(* ServerSession module implements it.                                     *)
(***************************************************************************)
EXTENDS Naturals, Sequences

CONSTANTS
  Conns,      (* the connections                         *)
  Messages,   (* the messages a peer can send            *)
  MaxSend     (* bound on the messages of one connection *)

VARIABLES
  asked,      (* per connection, the messages the peer sent                *)
  answered,   (* per connection, the messages sent back to the peer        *)
  over        (* per connection, whether the server has dropped it         *)

vars == <<asked, answered, over>>

Init ==
  /\ asked = [c \in Conns |-> <<>>]
  /\ answered = [c \in Conns |-> <<>>]
  /\ over = [c \in Conns |-> FALSE]

Ask(c, m) ==
  /\ ~over[c]
  /\ Len(asked[c]) < MaxSend
  /\ asked' = [asked EXCEPT ![c] = Append(@, m)]
  /\ UNCHANGED <<answered, over>>

Unanswered(c) == Len(answered[c]) < Len(asked[c])

Answer(c) ==
  /\ ~over[c]
  /\ Unanswered(c)
  /\ answered' = [answered EXCEPT ![c] = Append(@, asked[c][Len(@) + 1])]
  /\ UNCHANGED <<asked, over>>

End(c) ==
  /\ ~over[c]
  /\ over' = [over EXCEPT ![c] = TRUE]
  /\ UNCHANGED <<asked, answered>>

Next == \E c \in Conns : (\E m \in Messages : Ask(c, m)) \/ Answer(c) \/ End(c)

(* A message is not left waiting for ever: it is answered or the           *)
(* connection is dropped.                                                  *)
Fairness == \A c \in Conns : WF_vars(Unanswered(c) /\ (Answer(c) \/ End(c)))

Safety == Init /\ [][Next]_vars

Spec == Safety /\ Fairness
=============================================================================
