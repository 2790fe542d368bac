------------------------ MODULE ClientSessionProofs ------------------------
(***************************************************************************)
(* Proofs about ClientSession, for any sessions and replies.               *)
(***************************************************************************)
EXTENDS ClientSession, TLAPS

(* What the safety properties rest on: the timer of the tcp_stream is set  *)
(* for the connect only (a connect that fails leaves it on an object that  *)
(* is gone), the socket is closed only at the end of the chain, by a close *)
(* that is done or by a timer, and the buffer holds the server's message   *)
(* or nothing.                                                             *)
ChainInv ==
  \A s \in Sessions :
    /\ expires[s] => op[s] \in {"connect", "over"}
    /\ op[s] = "none" => link[s] = "absent"
    /\ link[s] = "shut" =>
         op[s] = "over" \/ ec[s] = "error" \/ (op[s] = "close" /\ ec[s] = "ok")
    /\ buffer[s] # None => buffer[s] = answer[s]

Inv == TypeOK /\ ChainInv /\ PrintedIsAnswer

(* One step of one session, as a disjunction of its actions.               *)
LEMMA StepOf ==
  ASSUME [Next]_vars
  PROVE  \/ UNCHANGED vars
         \/ \E s \in Sessions :
              \/ Run(s)
              \/ \E m \in Replies : ServerSends(s, m)
              \/ \E how \in Departures : ServerLeaves(s, how)
              \/ Io(s)
              \/ Handler(s)
BY DEF Next, Server

LEMMA InitInv == Init => Inv
BY DEF Init, Inv, TypeOK, ChainInv, PrintedIsAnswer

(* Every step keeps the invariant.                                         *)
LEMMA StepInv ==
  ASSUME Inv, [Next]_vars
  PROVE  Inv'
<1> USE ClientSessionAssumption DEF Inv, TypeOK, ChainInv, PrintedIsAnswer, Operations,
        Departures, objectVars, serverVars
<1>1. ASSUME NEW s \in Sessions, Run(s)
      PROVE  Inv'
  BY <1>1 DEF Run, Start, Complete
<1>2. ASSUME NEW s \in Sessions, NEW m \in Replies, ServerSends(s, m)
      PROVE  Inv'
  BY <1>2 DEF ServerSends
<1>3. ASSUME NEW s \in Sessions, NEW how \in Departures, ServerLeaves(s, how)
      PROVE  Inv'
  <2>1. /\ how # "shut" /\ link' = [link EXCEPT ![s] = how]
        /\ UNCHANGED <<objectVars, serverVars>>
    BY <1>3 DEF ServerLeaves
  <2>2. TypeOK' /\ PrintedIsAnswer'
    BY <2>1
  <2>3. ChainInv'
    <3>1. op[s] # "none"
      BY <1>3 DEF ServerLeaves
    <3> QED BY <2>1, <3>1
  <2> QED BY <2>2, <2>3
<1>4. ASSUME NEW s \in Sessions, Io(s)
      PROVE  Inv'
  <2>1. CASE Resolved(s)
    BY <2>1 DEF Resolved, Pending, Complete
  <2>2. CASE Connected(s)
    BY <2>2 DEF Connected, Pending, Complete
  <2>3. CASE ShakenHands(s)
    BY <2>3 DEF ShakenHands, Pending, Complete
  <2>4. CASE Written(s)
    BY <2>4 DEF Written, Pending, Complete
  <2>5. CASE ReadAnswer(s)
    BY <2>5 DEF ReadAnswer, Pending, Complete
  <2>6. CASE Closed(s)
    BY <2>6 DEF Closed, Pending, Complete
  <2>7. CASE OpFails(s)
    BY <2>7 DEF OpFails, Broken, Complete
  <2>8. CASE Timeout(s)
    BY <2>8 DEF Timeout, Covered, Complete
  <2> QED BY <1>4, <2>1, <2>2, <2>3, <2>4, <2>5, <2>6, <2>7, <2>8 DEF Io
<1>5. ASSUME NEW s \in Sessions, Handler(s)
      PROVE  Inv'
  <2>1. CASE OnResolve(s)
    BY <2>1 DEF OnResolve, Succeeded, Start, Complete
  <2>2. CASE OnConnect(s)
    BY <2>2 DEF OnConnect, Succeeded, Start, Complete
  <2>3. CASE OnHandshake(s)
    BY <2>3 DEF OnHandshake, Succeeded, Start, Complete
  <2>4. CASE OnWrite(s)
    BY <2>4 DEF OnWrite, Succeeded, Start, Complete
  <2>5. CASE OnRead(s)
    BY <2>5 DEF OnRead, Succeeded, Start, Complete
  <2>6. CASE OnClose(s)
    BY <2>6 DEF OnClose, Succeeded, Finish
  <2>7. CASE Fail(s)
    BY <2>7 DEF Fail, Finish
  <2> QED BY <1>5, <2>1, <2>2, <2>3, <2>4, <2>5, <2>6, <2>7 DEF Handler
<1>6. CASE UNCHANGED vars
  BY <1>6 DEF vars
<1> QED BY <1>1, <1>2, <1>3, <1>4, <1>5, <1>6, StepOf

LEMMA Invariant == Safety => []Inv
BY InitInv, StepInv, PTL DEF Safety

(* Every variable keeps its type (client/session.h:16-21).                 *)
THEOREM ClientSessionTypeOK == Safety => []TypeOK
BY Invariant, PTL DEF Inv

(* What is printed is the server's message, after a whole exchange         *)
(* (client/session.cpp:69-91).                                             *)
THEOREM ClientSessionPrintedIsAnswer == Safety => []PrintedIsAnswer
BY Invariant, PTL DEF Inv

(* No timer ends an open connection (client/session.cpp:31-36): only a     *)
(* timer or the end of the chain closes the socket, the timers cover       *)
(* neither the write nor the read, and no handler runs before the          *)
(* operation is done.                                                      *)
THEOREM ClientSessionNoDeadline == Safety => NoDeadlineOnceOpen
<1> DEFINE Patient == \A s \in Sessions :
             op[s] \in {"write", "read"} /\ ec[s] = "pending" => link'[s] # "shut"
<1>1. Inv /\ [Next]_vars => [Patient]_vars
  <2> SUFFICES ASSUME Inv, Next, NEW s \in Sessions,
                      op[s] \in {"write", "read"}, ec[s] = "pending", link'[s] = "shut"
               PROVE  FALSE
    BY DEF vars
  <2>1. /\ link \in [Sessions -> Departures \cup {"absent", "tcp", "open", "shut"}]
        /\ link[s] # "shut" /\ ~expires[s]
    BY DEF Inv, TypeOK, ChainInv
  <2>2. PICK r \in Sessions :
          \/ Run(r)
          \/ \E m \in Replies : ServerSends(r, m)
          \/ \E how \in Departures : ServerLeaves(r, how)
          \/ Io(r)
          \/ Handler(r)
    BY DEF Next, Server
  <2>3. CASE r # s
    <3>1. link'[s] = link[s]
      BY <2>1, <2>2, <2>3 DEF Run, ServerSends, ServerLeaves, Io, Resolved, Connected, ShakenHands,
         Written, ReadAnswer, Closed, OpFails, Timeout, Handler, OnResolve, OnConnect,
         OnHandshake, OnWrite, OnRead, OnClose, Fail, Finish, objectVars, serverVars
    <3> QED BY <2>1, <3>1
  <2>4. CASE r = s
    <3>1. ~Handler(s) /\ ~Run(s)
      BY DEF Handler, Run, OnResolve, OnConnect, OnHandshake, OnWrite, OnRead, OnClose, Fail,
             Succeeded
    <3>2. ~Covered(s)
      BY <2>1 DEF Covered
    <3>3. CASE Io(s)
      BY <2>1, <3>2, <3>3 DEF Io, Resolved, Connected, ShakenHands, Written, ReadAnswer,
         Closed, OpFails, Timeout, Pending
    <3>4. CASE \E m \in Replies : ServerSends(s, m)
      BY <2>1, <3>4 DEF ServerSends
    <3>5. CASE \E how \in Departures : ServerLeaves(s, how)
      BY <2>1, <3>5 DEF ServerLeaves, Departures
    <3> QED BY <2>2, <2>4, <3>1, <3>3, <3>4, <3>5
  <2> QED BY <2>3, <2>4
<1> QED BY <1>1, Invariant, PTL DEF Safety, NoDeadlineOnceOpen
=============================================================================
