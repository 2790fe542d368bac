------------------------ MODULE ServerSessionProofs ------------------------
(***************************************************************************)
(* Proofs about ServerSession, for any connections, messages and window.   *)
(***************************************************************************)
EXTENDS ServerSession, SequenceTheorems, TLAPS

(* A message's payload is a sequence of parts.                             *)
LEMMA MessageType ==
  ASSUME NEW m \in Messages
  PROVE  m \in Message /\ m.text \in BOOLEAN /\ m.data \in Seq(Parts)
BY SessionAssumption DEF Message

(* The type of a variable survives every step.  OnRead needs the loop      *)
(* invariant: got_text() speaks of a message that has been read.           *)
LEMMA TypeStep ==
  ASSUME TypeOK, EchoInv, [Next]_vars
  PROVE  TypeOK'
<1> USE DEF TypeOK, Links, objectVars, peerVars
<1>1. ASSUME NEW c \in Conns, Connect(c)
      PROVE  TypeOK'
  BY <1>1 DEF Connect
<1>2. ASSUME NEW c \in Conns, Run(c)
      PROVE  TypeOK'
  BY <1>2 DEF Run, Start, Complete
<1>3. ASSUME NEW c \in Conns, NEW m \in Messages, PeerSend(c, m)
      PROVE  TypeOK'
  BY <1>3 DEF PeerSend
<1>4. ASSUME NEW c \in Conns, PeerTake(c)
      PROVE  TypeOK'
  BY <1>4 DEF PeerTake
<1>5. ASSUME NEW c \in Conns, NEW how \in Departures, PeerLeave(c, how)
      PROVE  TypeOK'
  BY <1>5 DEF PeerLeave, Departures
<1>6. ASSUME NEW c \in Conns, AcceptHandshake(c)
      PROVE  TypeOK'
  BY <1>6 DEF AcceptHandshake, Complete
<1>7. ASSUME NEW c \in Conns, ReadPart(c)
      PROVE  TypeOK'
  <2> DEFINE data == sent[c][rcvd[c] + 1].data
  <2>1. data \in Seq(Parts)
    BY <1>7, MessageType DEF ReadPart
  <2>2. buffer' \in [Conns -> Seq(Parts)]
    <3>1. CASE part[c] < Len(data)
      <4>1. data[part[c] + 1] \in Parts
        BY <2>1, <3>1
      <4> QED BY <1>7, <3>1, <4>1 DEF ReadPart
    <3>2. CASE ~(part[c] < Len(data))
      BY <1>7, <3>2 DEF ReadPart
    <3> QED BY <3>1, <3>2
  <2>3. part' \in [Conns -> Nat] /\ rcvd' \in [Conns -> Nat]
    <3> DEFINE last == part[c] + 1 >= Len(data)
    <3>1. /\ part' = [part EXCEPT ![c] = IF last THEN 0 ELSE @ + 1]
          /\ rcvd' = [rcvd EXCEPT ![c] = IF last THEN @ + 1 ELSE @]
      BY <1>7 DEF ReadPart
    <3> HIDE DEF last
    <3> QED BY <3>1
  <2>4. ec' \in [Conns -> {"pending", "ok", "closed", "error"}]
    BY <1>7 DEF ReadPart, Complete
  <2> QED BY <1>7, <2>2, <2>3, <2>4 DEF ReadPart
<1>8. ASSUME NEW c \in Conns, AnswerClose(c) \/ TornDown(c)
      PROVE  TypeOK'
  BY <1>8 DEF AnswerClose, TornDown, Complete
<1>9. ASSUME NEW c \in Conns, WriteOut(c)
      PROVE  TypeOK'
  <2>1. [text |-> textOut[c], data |-> buffer[c]] \in Message
    BY DEF Message
  <2> QED BY <1>9, <2>1 DEF WriteOut, Complete
<1>10. ASSUME NEW c \in Conns, OpFails(c)
       PROVE  TypeOK'
  BY <1>10 DEF OpFails, Complete
<1>11. ASSUME NEW c \in Conns, Timeout(c)
       PROVE  TypeOK'
  BY <1>11 DEF Timeout
<1>12. ASSUME NEW c \in Conns, OnAccept(c)
       PROVE  TypeOK'
  BY <1>12 DEF OnAccept, DoRead, Start, Release, Complete
<1>13. ASSUME NEW c \in Conns, OnRead(c)
       PROVE  TypeOK'
  <2>1. CASE ec[c] = "ok"
    <3>1. rcvd[c] \in 1..Len(sent[c])
      BY <1>13, <2>1 DEF EchoInv, ConnInv, LoopInv, Answering, HoldsWhole, OnRead, Completed
    <3>2. GotText(c) \in BOOLEAN
      BY <3>1, MessageType DEF GotText
    <3>3. textOut' \in [Conns -> BOOLEAN]
      BY <1>13, <2>1, <3>2, Zenon DEF OnRead
    <3> QED BY <1>13, <2>1, <3>3 DEF OnRead, Start, Complete
  <2>2. CASE ec[c] # "ok"
    BY <1>13, <2>2 DEF OnRead, Release
  <2> QED BY <2>1, <2>2
<1>14. ASSUME NEW c \in Conns, OnWrite(c)
       PROVE  TypeOK'
  <2>1. CASE ec[c] = "ok"
    <3>1. <<>> \in Seq(Parts)
      OBVIOUS
    <3>2. buffer' \in [Conns -> Seq(Parts)]
      BY <1>14, <2>1, <3>1, Zenon DEF OnWrite
    <3> QED BY <1>14, <2>1, <3>2 DEF OnWrite, DoRead, Start, Complete
  <2>2. CASE ec[c] # "ok"
    BY <1>14, <2>2 DEF OnWrite, Release
  <2> QED BY <2>1, <2>2
<1>15. CASE UNCHANGED vars
  BY <1>15 DEF vars
<1> QED
  BY <1>1, <1>2, <1>3, <1>4, <1>5, <1>6, <1>7, <1>8, <1>9, <1>10, <1>11,
     <1>12, <1>13, <1>14, <1>15 DEF Next, Peer, Io, Handler

-----------------------------------------------------------------------------
(* The loop invariant of a connection depends on nothing else.             *)
LEMMA Unaffected ==
  ASSUME NEW d \in Conns, ConnInv(d),
         life'[d] = life[d], op'[d] = op[d], ec'[d] = ec[d],
         buffer'[d] = buffer[d], textOut'[d] = textOut[d], sent'[d] = sent[d],
         rcvd'[d] = rcvd[d], part'[d] = part[d], outbound'[d] = outbound[d],
         link'[d] # link[d] => link'[d] # "open"
  PROVE  ConnInv(d)'
BY DEF ConnInv, LoopInv, Faithful, Drained, Reading, Answering, HoldsStart, HoldsWhole

(* What a write sends is the message the next reply is due to.             *)
LEMMA WriteIsNextReply ==
  ASSUME TypeOK, EchoInv, NEW c \in Conns, WriteOut(c)
  PROVE  /\ Len(outbound[c]) + 1 = rcvd[c]
         /\ rcvd[c] <= Len(sent[c])
         /\ [text |-> textOut[c], data |-> buffer[c]] = sent[c][rcvd[c]]
<1> DEFINE n == rcvd[c]
<1>1. /\ Len(outbound[c]) + 1 = n /\ n <= Len(sent[c])
      /\ buffer[c] = sent[c][n].data /\ textOut[c] = sent[c][n].text
  BY DEF EchoInv, ConnInv, LoopInv, Answering, HoldsWhole, WriteOut, Pending
<1>2. sent[c][n] \in Message
  BY <1>1, MessageType DEF TypeOK
<1> QED BY <1>1, <1>2 DEF Message

(* Each step keeps the loop invariant of every connection.                 *)
LEMMA EchoStep ==
  ASSUME TypeOK, EchoInv, [Next]_vars
  PROVE  EchoInv'
<1> SUFFICES ASSUME NEW d \in Conns
             PROVE  ConnInv(d)'
  BY DEF EchoInv
<1> ConnInv(d)
  BY DEF EchoInv
<1> USE DEF TypeOK, objectVars, peerVars
<1>1. ASSUME NEW c \in Conns, Connect(c)
      PROVE  ConnInv(d)'
  BY <1>1, Unaffected DEF Connect
<1>2. ASSUME NEW c \in Conns, Run(c)
      PROVE  ConnInv(d)'
  <2>1. CASE d # c
    BY <1>2, <2>1, Unaffected DEF Run, Start, Complete
  <2>2. CASE d = c
    BY <1>2, <2>2 DEF Run, Start, Complete, ConnInv, LoopInv, Faithful, Drained, Reading, Answering
  <2> QED BY <2>1, <2>2
<1>3. ASSUME NEW c \in Conns, NEW m \in Messages, PeerSend(c, m)
      PROVE  ConnInv(d)'
  <2>1. CASE d # c
    BY <1>3, <2>1, Unaffected DEF PeerSend
  <2>2. CASE d = c
    <3>1. /\ Len(sent'[c]) = Len(sent[c]) + 1
          /\ \A i \in 1..Len(sent[c]) : sent'[c][i] = sent[c][i]
      BY <1>3 DEF PeerSend
    <3>2. op[c] # "none" /\ (op[c] = "teardown" \/ ec[c] = "closed") => link[c] # "open"
      BY <2>2 DEF ConnInv, LoopInv
    <3>3. LoopInv(c)'
      BY <1>3, <2>2, <3>1 DEF PeerSend, ConnInv, LoopInv, Reading, Answering, HoldsStart, HoldsWhole
    <3>4. Faithful(c)'
      BY <1>3, <2>2, <3>1 DEF PeerSend, ConnInv, LoopInv, Faithful
    <3>5. Drained(c)'
      BY <1>3, <2>2, <3>1, <3>2 DEF PeerSend, ConnInv, Drained
    <3> QED BY <2>2, <3>3, <3>4, <3>5 DEF ConnInv
  <2> QED BY <2>1, <2>2
<1>4. ASSUME NEW c \in Conns, PeerTake(c)
      PROVE  ConnInv(d)'
  BY <1>4, Unaffected DEF PeerTake
<1>5. ASSUME NEW c \in Conns, NEW how \in Departures, PeerLeave(c, how)
      PROVE  ConnInv(d)'
  BY <1>5, Unaffected DEF PeerLeave
<1>6. ASSUME NEW c \in Conns, AcceptHandshake(c)
      PROVE  ConnInv(d)'
  <2>1. CASE d # c
    BY <1>6, <2>1, Unaffected DEF AcceptHandshake, Complete
  <2>2. CASE d = c
    BY <1>6, <2>2 DEF AcceptHandshake, Pending, Complete, ConnInv, LoopInv, Faithful,
                      Drained, Reading, Answering
  <2> QED BY <2>1, <2>2
<1>7. ASSUME NEW c \in Conns, ReadPart(c)
      PROVE  ConnInv(d)'
  <2>1. CASE d # c
    BY <1>7, <2>1, Unaffected DEF ReadPart, Complete
  <2>2. CASE d = c
    <3> DEFINE n == rcvd[c] + 1
               data == sent[c][n].data
    <3>1. /\ op[c] = "read" /\ ec[c] = "pending" /\ op' = op /\ life' = life
          /\ Len(outbound[c]) = rcvd[c] /\ n <= Len(sent[c])
          /\ sent' = sent /\ outbound' = outbound /\ textOut' = textOut
      BY <1>7, <2>2 DEF ReadPart, Pending, ConnInv, LoopInv, Reading
    <3>2. data \in Seq(Parts) /\ buffer[c] \in Seq(Parts)
      BY <3>1, MessageType
    <3>3. /\ Len(buffer[c]) = part[c]
          /\ \A i \in 1..part[c] : buffer[c][i] = data[i]
      BY <2>2, <3>1 DEF ConnInv, LoopInv, Reading, HoldsStart
    <3>4. CASE part[c] < Len(data)
      <4>1. /\ Len(buffer'[c]) = part[c] + 1
            /\ \A i \in 1..part[c] + 1 : buffer'[c][i] = data[i]
            /\ buffer'[c] \in Seq(Parts)
        <5>1. buffer'[c] = Append(buffer[c], data[part[c] + 1])
          BY <1>7, <3>4 DEF ReadPart
        <5>0. part[c] \in Nat
          OBVIOUS
        <5> HIDE DEF data
        <5>2. data[part[c] + 1] \in Parts
          BY <3>2, <3>4, <5>0
        <5>3. /\ Len(buffer'[c]) = part[c] + 1
              /\ buffer'[c][part[c] + 1] = data[part[c] + 1]
              /\ \A i \in 1..part[c] : buffer'[c][i] = buffer[c][i]
              /\ buffer'[c] \in Seq(Parts)
          <6> DEFINE x == data[part[c] + 1]
          <6>1. x \in Parts /\ buffer[c] \in Seq(Parts) /\ buffer'[c] = Append(buffer[c], x)
            BY <3>2, <5>1, <5>2
          <6> HIDE DEF x
          <6>2. /\ Append(buffer[c], x) \in Seq(Parts)
                /\ Len(Append(buffer[c], x)) = Len(buffer[c]) + 1
                /\ Append(buffer[c], x)[Len(buffer[c]) + 1] = x
                /\ \A i \in 1..Len(buffer[c]) : Append(buffer[c], x)[i] = buffer[c][i]
            BY <6>1
          <6>3. buffer'[c][part[c] + 1] = x
            BY <3>3, <6>1, <6>2
          <6> QED BY <3>3, <6>1, <6>2, <6>3 DEF x
        <5>4. \A i \in 1..part[c] + 1 : buffer'[c][i] = data[i]
          <6>1. \A k \in Nat : \A i \in 1..k + 1 : i \in 1..k \/ i = k + 1
            OBVIOUS
          <6> TAKE i \in 1..part[c] + 1
          <6>2. i \in 1..part[c] \/ i = part[c] + 1
            BY <5>0, <6>1, Zenon
          <6> QED BY <3>3, <5>3, <6>2
        <5> QED BY <5>3, <5>4
      <4>2. CASE part[c] + 1 >= Len(data)
        <5>1. buffer'[c] = data
          <6> HIDE DEF data
          <6>1. Len(data) = part[c] + 1
            BY <3>2, <3>4, <4>2
          <6> QED BY <3>2, <4>1, <6>1, SeqEqual
        <5>2. rcvd'[c] = n /\ part'[c] = 0 /\ ec'[c] = "ok"
          BY <1>7, <4>2 DEF ReadPart, Complete
        <5> QED BY <2>2, <3>1, <5>1, <5>2 DEF ConnInv, LoopInv, Faithful, Drained,
                    Reading, Answering, HoldsWhole
      <4>3. CASE ~(part[c] + 1 >= Len(data))
        <5>1. rcvd'[c] = rcvd[c] /\ part'[c] = part[c] + 1 /\ ec'[c] = "pending"
          BY <1>7, <4>3 DEF ReadPart, Complete
        <5>2. part'[c] < Len(data)
          <6> HIDE DEF data
          <6> QED BY <3>2, <4>3, <5>1
        <5>3. HoldsStart(c, rcvd[c] + 1, part[c])'
          BY <3>1, <4>1, <5>1, <5>2 DEF HoldsStart
        <5> QED BY <2>2, <3>1, <5>1, <5>3 DEF ConnInv, LoopInv, Faithful, Drained,
                    Reading, Answering
      <4> QED BY <4>2, <4>3
    <3>5. CASE ~(part[c] < Len(data))     \* only the empty message
      <4>1. part[c] = 0
        BY <2>2, <3>1, <3>5 DEF ConnInv, LoopInv, Reading, HoldsStart
      <4>2. data = <<>> /\ buffer[c] = <<>>
        BY <3>2, <3>3, <3>5, <4>1
      <4>3. rcvd'[c] = n /\ part'[c] = 0 /\ ec'[c] = "ok" /\ buffer' = buffer
        BY <1>7, <3>2, <3>5, <4>1 DEF ReadPart, Complete
      <4> QED BY <2>2, <3>1, <4>2, <4>3 DEF ConnInv, LoopInv, Faithful, Drained,
                  Reading, Answering, HoldsWhole
    <3> QED BY <3>4, <3>5
  <2> QED BY <2>1, <2>2
<1>8. ASSUME NEW c \in Conns, AnswerClose(c) \/ TornDown(c)
      PROVE  ConnInv(d)'
  <2>1. CASE d # c
    BY <1>8, <2>1, Unaffected DEF AnswerClose, TornDown, Complete
  <2>2. CASE d = c /\ AnswerClose(c)
    BY <2>2 DEF AnswerClose, AllRead, Pending, ConnInv, LoopInv, Faithful,
                Drained, Reading, Answering, HoldsStart, HoldsWhole
  <2>3. CASE d = c /\ TornDown(c)
    BY <2>3 DEF TornDown, Pending, Complete, ConnInv, LoopInv, Faithful,
                Drained, Reading, Answering, HoldsStart, HoldsWhole
  <2> QED BY <1>8, <2>1, <2>2, <2>3
<1>9. ASSUME NEW c \in Conns, WriteOut(c)
      PROVE  ConnInv(d)'
  <2>1. CASE d # c
    BY <1>9, <2>1, Unaffected DEF WriteOut, Complete
  <2>2. CASE d = c
    <3> DEFINE n == rcvd[c]
               m == [text |-> textOut[c], data |-> buffer[c]]
    <3>1. /\ op[c] = "write" /\ op' = op /\ ec'[c] = "ok" /\ life' = life /\ link' = link
          /\ sent' = sent /\ rcvd' = rcvd /\ part' = part /\ part[c] = 0
      BY <1>9, <2>2 DEF WriteOut, Pending, Complete, ConnInv, LoopInv, Answering
    <3>2. Len(outbound[c]) + 1 = n /\ n <= Len(sent[c]) /\ m = sent[c][n]
      BY <1>9, WriteIsNextReply
    <3>3. sent[c][n] \in Message
      BY <3>2, MessageType
    <3>4. /\ Len(outbound'[c]) = n
          /\ outbound'[c][n] = m
          /\ \A i \in 1..Len(outbound[c]) : outbound'[c][i] = outbound[c][i]
      BY <1>9, <3>2 DEF WriteOut
    <3>5. Faithful(c)'
      <4>1. outbound'[c] \in Seq(Message) /\ n \in Nat
        BY <1>9, <3>2, <3>3 DEF WriteOut
      <4> SUFFICES ASSUME NEW i \in 1..n
                   PROVE  i <= Len(sent[c]) /\ outbound'[c][i] = sent[c][i]
        BY <3>1, <3>4 DEF Faithful
      <4>2. CASE i = n
        BY <3>1, <3>2, <3>4, <4>2
      <4>3. CASE i \in 1..Len(outbound[c])
        BY <2>2, <3>4, <4>3 DEF ConnInv, Faithful
      <4> QED BY <3>2, <4>2, <4>3
    <3>6. LoopInv(c)' /\ Drained(c)'
      BY <2>2, <3>1, <3>2, <3>4 DEF ConnInv, LoopInv, Drained, Reading, Answering
    <3> QED BY <2>2, <3>5, <3>6 DEF ConnInv
  <2> QED BY <2>1, <2>2
<1>10. ASSUME NEW c \in Conns, OpFails(c)
       PROVE  ConnInv(d)'
  <2>1. CASE d # c
    BY <1>10, <2>1, Unaffected DEF OpFails, Complete
  <2>2. CASE d = c
    BY <1>10, <2>2 DEF OpFails, Complete, ConnInv, LoopInv, Faithful,
                      Drained, Reading, Answering, HoldsStart, HoldsWhole
  <2> QED BY <2>1, <2>2
<1>11. ASSUME NEW c \in Conns, Timeout(c)
       PROVE  ConnInv(d)'
  BY <1>11, Unaffected DEF Timeout
<1>12. ASSUME NEW c \in Conns, OnAccept(c)
       PROVE  ConnInv(d)'
  <2>1. CASE d # c
    BY <1>12, <2>1, Unaffected DEF OnAccept, DoRead, Start, Release, Complete
  <2>2. CASE d = c
    BY <1>12, <2>2 DEF OnAccept, Completed, DoRead, Start, Release, Complete, ConnInv,
                 LoopInv, Faithful, Drained, Reading, Answering
  <2> QED BY <2>1, <2>2
<1>13. ASSUME NEW c \in Conns, OnRead(c)
       PROVE  ConnInv(d)'
  <2>1. CASE d # c
    BY <1>13, <2>1, Unaffected DEF OnRead, Start, Release, Complete
  <2>2. CASE d = c
    BY <1>13, <2>2 DEF OnRead, Completed, GotText, Start, Release, Complete, ConnInv,
                 LoopInv, Faithful, Drained, Reading, Answering, HoldsWhole
  <2> QED BY <2>1, <2>2
<1>14. ASSUME NEW c \in Conns, OnWrite(c)
       PROVE  ConnInv(d)'
  <2>1. CASE d # c
    BY <1>14, <2>1, Unaffected DEF OnWrite, DoRead, Start, Release, Complete
  <2>2. CASE d = c
    BY <1>14, <2>2 DEF OnWrite, Completed, DoRead, Start, Release, Complete, ConnInv,
                 LoopInv, Faithful, Drained, Reading, Answering
  <2> QED BY <2>1, <2>2
<1>15. CASE UNCHANGED vars
  BY <1>15, Unaffected DEF vars
<1> QED
  BY <1>1, <1>2, <1>3, <1>4, <1>5, <1>6, <1>7, <1>8, <1>9, <1>10, <1>11,
     <1>12, <1>13, <1>14, <1>15 DEF Next, Peer, Io, Handler

LEMMA SessionInvariant == Safety => [](TypeOK /\ EchoInv)
<1>1. Init => TypeOK /\ EchoInv
  BY DEF Init, TypeOK, Links, EchoInv, ConnInv, LoopInv, Faithful, Drained, Reading, Answering
<1>2. TypeOK /\ EchoInv /\ [Next]_vars => (TypeOK /\ EchoInv)'
  BY TypeStep, EchoStep
<1> QED BY <1>1, <1>2, PTL DEF Safety

(* Every variable keeps its type (server/session.h:10-11).                 *)
THEOREM SessionTypeOK == Safety => []TypeOK
BY SessionInvariant, PTL

(* In every reachable state the buffer is what the phase of the loop says, *)
(* for any number of connections and messages (server/session.cpp:27-64).  *)
THEOREM SessionEchoInv == Safety => []EchoInv
BY SessionInvariant, PTL

(* The replies are the peer's messages, in order and unaltered             *)
(* (server/session.cpp:46-60).                                             *)
THEOREM SessionEchoFaithful == Safety => []EchoFaithful
<1>1. EchoInv => EchoFaithful
  BY DEF EchoInv, ConnInv, EchoFaithful
<1> QED BY <1>1, SessionInvariant, PTL

(* A close handshake only ends a session that has answered everything      *)
(* (server/session.cpp:38-39).                                             *)
THEOREM SessionClosedMeansAnswered == Safety => []ClosedMeansAnswered
<1>1. EchoInv => ClosedMeansAnswered
  BY DEF EchoInv, ConnInv, ClosedMeansAnswered
<1> QED BY <1>1, SessionInvariant, PTL

-----------------------------------------------------------------------------
(* The sessions implement the abstract service (safety): every step of     *)
(* theirs asks, answers or ends, or is invisible to the service.           *)

THEOREM SessionImplementsEcho == Safety => Echo!Safety
<1>1. Init => Echo!Init
  BY DEF Init, Echo!Init
<1>2. TypeOK /\ EchoInv /\ [Next]_vars => [Echo!Next]_Echo!vars
  <2> SUFFICES ASSUME TypeOK, EchoInv, [Next]_vars
               PROVE  [Echo!Next]_Echo!vars
    OBVIOUS
  <2> USE DEF TypeOK, objectVars, peerVars, Echo!vars
  <2>1. ASSUME NEW c \in Conns, Connect(c) \/ PeerTake(c) \/ AcceptHandshake(c)
                 \/ ReadPart(c) \/ AnswerClose(c) \/ TornDown(c) \/ OpFails(c) \/ Timeout(c)
        PROVE  UNCHANGED Echo!vars
    BY <2>1 DEF Connect, PeerTake, AcceptHandshake, ReadPart, AnswerClose, TornDown, OpFails,
                Timeout
  <2>2. ASSUME NEW c \in Conns, NEW how \in Departures, PeerLeave(c, how)
        PROVE  UNCHANGED Echo!vars
    BY <2>2 DEF PeerLeave
  <2>3. ASSUME NEW c \in Conns, Run(c)
        PROVE  UNCHANGED Echo!vars
    BY <2>3 DEF Run
  <2>4. ASSUME NEW c \in Conns, NEW m \in Messages, PeerSend(c, m)
        PROVE  Echo!Ask(c, m)
    BY <2>4 DEF PeerSend, Echo!Ask, EchoInv, ConnInv, LoopInv
  <2>5. ASSUME NEW c \in Conns, WriteOut(c)
        PROVE  Echo!Answer(c)
    <3> DEFINE n == Len(outbound[c]) + 1
               m == [text |-> textOut[c], data |-> buffer[c]]
    <3>1. n = rcvd[c] /\ n <= Len(sent[c]) /\ m = sent[c][n]
      BY <2>5, WriteIsNextReply
    <3>2. life[c] = "live"
      BY <2>5 DEF WriteOut, Pending, EchoInv, ConnInv, LoopInv
    <3>3. outbound' = [outbound EXCEPT ![c] = Append(outbound[c], m)]
      BY <2>5 DEF WriteOut
    <3>4. outbound' = [outbound EXCEPT ![c] = Append(outbound[c], sent[c][n])]
      BY <3>1, <3>3, Zenon
    <3>5. life' = life /\ sent' = sent
      BY <2>5 DEF WriteOut
    <3>6. Len(outbound[c]) < Len(sent[c])
      BY <3>1
    <3> QED BY <3>2, <3>4, <3>5, <3>6 DEF Echo!Answer, Echo!Unanswered
  <2>6. ASSUME NEW c \in Conns, Handler(c)
        PROVE  Echo!End(c) \/ UNCHANGED Echo!vars
    <3>1. op[c] # "none" /\ life[c] = "live"
      BY <2>6 DEF Handler, OnAccept, OnRead, OnWrite, Completed, EchoInv, ConnInv, LoopInv
    <3>2. CASE Release(c) /\ UNCHANGED <<peerVars, rcvd, part, outbound>>
      BY <3>1, <3>2 DEF Release, Echo!End
    <3>3. CASE life' = life /\ UNCHANGED <<peerVars, rcvd, part, outbound>>
      BY <3>3
    <3> QED BY <2>6, <3>2, <3>3 DEF Handler, OnAccept, OnRead, OnWrite, DoRead
  <2>7. CASE UNCHANGED vars
    BY <2>7 DEF vars
  <2>8. ASSUME NEW c \in Conns, Connect(c) \/ Run(c) \/ Peer(c) \/ Io(c) \/ Handler(c)
        PROVE  [Echo!Next]_Echo!vars
    BY <2>1, <2>2, <2>3, <2>4, <2>5, <2>6, <2>8 DEF Peer, Io, Echo!Next
  <2> QED BY <2>7, <2>8 DEF Next
<1> QED BY <1>1, <1>2, SessionInvariant, PTL DEF Safety, Echo!Safety
=============================================================================
