---------------------------- MODULE ServerProofs ----------------------------
(***************************************************************************)
(* Proofs about Server, for any number of connections, threads and         *)
(* sockets.                                                                *)
(***************************************************************************)
EXTENDS Server, TLAPS, FiniteSetTheorems

SessionThm == INSTANCE ServerSessionProofs

(* No step of the server leaves the type of its own variables.             *)
LEMMA PoolTypeStep ==
  ASSUME PoolTypeOK, [Next]_vars
  PROVE  PoolTypeOK'
<1> USE ServerAssumption DEF PoolTypeOK, startVars, acceptVars
<1>1. CASE Construct
  BY <1>1 DEF Construct
<1>2. CASE Parse
  BY <1>2 DEF Parse
<1>3. CASE StartAccept
  BY <1>3 DEF StartAccept, DoAccept
<1>4. ASSUME NEW t \in Threads, Spawn(t)
      PROVE  PoolTypeOK'
  BY <1>4 DEF Spawn
<1>5. CASE Accept
  BY <1>5 DEF Accept
<1>6. CASE AcceptFails
  BY <1>6 DEF AcceptFails
<1>7. ASSUME NEW t \in Threads, OnAccept(t)
      PROVE  PoolTypeOK'
  <2>1. ready' \in Seq(Conns \cup {NoConn})
    <3>1. ready # <<>> /\ (ready' = ready \/ ready' = Tail(ready))
      BY <1>7, Zenon DEF OnAccept
    <3>2. Tail(ready) \in Seq(Conns \cup {NoConn})
      BY <3>1
    <3> QED BY <3>1, <3>2
  <2>2. thread' \in [Threads -> {"unborn", "polling", "rearm"}]
    BY <1>7 DEF OnAccept
  <2>3. terminated' \in BOOLEAN
    BY <1>7, Zenon DEF OnAccept
  <2>4. UNCHANGED <<startVars, backlog, armed>>
    BY <1>7 DEF OnAccept
  <2> QED BY <2>1, <2>2, <2>3, <2>4
<1>8. ASSUME NEW t \in Threads, Rearm(t)
      PROVE  PoolTypeOK'
  BY <1>8 DEF Rearm, DoAccept
<1>9. ASSUME NEW t \in Threads, NEW c \in Conns, SessionHandler(t, c)
      PROVE  PoolTypeOK'
  BY <1>9 DEF SessionHandler, SessionsOnly
<1>10. ASSUME NEW c \in Conns, Environment(c)
       PROVE  PoolTypeOK'
  <2>1. CASE Connect(c)
    BY <2>1 DEF Connect
  <2>2. CASE Network(c)
    BY <2>2 DEF Network, SessionsOnly
  <2> QED
    BY <1>10, <2>1, <2>2 DEF Environment
<1>11. CASE UNCHANGED vars
  BY <1>11 DEF vars
<1> QED
  BY <1>1, <1>2, <1>3, <1>4, <1>5, <1>6, <1>7, <1>8, <1>9, <1>10, <1>11
     DEF Next, MainThread, Pool

(* Each step of the server is a step of one session or of none.            *)
LEMMA SessionStep ==
  ASSUME PoolTypeOK, [Next]_vars
  PROVE  [Session!Next]_Session!vars
<1> USE DEF Session!vars, Session!objectVars, Session!peerVars, sessionVars, Session!Next
<1>1. CASE MainThread \/ Accept \/ AcceptFails
  BY <1>1 DEF MainThread, Construct, Parse, StartAccept, Spawn, Accept, AcceptFails
<1>2. ASSUME NEW t \in Threads, OnAccept(t)
      PROVE  [Session!Next]_Session!vars
  <2>1. CASE UNCHANGED sessionVars
    BY <2>1
  <2>2. CASE Head(ready) # NoConn /\ Session!Run(Head(ready))
    <3>1. Head(ready) \in Conns
      BY <1>2, <2>2 DEF PoolTypeOK, OnAccept
    <3> QED BY <2>2, <3>1
  <2> QED BY <1>2, <2>1, <2>2 DEF OnAccept
<1>3. ASSUME NEW t \in Threads, Rearm(t)
      PROVE  [Session!Next]_Session!vars
  BY <1>3 DEF Rearm
<1>4. ASSUME NEW t \in Threads, NEW c \in Conns, SessionHandler(t, c)
      PROVE  [Session!Next]_Session!vars
  BY <1>4 DEF SessionHandler, SessionsOnly
<1>5. ASSUME NEW c \in Conns, Environment(c)
      PROVE  [Session!Next]_Session!vars
  BY <1>5 DEF Environment, Connect, Network, SessionsOnly
<1>6. CASE UNCHANGED vars
  BY <1>6 DEF vars
<1> QED
  BY <1>1, <1>2, <1>3, <1>4, <1>5, <1>6 DEF Next, Pool

-----------------------------------------------------------------------------
(* The accept loop.                                                        *)

(* Each step moves the one accept on, or leaves it where it is.            *)
LEMMA OneAcceptStep ==
  ASSUME PoolTypeOK, OneAccept, [Next]_vars
  PROVE  OneAccept'
<1> USE ServerAssumption DEF PoolTypeOK, OneAccept, Started, startVars, acceptVars
<1>1. CASE Construct
  BY <1>1 DEF Construct
<1>2. CASE Parse
  BY <1>2 DEF Parse
<1>3. CASE StartAccept
  BY <1>3 DEF StartAccept, DoAccept
<1>4. ASSUME NEW t \in Threads, Spawn(t)
      PROVE  OneAccept'
  <2>1. /\ Started /\ Started'
        /\ armed' = armed /\ ready' = ready
        /\ \A u \in Threads : thread'[u] = "rearm" <=> thread[u] = "rearm"
    BY <1>4 DEF Spawn
  <2> QED BY <2>1
<1>5. CASE Accept
  <2>1. /\ armed + Len(ready) = 1 /\ \A t \in Threads : thread[t] # "rearm"
        /\ Started
    BY <1>5 DEF Accept
  <2>2. Head(backlog) \in Conns
    BY <1>5 DEF Accept
  <2>3. Len(ready') = Len(ready) + 1
    BY <1>5, <2>2 DEF Accept
  <2> QED BY <1>5, <2>1, <2>3 DEF Accept
<1>6. CASE AcceptFails
  <2>1. /\ armed + Len(ready) = 1 /\ \A t \in Threads : thread[t] # "rearm"
        /\ Started
    BY <1>6 DEF AcceptFails
  <2>2. Len(ready') = Len(ready) + 1
    BY <1>6 DEF AcceptFails
  <2> QED BY <1>6, <2>1, <2>2 DEF AcceptFails
<1>7. ASSUME NEW t \in Threads, OnAccept(t)
      PROVE  OneAccept'
  <2>1. /\ armed + Len(ready) = 1 /\ \A u \in Threads : thread[u] # "rearm"
        /\ Started /\ Started' /\ armed' = armed
    BY <1>7 DEF OnAccept
  <2>2. CASE UNCHANGED <<ready, thread>>
    BY <2>1, <2>2
  <2>3. CASE ready' = Tail(ready) /\ thread' = [thread EXCEPT ![t] = "rearm"]
    <3>1. ready # <<>>
      BY <1>7 DEF OnAccept
    <3>2. Len(Tail(ready)) = Len(ready) - 1
      BY <3>1
    <3> QED BY <2>1, <2>3, <3>1, <3>2
  <2> QED BY <1>7, <2>2, <2>3 DEF OnAccept
<1>8. ASSUME NEW t \in Threads, Rearm(t)
      PROVE  OneAccept'
  <2>1. /\ Started /\ Started' /\ armed + Len(ready) = 0
        /\ \A u \in Threads \ {t} : thread[u] # "rearm"
    BY <1>8 DEF Rearm
  <2>2. armed' = armed + 1 /\ ready' = ready /\ thread' = [thread EXCEPT ![t] = "polling"]
    BY <1>8 DEF Rearm, DoAccept
  <2> QED BY <2>1, <2>2
<1>9. ASSUME NEW t \in Threads, NEW c \in Conns, SessionHandler(t, c)
      PROVE  OneAccept'
  BY <1>9 DEF SessionHandler, SessionsOnly
<1>10. ASSUME NEW c \in Conns, Environment(c)
       PROVE  OneAccept'
  BY <1>10 DEF Environment, Connect, Network, SessionsOnly
<1>11. CASE UNCHANGED vars
  BY <1>11 DEF vars
<1> QED
  BY <1>1, <1>2, <1>3, <1>4, <1>5, <1>6, <1>7, <1>8, <1>9, <1>10, <1>11
     DEF Next, MainThread, Pool

LEMMA PoolInvariant == Safety => [](PoolTypeOK /\ OneAccept)
<1>1. Init => PoolTypeOK /\ OneAccept
  <2> SUFFICES ASSUME Init
               PROVE  PoolTypeOK /\ OneAccept
    OBVIOUS
  <2>1. /\ main = "construct" /\ config = DefaultAddr /\ announced = NoAddr
        /\ acceptor = "closed" /\ endpoint = NoAddr
        /\ backlog = <<>> /\ armed = 0 /\ ready = <<>>
        /\ thread = [t \in Threads |-> "unborn"]
    BY DEF Init
  <2>2. terminated \in BOOLEAN
    BY Zenon DEF Init
  <2> QED BY <2>1, <2>2, ServerAssumption DEF PoolTypeOK, OneAccept, Started
<1>2. PoolTypeOK /\ OneAccept /\ [Next]_vars => (PoolTypeOK /\ OneAccept)'
  BY PoolTypeStep, OneAcceptStep
<1> QED BY <1>1, <1>2, PTL DEF Safety

(* The accept loop is never broken and never doubled, for any number of    *)
(* threads (server/server.cpp:65-96).                                      *)
THEOREM ServerOneAccept == Safety => []OneAccept
BY PoolInvariant, PTL

(* io_context::run does not return in any thread (server/server.cpp:54-62).*)
THEOREM ServerNeverOutOfWork == Safety => []NeverOutOfWork
<1>1. PoolTypeOK /\ OneAccept => NeverOutOfWork
  BY DEF PoolTypeOK, OneAccept, Started, NeverOutOfWork, HasWork
<1> QED BY <1>1, PoolInvariant, PTL

-----------------------------------------------------------------------------
(* The sessions.                                                           *)

(* Among the threads of the pool each session behaves as it does alone:    *)
(* the server implements ServerSession (server/server.cpp:74-76, 91).      *)
THEOREM ServerImplementsSessions == Safety => ImplementsSessions
<1>1. Init => Session!Init
  BY DEF Init
<1>2. PoolTypeOK /\ [Next]_vars => [Session!Next]_Session!vars
  BY SessionStep
<1> QED BY <1>1, <1>2, PoolInvariant, PTL DEF Safety, ImplementsSessions, Session!Safety

(* The theorems about sessions are those of ServerSessionProofs, which     *)
(* names the definitions of ServerSession anew: the two sets of names mean *)
(* the same.                                                               *)
LEMMA SameNext == [SessionThm!Next]_SessionThm!vars <=> [Session!Next]_Session!vars
BY DEF SessionThm!Next, Session!Next, SessionThm!vars,
           Session!vars, SessionThm!objectVars,
           Session!objectVars, SessionThm!peerVars,
           Session!peerVars, SessionThm!Connect, Session!Connect,
           SessionThm!Run, Session!Run, SessionThm!Peer,
           Session!Peer, SessionThm!PeerSend, Session!PeerSend,
           SessionThm!PeerTake, Session!PeerTake,
           SessionThm!PeerLeave, Session!PeerLeave,
           SessionThm!Departures, Session!Departures,
           SessionThm!Io, Session!Io, SessionThm!AcceptHandshake,
           Session!AcceptHandshake, SessionThm!ReadPart,
           Session!ReadPart, SessionThm!AnswerClose,
           Session!AnswerClose, SessionThm!TornDown,
           Session!TornDown, SessionThm!WriteOut,
           Session!WriteOut, SessionThm!OpFails, Session!OpFails,
           SessionThm!Timeout, Session!Timeout,
           SessionThm!Overdue, Session!Overdue,
           SessionThm!AllRead, Session!AllRead,
           SessionThm!Pending, Session!Pending,
           SessionThm!Complete, Session!Complete,
           SessionThm!Handler, Session!Handler,
           SessionThm!OnAccept, Session!OnAccept,
           SessionThm!OnRead, Session!OnRead, SessionThm!OnWrite,
           Session!OnWrite, SessionThm!Completed,
           Session!Completed, SessionThm!Start, Session!Start,
           SessionThm!Release, Session!Release, SessionThm!DoRead,
           Session!DoRead, SessionThm!GotText, Session!GotText

LEMMA SameSafety == SessionThm!Safety <=> Session!Safety
<1>1. SessionThm!Init <=> Session!Init
  BY DEF SessionThm!Init, Session!Init
<1> QED BY <1>1, SameNext, PTL DEF SessionThm!Safety, Session!Safety

LEMMA SessionAssumptionHolds == SessionThm!SessionAssumption
BY ConnsAssumption DEF SessionThm!SessionAssumption, SessionThm!Message

(* Every variable of the server, and of its sessions, keeps its type.      *)
THEOREM ServerTypeOK == Safety => []TypeOK
<1>1. SessionThm!TypeOK <=> Session!TypeOK
  BY DEF SessionThm!TypeOK, Session!TypeOK, SessionThm!Links, Session!Links,
         SessionThm!Message, Session!Message
<1>2. SessionThm!Safety => []SessionThm!TypeOK
  BY SessionAssumptionHolds, SessionThm!SessionTypeOK, PTL
<1> QED BY <1>1, <1>2, SameSafety, ServerImplementsSessions, PoolInvariant, PTL
      DEF ImplementsSessions, TypeOK

(* The replies on every connection of the server are the peer's messages,  *)
(* in order and unaltered, whichever threads run the handlers              *)
(* (server/server.cpp:54-62, server/session.cpp:46-60).                    *)
THEOREM ServerEchoFaithful == Safety => []Session!EchoFaithful
<1>1. SessionThm!EchoFaithful <=> Session!EchoFaithful
  BY DEF SessionThm!EchoFaithful, Session!EchoFaithful, SessionThm!Faithful, Session!Faithful
<1>2. SessionThm!Safety => []SessionThm!EchoFaithful
  BY SessionAssumptionHolds, SessionThm!SessionEchoFaithful, PTL
<1> QED BY <1>1, <1>2, SameSafety, ServerImplementsSessions, PTL DEF ImplementsSessions

(* A session that the peer's close frame ends has answered everything, in  *)
(* the pool as well (server/session.cpp:38-39).                            *)
THEOREM ServerClosedMeansAnswered == Safety => []Session!ClosedMeansAnswered
<1>1. SessionThm!ClosedMeansAnswered <=> Session!ClosedMeansAnswered
  BY DEF SessionThm!ClosedMeansAnswered, Session!ClosedMeansAnswered, SessionThm!Drained,
         Session!Drained
<1>2. SessionThm!Safety => []SessionThm!ClosedMeansAnswered
  BY SessionAssumptionHolds, SessionThm!SessionClosedMeansAnswered, PTL
<1> QED BY <1>1, <1>2, SameSafety, ServerImplementsSessions, PTL DEF ImplementsSessions

(* The server, threads and all, implements the abstract service (safety):  *)
(* a peer sees no more of the pool than that its messages come back.       *)
THEOREM ServerImplementsEcho == Safety => Session!Echo!Safety
<1> USE DEF SessionThm!Echo!Next, Session!Echo!Next, SessionThm!Echo!Ask, Session!Echo!Ask,
        SessionThm!Echo!Answer, Session!Echo!Answer, SessionThm!Echo!End, Session!Echo!End,
        SessionThm!Echo!Unanswered, Session!Echo!Unanswered, SessionThm!Echo!vars,
        Session!Echo!vars
<1>1. SessionThm!Echo!Init <=> Session!Echo!Init
  BY DEF SessionThm!Echo!Init, Session!Echo!Init
<1>2. [SessionThm!Echo!Next]_SessionThm!Echo!vars <=> [Session!Echo!Next]_Session!Echo!vars
  OBVIOUS
<1>3. SessionThm!Safety => SessionThm!Echo!Safety
  BY SessionAssumptionHolds, SessionThm!SessionImplementsEcho
<1> QED BY <1>1, <1>2, <1>3, SameSafety, ServerImplementsSessions, PTL
      DEF ImplementsSessions, SessionThm!Echo!Safety, Session!Echo!Safety

-----------------------------------------------------------------------------
(* Start-up.                                                               *)

(* What Server takes start-up for is what Startup is shown to implement:   *)
(* its configuration is set once, before the pool is there                 *)
(* (server/main.cpp, server/server_cli.cpp:18-60).                         *)
THEOREM ServerImplementsSetup == Safety => ImplementsSetup
<1>1. Init => Plan!Init
  BY DEF Init, Plan!Init, StartState
<1>2. PoolTypeOK /\ [Next]_vars => [Plan!Next]_Plan!vars
  <2> SUFFICES ASSUME PoolTypeOK, [Next]_vars PROVE [Plan!Next]_Plan!vars
    OBVIOUS
  <2> USE DEF Plan!Next, Plan!vars, StartState, startVars
  <2>1. CASE Construct
    BY <2>1 DEF Construct
  <2>2. CASE Parse
    BY <2>2 DEF Parse, Plan!Settle, Plan!End
  <2>3. CASE StartAccept
    BY <2>3 DEF StartAccept
  <2>4. ASSUME NEW t \in Threads, Spawn(t) PROVE UNCHANGED Plan!vars
    BY <2>4 DEF Spawn
  <2>5. CASE Accept \/ AcceptFails
    BY <2>5 DEF Accept, AcceptFails
  <2>6. ASSUME NEW t \in Threads, Pool(t) PROVE UNCHANGED Plan!vars
    BY <2>6 DEF Pool, OnAccept, Rearm, SessionHandler, SessionsOnly
  <2>7. ASSUME NEW c \in Conns, Environment(c) PROVE UNCHANGED Plan!vars
    BY <2>7 DEF Environment, Connect, Network, SessionsOnly
  <2>8. CASE UNCHANGED vars
    BY <2>8 DEF vars
  <2> QED
    BY <2>1, <2>2, <2>3, <2>4, <2>5, <2>6, <2>7, <2>8 DEF Next, MainThread
<1> QED BY <1>1, <1>2, PoolInvariant, PTL DEF Safety, ImplementsSetup, Plan!Safety

-----------------------------------------------------------------------------
(* Custody.                                                                *)

(* A connection that nobody has made a session of yet.                     *)
Unclaimed(c) == link[c] # "absent" /\ life[c] = "none"

InReady(c) == \E i \in 1..Len(ready) : ready[i] = c

InBacklog(c) == \E j \in 1..Len(backlog) : backlog[j] = c

(* What ties a session to its socket.                                      *)
Tied(c) ==
  /\ op[c] # "none" => life[c] = "live"
  /\ life[c] # "none" => link[c] # "absent"

(* Custody without counting: where a connection waits, and that it waits   *)
(* once.                                                                   *)
Kept(c) ==
  /\ Unclaimed(c) <=> InReady(c) \/ InBacklog(c)
  /\ ~(InReady(c) /\ InBacklog(c))

NoRepeat == \A i, j \in 1..Len(backlog) : backlog[i] = backlog[j] => i = j

CustodyInv == NoRepeat /\ \A c \in Conns : Tied(c) /\ Kept(c)

(* A step that leaves the places alone, and who is without a session.      *)
LEMMA CustodyUnaffected ==
  ASSUME CustodyInv, UNCHANGED <<ready, backlog>>, \A c \in Conns : Tied(c)',
         \A c \in Conns : Unclaimed(c)' <=> Unclaimed(c)
  PROVE  CustodyInv'
BY DEF CustodyInv, NoRepeat, Kept, InReady, InBacklog

(* Between being accepted and having its session a connection is alone in  *)
(* ready, for there is one accept.                                         *)
LEMMA CustodyStep ==
  ASSUME Session!TypeOK, PoolTypeOK, OneAccept, CustodyInv, [Next]_vars
  PROVE  CustodyInv'
<1>1. /\ ready \in Seq(Conns \cup {NoConn}) /\ backlog \in Seq(Conns)
      /\ armed \in Nat /\ Len(ready) \in Nat /\ armed + Len(ready) <= 1
  BY DEF PoolTypeOK, OneAccept
<1>2. /\ life \in [Conns -> {"none", "live", "gone"}]
      /\ op \in [Conns -> {"none", "accept", "read", "write", "teardown"}]
      /\ link \in [Conns -> Session!Links]
  BY DEF Session!TypeOK
<1>3. /\ NoRepeat
      /\ \A c \in Conns : Tied(c) /\ Kept(c)
  BY DEF CustodyInv
<1>4. NoConn \notin Conns
  BY ServerAssumption
<1>5. ASSUME UNCHANGED sessionVars, UNCHANGED <<ready, backlog>>
      PROVE  CustodyInv'
  BY <1>5, CustodyUnaffected, <1>3 DEF sessionVars, Unclaimed, Tied
<1>6. CASE MainThread
  BY <1>5, <1>6 DEF MainThread, Construct, Parse, StartAccept, Spawn, acceptVars
<1>7. CASE Accept
  <2>1. Len(ready) = 0 /\ backlog # <<>> /\ UNCHANGED <<life, op, link>>
    BY <1>1, <1>7 DEF Accept, sessionVars
  <2>2. Len(ready') = 1 /\ ready'[1] = backlog[1]
    BY <1>1, <1>7, <2>1 DEF Accept
  <2>3. /\ Len(backlog) \in Nat /\ Len(backlog) >= 1
        /\ Len(backlog') = Len(backlog) - 1
        /\ \A j \in 1..Len(backlog') : backlog'[j] = backlog[j + 1]
    BY <1>1, <1>7, <2>1 DEF Accept
  <2>5. NoRepeat'
    BY <1>3, <2>3 DEF NoRepeat
  <2>6. ASSUME NEW c \in Conns PROVE Kept(c)'
    <3>1. InReady(c)' <=> backlog[1] = c
      BY <2>2 DEF InReady
    <3>2. InBacklog(c) <=> backlog[1] = c \/ InBacklog(c)'
      <4>1. ASSUME NEW j \in 1..Len(backlog), backlog[j] = c, j # 1 PROVE InBacklog(c)'
        <5>1. j - 1 \in 1..Len(backlog') /\ (j - 1) + 1 = j
          BY <2>3, <4>1
        <5> QED BY <2>3, <4>1, <5>1 DEF InBacklog
      <4>2. ASSUME NEW j \in 1..Len(backlog'), backlog'[j] = c PROVE InBacklog(c)
        <5>1. j + 1 \in 1..Len(backlog)
          BY <2>3, <4>2
        <5> QED BY <2>3, <4>2, <5>1 DEF InBacklog
      <4>3. 1 \in 1..Len(backlog)
        BY <2>3
      <4> QED BY <4>1, <4>2, <4>3 DEF InBacklog
    <3>3. ~(backlog[1] = c /\ InBacklog(c)')
      BY <1>3, <2>3 DEF InBacklog, NoRepeat
    <3>4. ~InReady(c)
      BY <2>1 DEF InReady
    <3> QED BY <1>3, <2>1, <3>1, <3>2, <3>3, <3>4 DEF Kept, Unclaimed
  <2> QED BY <1>3, <2>1, <2>5, <2>6 DEF CustodyInv, Tied
<1>8. CASE AcceptFails
  <2>1. Len(ready) = 0 /\ UNCHANGED <<life, op, link, backlog>>
    BY <1>1, <1>8 DEF AcceptFails, sessionVars
  <2>2. Len(ready') = 1 /\ ready'[1] = NoConn
    BY <1>1, <1>8, <2>1 DEF AcceptFails
  <2>3. \A c \in Conns : ~InReady(c) /\ ~InReady(c)'
    BY <1>4, <2>1, <2>2 DEF InReady
  <2> QED BY <1>3, <2>1, <2>3 DEF CustodyInv, NoRepeat, Tied, Kept, InBacklog, Unclaimed
<1>9. ASSUME NEW t \in Threads, OnAccept(t)
      PROVE  CustodyInv'
  <2>1. Len(ready) = 1 /\ Head(ready) = ready[1] /\ backlog' = backlog
    <3>1. ready # <<>> /\ backlog' = backlog
      BY <1>9 DEF OnAccept
    <3>2. Len(ready) # 0 /\ Head(ready) = ready[1]
      BY <1>1, <3>1
    <3>3. \A n \in Nat : n <= 1 /\ n # 0 => n = 1
      OBVIOUS
    <3>4. Len(ready) <= 1
      BY <1>1
    <3> QED BY <1>1, <3>1, <3>2, <3>3, <3>4, Zenon
  <2>2. CASE UNCHANGED <<sessionVars, ready>>
    BY <1>5, <2>1, <2>2
  <2>3. ASSUME ready' = Tail(ready) PROVE \A c : ~InReady(c)'
    BY <1>1, <2>1, <2>3 DEF InReady
  <2>4. CASE Head(ready) = NoConn /\ UNCHANGED sessionVars /\ ready' = Tail(ready)
    <3>1. \A c \in Conns : ~InReady(c)
      BY <1>4, <2>1, <2>4 DEF InReady
    <3> QED
      BY <1>3, <2>1, <2>3, <2>4, <3>1
         DEF CustodyInv, NoRepeat, Tied, Kept, InBacklog, Unclaimed, sessionVars
  <2>5. CASE Head(ready) # NoConn /\ Session!Run(Head(ready)) /\ ready' = Tail(ready)
    <3> DEFINE d == ready[1]
    <3>1. d \in Conns
      <4>1. ready[1] \in Conns \cup {NoConn}
        BY <1>1, <2>1
      <4> QED BY <2>1, <2>5, <4>1
    <3>2. /\ life' = [life EXCEPT ![d] = "live"] /\ op' = [op EXCEPT ![d] = "accept"]
          /\ life[d] = "none" /\ link[d] # "absent" /\ link' = link
      BY <2>1, <2>5 DEF Session!Run, Session!Start
    <3> HIDE DEF d
    <3>3. \A c \in Conns : InReady(c) <=> c = d
      BY <2>1 DEF InReady, d
    <3>4. ASSUME NEW c \in Conns PROVE Tied(c)' /\ (Unclaimed(c)' <=> Unclaimed(c) /\ c # d)
      BY <1>2, <1>3, <3>1, <3>2 DEF Tied, Unclaimed
    <3>5. ASSUME NEW c \in Conns PROVE Kept(c)'
      BY <1>3, <2>1, <2>3, <2>5, <3>3, <3>4 DEF Kept, InBacklog
    <3> QED BY <1>3, <2>1, <3>4, <3>5 DEF CustodyInv, NoRepeat
  <2> QED BY <1>9, <2>2, <2>4, <2>5 DEF OnAccept
<1>10. ASSUME NEW t \in Threads, Rearm(t)
      PROVE  CustodyInv'
  BY <1>5, <1>10 DEF Rearm
<1>11. ASSUME NEW t \in Threads, NEW d \in Conns, SessionHandler(t, d)
      PROVE  CustodyInv'
  <2>1. op[d] # "none" /\ UNCHANGED <<ready, backlog>>
    BY <1>11 DEF SessionHandler, SessionsOnly, acceptVars, Session!Handler, Session!OnAccept,
       Session!OnRead, Session!OnWrite, Session!Completed
  <2>2. \/ UNCHANGED <<life, link>> /\ \E o \in {"read", "write"} : op' = [op EXCEPT ![d] = o]
        \/ /\ life' = [life EXCEPT ![d] = "gone"] /\ link' = [link EXCEPT ![d] = "shut"]
           /\ op' = [op EXCEPT ![d] = "none"]
    BY <1>11 DEF SessionHandler, Session!Handler, Session!OnAccept, Session!OnRead,
       Session!OnWrite, Session!DoRead, Session!Start, Session!Release
  <2>3. life[d] = "live" /\ link[d] # "absent"
    BY <1>3, <2>1 DEF Tied
  <2>4. \A c \in Conns : Tied(c)' /\ (Unclaimed(c)' <=> Unclaimed(c))
    BY <1>2, <1>3, <2>2, <2>3 DEF Tied, Unclaimed
  <2> QED BY <2>1, <2>4, CustodyUnaffected
<1>12. ASSUME NEW d \in Conns, Connect(d)
      PROVE  CustodyInv'
  <2>1. /\ link[d] = "absent" /\ link' = [link EXCEPT ![d] = "tcp"]
        /\ UNCHANGED <<life, op, ready>>
    BY <1>12 DEF Connect, Session!Connect, Session!objectVars
  <2>2. /\ Len(backlog) \in Nat
        /\ Len(backlog') = Len(backlog) + 1 /\ backlog'[Len(backlog) + 1] = d
        /\ \A j \in 1..Len(backlog) : backlog'[j] = backlog[j]
    BY <1>1, <1>12 DEF Connect
  <2>3. ~InReady(d) /\ ~InBacklog(d) /\ life[d] = "none"
    BY <1>3, <2>1 DEF Kept, Unclaimed, Tied
  <2>4. \A c \in Conns : Tied(c)' /\ (Unclaimed(c)' <=> Unclaimed(c) \/ c = d)
    BY <1>2, <1>3, <2>1, <2>3 DEF Tied, Unclaimed
  <2>5. \A c \in Conns : InBacklog(c)' <=> InBacklog(c) \/ c = d
    BY <2>2 DEF InBacklog
  <2>6. \A c \in Conns : InReady(c)' <=> InReady(c)
    BY <2>1 DEF InReady
  <2>7. \A c \in Conns : Kept(c)'
    BY <1>3, <2>3, <2>4, <2>5, <2>6 DEF Kept
  <2>8. NoRepeat'
    BY <1>3, <2>2, <2>3 DEF NoRepeat, InBacklog
  <2> QED BY <2>4, <2>7, <2>8 DEF CustodyInv
<1>13. ASSUME NEW d \in Conns, Network(d)
      PROVE  CustodyInv'
  <2>1. /\ UNCHANGED <<life, ready, backlog>>
        /\ UNCHANGED op \/ (op[d] # "none" /\ op' = [op EXCEPT ![d] = "teardown"])
    BY <1>13 DEF Network, SessionsOnly, acceptVars, Session!Peer, Session!PeerSend, Session!PeerTake,
       Session!PeerLeave, Session!Io, Session!AcceptHandshake, Session!ReadPart,
       Session!AnswerClose, Session!TornDown, Session!WriteOut, Session!OpFails, Session!Timeout,
       Session!Pending, Session!objectVars
  <2>2. link' = link \/ (link[d] # "absent" /\ \E l : l # "absent" /\ link' = [link EXCEPT ![d] = l])
    <3>1. CASE Session!Peer(d)
      BY <3>1 DEF Session!Peer, Session!PeerSend, Session!PeerTake, Session!PeerLeave
    <3>2. CASE Session!Io(d) /\ ~Session!Timeout(d)
      BY <3>2 DEF Session!Io, Session!AcceptHandshake, Session!ReadPart,
         Session!AnswerClose, Session!TornDown, Session!WriteOut, Session!OpFails
    <3>3. CASE Session!Timeout(d)
      <4>1. link[d] # "absent"
        BY <1>3, <3>3 DEF Session!Timeout, Tied
      <4> QED BY <3>3, <4>1 DEF Session!Timeout
    <3> QED BY <1>13, <3>1, <3>2, <3>3 DEF Network
  <2>3. \A c \in Conns : link'[c] = "absent" <=> link[c] = "absent"
    BY <1>2, <2>2
  <2>4. \A c \in Conns : Tied(c)' /\ (Unclaimed(c)' <=> Unclaimed(c))
    BY <1>2, <1>3, <2>1, <2>3 DEF Tied, Unclaimed
  <2> QED BY <2>1, <2>4, CustodyUnaffected
<1>14. CASE UNCHANGED vars
  BY <1>5, <1>14 DEF vars, acceptVars
<1> QED
  BY <1>6, <1>7, <1>8, <1>9, <1>10, <1>11, <1>12, <1>13, <1>14 DEF Next, MainThread, Pool, Environment

(* No connection is lost and none is served twice, for any number of       *)
(* connections, threads and sockets (server/server.cpp:65-96).             *)
THEOREM ServerCustody == Safety => []Custody
<1>1. Init => CustodyInv
  <2> SUFFICES ASSUME Init PROVE CustodyInv
    OBVIOUS
  <2>1. ready = <<>> /\ backlog = <<>>
    BY DEF Init
  <2>2. \A c \in Conns : op[c] = "none" /\ life[c] = "none" /\ link[c] = "absent"
    BY Zenon DEF Init, Session!Init
  <2>3. \A c \in Conns : ~InReady(c) /\ ~InBacklog(c)
    BY <2>1 DEF InReady, InBacklog
  <2>4. NoRepeat
    BY <2>1 DEF NoRepeat
  <2> QED BY <2>2, <2>3, <2>4 DEF CustodyInv, Unclaimed, Tied, Kept
<1>2. ASSUME PoolTypeOK, OneAccept, CustodyInv PROVE Custody
  <2> DEFINE waiting == ready \o backlog
             at(c) == {i \in 1..Len(waiting) : waiting[i] = c}
  <2> SUFFICES ASSUME NEW c \in Conns
               PROVE  Cardinality(at(c)) = IF Unclaimed(c) THEN 1 ELSE 0
    BY DEF Custody, Unclaimed
  <2>1. /\ Len(waiting) = Len(ready) + Len(backlog)
        /\ \A i \in 1..Len(ready) : waiting[i] = ready[i]
        /\ \A j \in 1..Len(backlog) : waiting[Len(ready) + j] = backlog[j]
    BY <1>2 DEF PoolTypeOK
  <2>2. /\ Len(ready) \in Nat /\ Len(backlog) \in Nat /\ Len(ready) <= 1
        /\ NoRepeat /\ Kept(c)
    BY <1>2 DEF OneAccept, PoolTypeOK, CustodyInv
  <2> HIDE DEF waiting
  <2>3. ASSUME NEW i \in 1..Len(waiting), waiting[i] = c
        PROVE  \/ i <= Len(ready) /\ ready[i] = c /\ i = 1
               \/ \E j \in 1..Len(backlog) : i = Len(ready) + j /\ backlog[j] = c
    <3>1. CASE i <= Len(ready)
      BY <2>1, <2>2, <2>3, <3>1
    <3>2. CASE i > Len(ready)
      <4>1. i - Len(ready) \in 1..Len(backlog) /\ i = Len(ready) + (i - Len(ready))
        BY <2>1, <2>2, <3>2
      <4> QED BY <2>1, <2>3, <4>1
    <3> QED BY <2>2, <3>1, <3>2
  <2>4. ASSUME ~Unclaimed(c) PROVE at(c) = {}
    BY <2>2, <2>3, <2>4 DEF Kept, InReady, InBacklog
  <2>5. ASSUME Unclaimed(c) PROVE \E k \in 1..Len(waiting) : at(c) = {k}
    <3>1. CASE InReady(c)
      <4>1. Len(ready) >= 1 /\ ready[1] = c
        <5>1. PICK i \in 1..Len(ready) : ready[i] = c
          BY <3>1 DEF InReady
        <5>2. i = 1 /\ Len(ready) >= 1
          BY <2>2, <5>1
        <5> QED BY <5>1, <5>2
      <4>2. 1 \in at(c)
        BY <2>1, <2>2, <4>1
      <4>3. \A i \in at(c) : i = 1
        BY <2>2, <2>3, <3>1 DEF Kept, InBacklog
      <4> QED BY <4>2, <4>3
    <3>2. CASE InBacklog(c)
      <4>1. PICK j \in 1..Len(backlog) : backlog[j] = c
        BY <3>2 DEF InBacklog
      <4>2. Len(ready) + j \in at(c)
        BY <2>1, <2>2, <4>1
      <4>3. ASSUME NEW i \in at(c) PROVE i = Len(ready) + j
        <5>1. ~InReady(c)
          BY <2>2, <3>2 DEF Kept
        <5>2. ~(i <= Len(ready) /\ ready[i] = c /\ i = 1)
          BY <2>2, <5>1 DEF InReady
        <5>3. PICK k \in 1..Len(backlog) : i = Len(ready) + k /\ backlog[k] = c
          BY <2>3, <5>2
        <5>4. k = j
          BY <2>2, <4>1, <5>3 DEF NoRepeat
        <5> QED BY <5>3, <5>4
      <4> QED BY <4>2, <4>3
    <3> QED BY <2>2, <2>5, <3>1, <3>2 DEF Kept
  <2> QED
    BY <2>4, <2>5, FS_EmptySet, FS_Singleton
<1> QED
  <2>1. Safety => []Session!TypeOK
    BY ServerTypeOK, PTL DEF TypeOK
  <2> QED
    BY <1>1, <1>2, <2>1, CustodyStep, PoolInvariant, PTL DEF Safety
=============================================================================
