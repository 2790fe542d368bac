---------------------------- MODULE ClientProofs ----------------------------
(***************************************************************************)
(* Proofs about Client, for any number of connect commands.                *)
(***************************************************************************)
EXTENDS Client, TLAPS

SessionThm == INSTANCE ClientSessionProofs

LEMMA CliTypeStep ==
  ASSUME CliTypeOK, [Next]_vars
  PROVE  CliTypeOK'
<1> USE ClientAssumption DEF CliTypeOK, cliVars
<1>1. CASE Command
  <2>1. input' \in Lines /\ stdin' \in {"open", "ended"} /\ stopped' = stopped
    BY <1>1 DEF Command, GetLine
  <2>2. cli' \in {"prompt", "running", "exited"} /\ made' \in 0..MaxSessions
    BY <1>1 DEF Command, Connect, Exit, Other
  <2> QED BY <2>1, <2>2
<1>2. CASE Return
  BY <1>2 DEF Return
<1>3. ASSUME NEW s \in Sessions, SessionHandler(s) \/ Network(s)
      PROVE  CliTypeOK'
  BY <1>3 DEF SessionHandler, Network
<1>4. CASE UNCHANGED vars
  BY <1>4 DEF vars
<1> QED BY <1>1, <1>2, <1>3, <1>4 DEF Next

LEMMA CliTypeInvariant == Safety => []CliTypeOK
<1>1. Init => CliTypeOK
  <2> SUFFICES ASSUME Init
               PROVE  CliTypeOK
    OBVIOUS
  <2>1. cli = "prompt" /\ input = "blank" /\ stdin = "open" /\ made = 0
    BY DEF Init
  <2>2. stopped \in BOOLEAN
    BY Zenon DEF Init
  <2> QED BY <2>1, <2>2, ClientAssumption DEF CliTypeOK, Lines
<1> QED BY <1>1, CliTypeStep, PTL DEF Safety

-----------------------------------------------------------------------------
(* The sessions.                                                           *)

(* Each step of the client is a step of one session or of none.            *)
LEMMA SessionStep ==
  ASSUME CliTypeOK, [Next]_vars
  PROVE  [Session!Next]_Session!vars
<1> USE DEF Session!vars, Session!objectVars, Session!serverVars, sessionVars, Session!Next
<1>1. CASE Command
  <2>1. CASE UNCHANGED sessionVars
    BY <2>1
  <2>2. CASE made < MaxSessions /\ made' = made + 1 /\ Session!Run(made')
    <3>1. made' \in Sessions
      BY <2>2, ClientAssumption DEF CliTypeOK, Sessions
    <3> QED BY <2>2, <3>1
  <2> QED BY <1>1, <2>1, <2>2 DEF Command, Connect, Exit, Other
<1>2. CASE Return
  BY <1>2 DEF Return
<1>3. ASSUME NEW s \in Sessions, SessionHandler(s) \/ Network(s)
      PROVE  [Session!Next]_Session!vars
  BY <1>3 DEF SessionHandler, Network
<1>4. CASE UNCHANGED vars
  BY <1>4 DEF vars
<1> QED BY <1>1, <1>2, <1>3, <1>4 DEF Next

(* The theorems about sessions are those of ClientSessionProofs, which     *)
(* names the definitions of ClientSession anew.                            *)
LEMMA SameNext == [SessionThm!Next]_SessionThm!vars <=> [Session!Next]_Session!vars
BY DEF SessionThm!Next, Session!Next, SessionThm!vars, Session!vars,
       SessionThm!objectVars, Session!objectVars,
       SessionThm!serverVars, Session!serverVars, SessionThm!Run,
       Session!Run, SessionThm!Server, Session!Server,
       SessionThm!ServerSends, Session!ServerSends,
       SessionThm!ServerLeaves, Session!ServerLeaves,
       SessionThm!Departures, Session!Departures, SessionThm!Io,
       Session!Io, SessionThm!Resolved, Session!Resolved,
       SessionThm!Connected, Session!Connected,
       SessionThm!ShakenHands, Session!ShakenHands,
       SessionThm!Written, Session!Written, SessionThm!ReadAnswer,
       Session!ReadAnswer, SessionThm!Closed, Session!Closed,
       SessionThm!OpFails, Session!OpFails, SessionThm!Broken,
       Session!Broken, SessionThm!Timeout, Session!Timeout,
       SessionThm!Covered, Session!Covered, SessionThm!Pending,
       Session!Pending, SessionThm!Complete, Session!Complete,
       SessionThm!Handler, Session!Handler, SessionThm!OnResolve,
       Session!OnResolve, SessionThm!OnConnect, Session!OnConnect,
       SessionThm!OnHandshake, Session!OnHandshake,
       SessionThm!OnWrite, Session!OnWrite, SessionThm!OnRead,
       Session!OnRead, SessionThm!OnClose, Session!OnClose,
       SessionThm!Fail, Session!Fail, SessionThm!Succeeded,
       Session!Succeeded, SessionThm!Start, Session!Start,
       SessionThm!Finish, Session!Finish, SessionThm!Operations,
       Session!Operations

LEMMA SameSafety == SessionThm!Safety <=> Session!Safety
<1>1. SessionThm!Init <=> Session!Init
  BY DEF SessionThm!Init, Session!Init
<1> QED BY <1>1, SameNext, PTL DEF SessionThm!Safety, Session!Safety

(* Driven by the command loop each session behaves as it does alone        *)
(* (client/client.cpp:24-30).                                              *)
THEOREM ClientImplementsSessions == Safety => Session!Safety
<1>1. Init => Session!Init
  BY DEF Init
<1>2. CliTypeOK /\ [Next]_vars => [Session!Next]_Session!vars
  BY SessionStep
<1> QED BY <1>1, <1>2, CliTypeInvariant, PTL DEF Safety, Session!Safety

LEMMA SessionAssumptionHolds == SessionThm!ClientSessionAssumption
BY ClientAssumption DEF SessionThm!ClientSessionAssumption

LEMMA SessionsBehave == Safety => []Session!TypeOK
<1>1. SessionThm!TypeOK <=> Session!TypeOK
  BY DEF SessionThm!TypeOK, Session!TypeOK, SessionThm!Operations, Session!Operations,
         SessionThm!Departures, Session!Departures
<1>2. SessionThm!Safety => []SessionThm!TypeOK
  BY SessionAssumptionHolds, SessionThm!ClientSessionTypeOK, PTL
<1> QED BY <1>1, <1>2, ClientImplementsSessions, SameSafety, PTL

(* What a connect command prints is the server's message, after a whole    *)
(* exchange, however the commands before it went (client/session.cpp:69-91,*)
(* client/client.cpp:24-30).                                               *)
THEOREM ClientPrintedIsAnswer == Safety => []Session!PrintedIsAnswer
<1>1. SessionThm!PrintedIsAnswer <=> Session!PrintedIsAnswer
  BY DEF SessionThm!PrintedIsAnswer, Session!PrintedIsAnswer
<1>2. SessionThm!Safety => []SessionThm!PrintedIsAnswer
  BY SessionAssumptionHolds, SessionThm!ClientSessionPrintedIsAnswer, PTL
<1> QED BY <1>1, <1>2, ClientImplementsSessions, SameSafety, PTL

(* Nor does the command loop put a deadline to an open connection, whether *)
(* its context is stopped or not (client/session.cpp:31-36).               *)
THEOREM ClientNoDeadline == Safety => Session!NoDeadlineOnceOpen
<1> DEFINE Patient == \A s \in Sessions :
             op[s] \in {"write", "read"} /\ ec[s] = "pending" => link'[s] # "shut"
<1>1. [Patient]_SessionThm!vars <=> [Patient]_Session!vars
  BY DEF SessionThm!vars, Session!vars, SessionThm!objectVars, Session!objectVars,
         SessionThm!serverVars, Session!serverVars
<1>2. SessionThm!NoDeadlineOnceOpen <=> Session!NoDeadlineOnceOpen
  BY <1>1, PTL DEF SessionThm!NoDeadlineOnceOpen, Session!NoDeadlineOnceOpen
<1>3. SessionThm!Safety => SessionThm!NoDeadlineOnceOpen
  BY SessionAssumptionHolds, SessionThm!ClientSessionNoDeadline
<1> QED BY <1>2, <1>3, ClientImplementsSessions, SameSafety, PTL

(* Every variable of the client, and of its sessions, keeps its type.      *)
THEOREM ClientTypeOK == Safety => []TypeOK
BY SessionsBehave, CliTypeInvariant, PTL DEF TypeOK

-----------------------------------------------------------------------------
(* The prompt.                                                             *)

(* While the main thread is out of io_context::run, and once the context   *)
(* is stopped, nothing gets a session beyond the resolver.                 *)
QuietInv ==
  \A s \in Sessions :
    /\ op[s] \in {"none", "resolve"} => link[s] = "absent"
    /\ op[s] = "over" => link[s] = "shut"
    /\ cli # "running" \/ stopped => op[s] \in {"none", "resolve", "over"}

LEMMA QuietStep ==
  ASSUME Session!TypeOK, CliTypeOK, QuietInv, [Next]_vars
  PROVE  QuietInv'
<1> USE ClientAssumption DEF Session!TypeOK, CliTypeOK, QuietInv, sessionVars, cliVars,
        Session!Operations, Session!Departures, Session!objectVars, Session!serverVars
<1>1. CASE Command
  <2>1. CASE Connect
    BY <1>1, <2>1 DEF Connect, Sessions, Session!Run, Session!Start, Session!Complete, Command
  <2>2. CASE Exit \/ Other
    BY <1>1, <2>2 DEF Exit, Other, Command
  <2> QED BY <1>1, <2>1, <2>2 DEF Command
<1>2. CASE Return
  BY <1>2 DEF Return, HasWork
<1>3. ASSUME NEW s \in Sessions, SessionHandler(s)
      PROVE  QuietInv'
  <2>1. cli = "running" /\ ~stopped /\ UNCHANGED cliVars /\ Session!Handler(s)
    BY <1>3 DEF SessionHandler
  <2>2. \A r \in Sessions : r # s => op'[r] = op[r] /\ link'[r] = link[r]
    BY <2>1 DEF Session!Handler, Session!OnResolve, Session!OnConnect, Session!OnHandshake,
       Session!OnWrite, Session!OnRead, Session!OnClose, Session!Fail, Session!Start,
       Session!Finish
  <2>3. \/ op'[s] \in {"connect", "handshake", "write", "read", "close"}
        \/ op'[s] = "over" /\ link'[s] = "shut"
    BY <2>1 DEF Session!Handler, Session!OnResolve, Session!OnConnect, Session!OnHandshake,
       Session!OnWrite, Session!OnRead, Session!OnClose, Session!Fail, Session!Start,
       Session!Finish
  <2> QED BY <2>1, <2>2, <2>3
<1>4. ASSUME NEW s \in Sessions, Network(s)
      PROVE  QuietInv'
  <2>1. UNCHANGED cliVars /\ (Session!Server(s) \/ Session!Io(s))
    BY <1>4 DEF Network
  <2>2. op' = op
    BY <2>1 DEF Session!Server, Session!ServerSends, Session!ServerLeaves, Session!Io,
       Session!Resolved, Session!Connected, Session!ShakenHands, Session!Written,
       Session!ReadAnswer, Session!Closed, Session!OpFails, Session!Timeout
  <2>3. \A r \in Sessions : op[r] \in {"none", "resolve", "over"} => link'[r] = link[r]
    BY <2>1 DEF Session!Server, Session!ServerSends, Session!ServerLeaves, Session!Io,
       Session!Resolved, Session!Connected, Session!ShakenHands, Session!Written,
       Session!ReadAnswer, Session!Closed, Session!OpFails, Session!Timeout,
       Session!Pending, Session!Covered
  <2> QED BY <2>1, <2>2, <2>3
<1>5. CASE UNCHANGED vars
  BY <1>5 DEF vars
<1> QED BY <1>1, <1>2, <1>3, <1>4, <1>5 DEF Next

(* The user is never prompted in the middle of an exchange, however many   *)
(* connect commands there were (client/client.cpp:24-30,                   *)
(* client/cli/client_cli.cpp:62-81).                                       *)
THEOREM ClientQuietAtPrompt == Safety => []QuietAtPrompt
<1>1. Init => QuietInv
  BY DEF Init, Session!Init, QuietInv
<1>2. Session!TypeOK /\ CliTypeOK /\ QuietInv /\ [Next]_vars => QuietInv'
  BY QuietStep
<1>3. QuietInv => QuietAtPrompt
  BY DEF QuietInv, QuietAtPrompt
<1> QED BY <1>1, <1>2, <1>3, SessionsBehave, CliTypeInvariant, PTL DEF Safety
=============================================================================
