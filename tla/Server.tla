------------------------------- MODULE Server -------------------------------
(***************************************************************************)
(* The server process: server/server.cpp with the sessions of              *)
(* ServerSession.  The main thread constructs the Server (which opens the  *)
(* listening socket), parses the command line, starts the accept loop and  *)
(* the pool of threads that run the io_context, and joins the pool itself. *)
(* Any thread of the pool runs any handler that is ready: on_accept of the *)
(* server, or a handler of some session.                                   *)
(*                                                                         *)
(* A session's handlers run on the strand of its connection and are atomic *)
(* steps.  on_accept does not run on that strand: it is two steps, between *)
(* which the other threads already run the handlers of the session it has  *)
(* just started.                                                           *)
(***************************************************************************)
EXTENDS Naturals, Sequences, FiniteSets

CONSTANTS
  Conns, Parts, Messages, Window, MaxSend,   \* as in ServerSession
  MaxThreads,   (* max_threads, common/utils.h                             *)
  MaxFds,       (* sockets the process can have open besides its acceptor  *)
  Addrs,        (* the addresses a configuration can name                  *)
  DefaultAddr,  (* 0.0.0.0:5555, the initial value of an Addr              *)
  NoAddr,       (* no address                                              *)
  NoConn        (* no connection                                           *)

ASSUME ServerAssumption ==
  /\ MaxThreads \in Nat \ {0}
  /\ MaxFds \in Nat \ {0}
  /\ DefaultAddr \in Addrs
  /\ NoAddr \notin Addrs
  /\ NoConn \notin Conns

ASSUME ConnsAssumption ==     \* SessionAssumption, for the sessions here
  /\ Messages \subseteq [text : BOOLEAN, data : Seq(Parts)]
  /\ Window \in Nat \ {0}
  /\ MaxSend \in Nat

VARIABLES life, op, ec, buffer, textOut, link, sent, rcvd, part, outbound, taken

Session == INSTANCE ServerSession

VARIABLES
  main,        (* how far the main thread is                               *)
  config,      (* _config's address                                        *)
  announced,   (* the address of "Server is running on ..."                *)
  acceptor,    (* how far the constructor got with _acceptor               *)
  endpoint,    (* the address _acceptor is bound to                        *)
  backlog,     (* connections made and not yet accepted, in order          *)
  armed,       (* async_accept operations waiting                          *)
  ready,       (* completed ones whose on_accept has not started: the      *)
               (* socket, or NoConn with an error                          *)
  thread,      (* what each thread of the pool is doing                    *)
  terminated   (* std::terminate: an exception left a thread               *)

sessionVars == <<life, op, ec, buffer, textOut, link, sent, rcvd, part, outbound, taken>>
startVars == <<main, config, announced, acceptor, endpoint>>
acceptVars == <<backlog, armed, ready>>
vars == <<sessionVars, startVars, acceptVars, thread, terminated>>

(* Threads 1..MaxThreads-1 are _threads, the last is the main thread.      *)
Threads == 1..MaxThreads

PoolTypeOK ==
  /\ main \in {"construct", "parse", "run", "spawn", "polling", "exited"}
  /\ config \in Addrs
  /\ announced \in Addrs \cup {NoAddr}
  /\ acceptor \in {"closed", "open", "bound", "listening"}
  /\ endpoint \in Addrs \cup {NoAddr}
  /\ backlog \in Seq(Conns)
  /\ armed \in Nat
  /\ ready \in Seq(Conns \cup {NoConn})
  /\ thread \in [Threads -> {"unborn", "polling", "rearm"}]
  /\ terminated \in BOOLEAN

TypeOK == Session!TypeOK /\ PoolTypeOK

Init ==
  /\ Session!Init
  /\ main = "construct"
  /\ config = DefaultAddr
  /\ announced = NoAddr
  /\ acceptor = "closed"
  /\ endpoint = NoAddr
  /\ backlog = <<>>
  /\ armed = 0
  /\ ready = <<>>
  /\ thread = [t \in Threads |-> "unborn"]
  /\ terminated = FALSE

-----------------------------------------------------------------------------
(* Start-up.                                                               *)

(* The constructor opens the acceptor, binds it to the address of _config, *)
(* and listens.  Each call can fail (set_option after open leaves it       *)
(* open), and then it returns with the acceptor as it is.                  *)
Construct ==
  /\ main = "construct"
  /\ main' = "parse"
  /\ acceptor' \in {"closed", "open", "bound", "listening"}
  /\ endpoint' = IF acceptor' \in {"bound", "listening"} THEN config ELSE NoAddr
  /\ UNCHANGED <<sessionVars, config, announced, acceptVars, thread, terminated>>

(* Mutant: without options no configuration is set.                        *)
ParseLeavesUnset ==
  /\ main = "parse"
  /\ main' = "run"
  /\ config' \in Addrs \cup {NoAddr}
  /\ UNCHANGED <<sessionVars, announced, acceptor, endpoint, acceptVars, thread, terminated>>

(* ServerCLI::CLIParse sets the configuration, or ends the process.        *)
Parse ==
  /\ main = "parse"
  /\ \/ main' = "run" /\ config' \in Addrs
     \/ main' = "exited" /\ UNCHANGED config
  /\ UNCHANGED <<sessionVars, announced, acceptor, endpoint, acceptVars, thread, terminated>>

DoAccept == armed' = armed + 1

(* The first part of Server::run: the accept loop is started before there  *)
(* is a thread to run it.                                                  *)
StartAccept ==
  /\ main = "run"
  /\ DoAccept
  /\ announced' = config
  /\ main' = "spawn"
  /\ UNCHANGED <<sessionVars, config, acceptor, endpoint, backlog, ready, thread, terminated>>

(* The second part: one thread after the other enters io_context::run, the *)
(* main thread last.                                                       *)
Spawn(t) ==
  /\ main = "spawn"
  /\ thread[t] = "unborn"
  /\ \A u \in 1..t - 1 : thread[u] # "unborn"
  /\ thread' = [thread EXCEPT ![t] = "polling"]
  /\ main' = IF t = MaxThreads THEN "polling" ELSE main
  /\ UNCHANGED <<sessionVars, config, announced, acceptor, endpoint, acceptVars, terminated>>

-----------------------------------------------------------------------------
(* The accept loop.                                                        *)

InUse == {c \in Conns : life[c] = "live" \/ \E i \in 1..Len(ready) : ready[i] = c}

FdFree == Cardinality(InUse) < MaxFds

(* A peer connects: the kernel queues the connection.                      *)
Connect(c) ==
  /\ acceptor = "listening"
  /\ Session!Connect(c)
  /\ backlog' = Append(backlog, c)
  /\ UNCHANGED <<startVars, armed, ready, thread, terminated>>

(* An async_accept completes with the connection that has waited longest.  *)
(* A connection that was reset while it waited is accepted like any other. *)
Accept ==
  /\ armed > 0
  /\ backlog # <<>>
  /\ FdFree
  /\ armed' = armed - 1
  /\ ready' = Append(ready, Head(backlog))
  /\ backlog' = Tail(backlog)
  /\ UNCHANGED <<sessionVars, startVars, thread, terminated>>

(* Mutant: a failed accept consumes the connection.                        *)
AcceptFailsDrops ==
  /\ armed > 0
  /\ acceptor # "listening" \/ ~FdFree
  /\ armed' = armed - 1
  /\ ready' = Append(ready, NoConn)
  /\ backlog' = IF backlog = <<>> THEN backlog ELSE Tail(backlog)
  /\ UNCHANGED <<sessionVars, startVars, thread, terminated>>

(* It fails at once on an acceptor that does not listen, and while the     *)
(* process has no file descriptor left.                                    *)
AcceptFails ==
  /\ armed > 0
  /\ acceptor # "listening" \/ ~FdFree
  /\ armed' = armed - 1
  /\ ready' = Append(ready, NoConn)
  /\ UNCHANGED <<sessionVars, startVars, backlog, thread, terminated>>

(* Mutant: on_accept returns on an error, without another accept.          *)
OnAcceptGivesUp(t) ==
  /\ thread[t] = "polling"
  /\ ready # <<>>
  /\ \/ Head(ready) = NoConn /\ UNCHANGED <<sessionVars, thread>>
     \/ /\ Head(ready) # NoConn
        /\ Session!Run(Head(ready))
        /\ thread' = [thread EXCEPT ![t] = "rearm"]
  /\ ready' = Tail(ready)
  /\ UNCHANGED <<startVars, backlog, armed, terminated>>

(* Mutant: the session does not take the socket over, which is closed when *)
(* on_accept returns.                                                      *)
OnAcceptKeepsSocket(t) ==
  /\ thread[t] = "polling"
  /\ ready # <<>>
  /\ ready' = Tail(ready)
  /\ thread' = [thread EXCEPT ![t] = "rearm"]
  /\ IF Head(ready) = NoConn
       THEN UNCHANGED sessionVars
       ELSE /\ life' = [life EXCEPT ![Head(ready)] = "live"]
            /\ op' = [op EXCEPT ![Head(ready)] = "accept"]
            /\ link' = [link EXCEPT ![Head(ready)] = "shut"]
            /\ UNCHANGED <<ec, buffer, textOut, sent, rcvd, part, outbound, taken>>
  /\ UNCHANGED <<startVars, backlog, armed, terminated>>

(* Server::on_accept, up to the call of do_accept.  remote_endpoint()      *)
(* throws on a connection that has been reset; nothing catches it.         *)
OnAccept(t) ==
  /\ thread[t] = "polling"
  /\ ready # <<>>
  /\ \/ /\ Head(ready) = NoConn
        /\ thread' = [thread EXCEPT ![t] = "rearm"]
        /\ ready' = Tail(ready)
        /\ UNCHANGED <<sessionVars, terminated>>
     \/ /\ Head(ready) # NoConn
        /\ link[Head(ready)] = "reset"
        /\ terminated' = TRUE
        /\ UNCHANGED <<sessionVars, ready, thread>>
     \/ /\ Head(ready) # NoConn
        /\ link[Head(ready)] # "reset"
        /\ Session!Run(Head(ready))
        /\ thread' = [thread EXCEPT ![t] = "rearm"]
        /\ ready' = Tail(ready)
        /\ UNCHANGED terminated
  /\ UNCHANGED <<startVars, backlog, armed>>

(* Mutant: on_accept ends twice with do_accept.                            *)
RearmTwice(t) ==
  /\ thread[t] = "rearm"
  /\ armed' = armed + 2
  /\ thread' = [thread EXCEPT ![t] = "polling"]
  /\ UNCHANGED <<sessionVars, startVars, backlog, ready, terminated>>

(* The rest of it.                                                         *)
Rearm(t) ==
  /\ thread[t] = "rearm"
  /\ DoAccept
  /\ thread' = [thread EXCEPT ![t] = "polling"]
  /\ UNCHANGED <<sessionVars, startVars, backlog, ready, terminated>>

-----------------------------------------------------------------------------
(* The pool.                                                               *)

SessionsOnly == UNCHANGED <<startVars, acceptVars, thread, terminated>>

(* A thread that is free runs the handler of a session.                    *)
SessionHandler(t, c) ==
  /\ thread[t] = "polling"
  /\ Session!Handler(c)
  /\ SessionsOnly

(* What the peer and Beast do with a connection.                           *)
Network(c) == (Session!Peer(c) \/ Session!Io(c)) /\ SessionsOnly

(* Nothing happens in a process that has ended.                            *)
Alive == main # "exited" /\ ~terminated

MainThread ==
  \/ Construct
  \/ Parse
  \/ StartAccept
  \/ \E t \in Threads : Spawn(t)

Pool(t) ==
  \/ OnAccept(t)
  \/ Rearm(t)
  \/ \E c \in Conns : SessionHandler(t, c)

Environment(c) == Connect(c) \/ Network(c)

(* There is no step for the return of io_context::run: it would need the   *)
(* context to be out of work, and NeverOutOfWork shows that it never is.   *)
Next ==
  /\ Alive
  /\ \/ MainThread
     \/ Accept
     \/ AcceptFails
     \/ \E t \in Threads : Pool(t)
     \/ \E c \in Conns : Environment(c)

(* The main thread gets on.  The kernel completes what it can complete.    *)
(* The queue of the io_context is first in, first out, and a thread that   *)
(* is free takes from it: a ready handler gets its turn, whatever else is  *)
(* ready again and again (strong fairness).  A handler that has started    *)
(* runs to its end.                                                        *)
Fairness ==
  /\ WF_vars(Alive /\ MainThread)
  /\ WF_vars(Alive /\ Accept)
  /\ WF_vars(Alive /\ AcceptFails)
  /\ SF_vars(Alive /\ \E t \in Threads : OnAccept(t))
  /\ \A t \in Threads : WF_vars(Alive /\ Rearm(t))
  /\ \A c \in Conns :
       /\ SF_vars(Alive /\ \E t \in Threads : SessionHandler(t, c))
       /\ WF_vars(Alive /\ Session!ReadArrived(c) /\ SessionsOnly)
       /\ WF_vars(Alive /\ Session!AnswerClose(c) /\ SessionsOnly)
       /\ WF_vars(Alive /\ Session!TornDown(c) /\ SessionsOnly)
       /\ WF_vars(Alive /\ Session!WriteOut(c) /\ SessionsOnly)
       /\ WF_vars(Alive /\ Session!OpFails(c) /\ SessionsOnly)
       /\ WF_vars(Alive /\ Session!Timeout(c) /\ SessionsOnly)

Safety == Init /\ [][Next]_vars

Spec == Safety /\ Fairness

-----------------------------------------------------------------------------
(* Properties.                                                             *)

(* The accept loop is one chain of operations: from the moment run() has   *)
(* started it there is, whatever the outcome of each accept, exactly one   *)
(* async_accept waiting, or one completed, or one thread on its way to     *)
(* start the next (server/server.cpp:94, "Accept another connection").     *)
Started == main \in {"spawn", "polling"}

OneAccept ==
  IF Started
    THEN \/ /\ armed + Len(ready) = 1
            /\ \A t \in Threads : thread[t] # "rearm"
         \/ /\ armed + Len(ready) = 0
            /\ \E t \in Threads :
                 /\ thread[t] = "rearm"
                 /\ \A u \in Threads \ {t} : thread[u] # "rearm"
    ELSE armed = 0 /\ ready = <<>> /\ \A t \in Threads : thread[t] = "unborn"

(* No thread of the pool falls out of io_context::run, which returns as    *)
(* soon as there is neither an operation outstanding nor a handler queued  *)
(* or running.  _threads are never joined: run() returning would end the   *)
(* process in their destructors.                                           *)
HasWork ==
  \/ armed > 0
  \/ ready # <<>>
  \/ \E t \in Threads : thread[t] = "rearm"
  \/ \E c \in Conns : op[c] # "none"

NeverOutOfWork == (\E t \in Threads : thread[t] # "unborn") => HasWork

(* Every connection is in exactly one place: the kernel's queue or the     *)
(* hands of an on_accept, once, until it has a session; none is lost when  *)
(* accepts fail and none gets two sessions.                                *)
Custody ==
  LET waiting == ready \o backlog
  IN \A c \in Conns :
       Cardinality({i \in 1..Len(waiting) : waiting[i] = c}) =
         IF link[c] # "absent" /\ life[c] = "none" THEN 1 ELSE 0

(* Among the threads of the pool the sessions behave as ServerSession says *)
(* of them one by one: no step of another part of the server touches one.  *)
ImplementsSessions == Session!Safety

(* Its start-up is the one Startup works out in detail: the configuration  *)
(* changes once, to an address that is accepted, and never any more.       *)
StartState ==
  CASE main \in {"construct", "parse"} -> "starting"
    [] main = "exited"                 -> "ended"
    [] OTHER                           -> "running"

Plan == INSTANCE Setup WITH state <- StartState, addr <- config

ImplementsSetup == Plan!Safety

(* A connection gets its session, if sockets become free again and again:  *)
(* running out of them makes accepts fail, and does not end the loop.      *)
EverServed ==
  []<>FdFree =>
    \A c \in Conns : (link[c] # "absent" /\ life[c] = "none") ~> (life[c] # "none" \/ ~Alive)

(* In the pool, too, the session of a peer that has left is given up, also *)
(* while failing accepts keep the threads busy.                            *)
PoolReleases ==
  \A c \in Conns :
    (life[c] = "live" /\ link[c] \in Session!Departures) ~> (life[c] = "gone" \/ ~Alive)

(* The server goes on accepting whatever one peer does: on_accept reports  *)
(* an error and ends with "Accept another connection"                      *)
(* (server/server.cpp:94).  It does not hold: a peer that resets its       *)
(* connection in time makes remote_endpoint() throw.                       *)
SurvivesPeers == ~terminated

(* The listening socket has the address the options give it                *)
(* (server/server_cli.cpp:18-19, "IP address of the listener socket",      *)
(* "Port of the listener socket"), the one the server announces.  It does  *)
(* not hold: the socket was bound before the options were read.            *)
ListensAsConfigured ==
  announced # NoAddr /\ acceptor = "listening" => endpoint = announced
=============================================================================
