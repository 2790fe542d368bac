------------------------------- MODULE Client -------------------------------
(***************************************************************************)
(* The client process: the command loop of client/cli and                  *)
(* Client::connect, which makes a ClientSession and runs the io_context on *)
(* the one thread the process has until the context stops.                 *)
(*                                                                         *)
(* Two library objects keep state from one command to the next: the        *)
(* io_context, which is stopped when it has run out of work and stays so   *)
(* until restart() is called, and std::cin, whose getline leaves the       *)
(* string alone once the end of the input has been reached.                *)
(***************************************************************************)
EXTENDS Naturals

CONSTANTS
  MaxSessions,   (* bound on the connect commands that are given           *)
  Replies, None  (* as in ClientSession                                    *)

ASSUME ClientAssumption ==
  /\ MaxSessions \in Nat \ {0}
  /\ None \notin Replies

(* A session is named by the number of the connect command that made it.   *)
Sessions == 1..MaxSessions

VARIABLES op, ec, link, expires, guarded, answer, buffer, printed

Session == INSTANCE ClientSession

VARIABLES
  cli,       (* the main thread: at the prompt, in io_context::run, gone   *)
  input,     (* the line in hand                                           *)
  stdin,     (* whether the end of the input has been reached              *)
  made,      (* connect commands so far                                    *)
  stopped    (* whether _io_context is stopped                             *)

sessionVars == <<op, ec, link, expires, guarded, answer, buffer, printed>>
cliVars == <<cli, input, stdin, made, stopped>>
vars == <<sessionVars, cliVars>>

(* "other" is any command that only prints, or an unknown one.             *)
Lines == {"blank", "connect", "exit", "other"}

CliTypeOK ==
  /\ cli \in {"prompt", "running", "exited"}
  /\ input \in Lines
  /\ stdin \in {"open", "ended"}
  /\ made \in 0..MaxSessions
  /\ stopped \in BOOLEAN

TypeOK == Session!TypeOK /\ CliTypeOK

Init ==
  /\ Session!Init
  /\ cli = "prompt"
  /\ input = "blank"
  /\ stdin = "open"
  /\ made = 0
  /\ stopped = FALSE

-----------------------------------------------------------------------------
(* The command loop.                                                       *)

(* std::getline: a line, with which the input may end; at the end of it    *)
(* the string stays as it is.                                              *)
GetLine ==
  \/ stdin = "open" /\ input' \in Lines /\ stdin' \in {"open", "ended"}
  \/ stdin = "ended" /\ UNCHANGED <<input, stdin>>

(* Client::connect up to the call of io_context::run.                      *)
Connect ==
  /\ input' = "connect"
  /\ made < MaxSessions
  /\ made' = made + 1
  /\ Session!Run(made')
  /\ cli' = "running"

Exit ==
  /\ input' = "exit"
  /\ cli' = "exited"
  /\ UNCHANGED <<sessionVars, made>>

(* Mutant: an unknown command ends the program with a failure.             *)
OtherFails ==
  /\ input' \in {"blank", "other"}
  /\ cli' = IF input' = "other" THEN "failed" ELSE cli
  /\ UNCHANGED <<sessionVars, made>>

Other ==
  /\ input' \in {"blank", "other"}
  /\ UNCHANGED <<sessionVars, cli, made>>

(* One turn of the loop, from the prompt on.                               *)
Command ==
  /\ cli = "prompt"
  /\ GetLine
  /\ Connect \/ Exit \/ Other
  /\ UNCHANGED stopped

-----------------------------------------------------------------------------
(* io_context::run.                                                        *)

(* Outside of it, and once the context is stopped, no handler runs.        *)
SessionHandler(s) ==
  /\ cli = "running"
  /\ ~stopped
  /\ Session!Handler(s)
  /\ UNCHANGED cliVars

HasWork == \E s \in Sessions : op[s] \notin {"none", "over"}

(* Mutant: run_one() instead of run(): one handler per command.            *)
ReturnEarly ==
  /\ cli = "running"
  /\ stopped' = TRUE
  /\ cli' = "prompt"
  /\ UNCHANGED <<sessionVars, input, stdin, made>>

(* It returns when there is no work left, or at once when stopped before.  *)
Return ==
  /\ cli = "running"
  /\ stopped \/ ~HasWork
  /\ stopped' = TRUE
  /\ cli' = "prompt"
  /\ UNCHANGED <<sessionVars, input, stdin, made>>

(* The resolver, the kernel and the server act at any time.                *)
Network(s) == (Session!Server(s) \/ Session!Io(s)) /\ UNCHANGED cliVars

Next ==
  \/ Command
  \/ Return
  \/ \E s \in Sessions : SessionHandler(s) \/ Network(s)

(* As for ClientSession; and the main thread gets on when it can.  Whether *)
(* another line is typed is up to the user.                                *)
Fairness ==
  /\ WF_vars(Return)
  /\ \A s \in Sessions :
       /\ WF_vars(SessionHandler(s))
       /\ WF_vars(Session!Resolved(s) /\ UNCHANGED cliVars)
       /\ WF_vars(Session!Written(s) /\ UNCHANGED cliVars)
       /\ WF_vars(Session!ReadArrived(s) /\ UNCHANGED cliVars)
       /\ WF_vars(Session!Notice(s) /\ UNCHANGED cliVars)
       /\ WF_vars(Session!Timeout(s) /\ UNCHANGED cliVars)

Safety == Init /\ [][Next]_vars

Spec == Safety /\ Fairness

-----------------------------------------------------------------------------
(* Properties.                                                             *)

(* The user is not prompted, and the program does not end, in the middle   *)
(* of an exchange: whenever the thread is out of io_context::run no        *)
(* session has a connection (client/client.cpp:29).                        *)
QuietAtPrompt ==
  cli # "running" =>
    \A s \in Sessions : link[s] \in {"absent", "shut"} /\ op[s] \in {"none", "resolve", "over"}

(* connect comes back to the prompt, unless the server leaves the client   *)
(* without an answer.                                                      *)
PromptReturns ==
  (cli = "running") ~> (cli = "prompt" \/ \E s \in Sessions : Session!AwaitsAnswer(s))

(* "Connect to the server" (client/cli/command_manager.cpp:10): when the   *)
(* command has returned, its attempt is over, for better or worse.  It     *)
(* does not hold: the first connect leaves the io_context stopped, nobody  *)
(* restarts it, and run() returns at once from the second, whose session   *)
(* never gets beyond the resolver.                                         *)
ConnectAttempts == cli = "prompt" => \A s \in 1..made : op[s] = "over"
=============================================================================
