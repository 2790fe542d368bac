------------------------------ MODULE Startup ------------------------------
(***************************************************************************)
(* The start-up of either program, from the command line to a              *)
(* configuration: ServerCLI::CLIParse and ClientCLI::CLIParse, which       *)
(* differ in their defaults, with Config::loadFromFile and the four looks  *)
(* Config::setPath takes at the file system.  The file system belongs to   *)
(* everybody: between any two looks the config file and what the path      *)
(* leads to can change.                                                    *)
(***************************************************************************)
EXTENDS Configuration, Sequences

CONSTANTS
  Texts, NoText, Arguments, Lines,   \* as in CommandLine
  Defaults,       (* the texts the options are bound to when not given     *)
  DefaultConfig,  (* a Config nobody has set                               *)
  Documents,      (* what a config file can say                            *)
  Absent,         (* a member that is not there or is not a string         *)
  Targets,        (* what a path can lead to                               *)
  Directories,    (* those that are directories                            *)
  OwnerReadable   (* those with the permission bit owner_read              *)

Document == [ip : Texts \cup {Absent}, port : Texts \cup {Absent}, path : Texts \cup {Absent}]

NoMembers == [ip |-> Absent, port |-> Absent, path |-> Absent]

VARIABLES line, args, results, help, missing, positional, parsed

CL == INSTANCE CommandLine

ASSUME StartupAssumption ==
  /\ Texts \subseteq Text
  /\ Absent \notin Texts
  /\ NoText \notin Texts
  /\ Arguments \subseteq CL!Argument
  /\ Lines \subseteq Seq(Arguments)
  /\ Defaults \in [CL!Options -> Texts]
  /\ Documents \subseteq Document
  /\ Directories \subseteq Targets /\ OwnerReadable \subseteq Targets
  /\ {"missing", "denied"} \cap Targets = {}

VARIABLES
  main,       (* how far the main thread is                                *)
  wanted,     (* the texts of the configuration being made                 *)
  byFile,     (* whether they come from the config file, inside its try    *)
  config,     (* the configuration the program has                         *)
  status,     (* how the process ended                                     *)
  file,       (* the config file                                           *)
  leadsTo,    (* what the path leads to                                    *)
  still,      (* whether the file system has not changed so far (history)  *)
  led         (* whether the path ever led to a directory (history)        *)

lineVars == <<line, args, results, help, missing, positional, parsed>>
diskVars == <<file, leadsTo, still, led>>
vars == <<lineVars, main, wanted, byFile, config, status, diskVars>>

(* A path leads to something, or to nothing, or is beyond a directory this *)
(* process may not search, and then every function that looks throws.      *)
Ends == Targets \cup {"missing", "denied"}

(* The config file: "unreadable" is there and cannot be opened, "malformed"*)
(* is no JSON, "scalar" is JSON and neither an object nor null.            *)
Files ==
  [kind : {"missing", "denied", "unreadable", "malformed", "scalar"}, says : {NoMembers}]
    \cup [kind : {"object"}, says : Documents]

Over == {"running", "exited", "aborted"}

TypeOK ==
  /\ CL!TypeOK
  /\ main \in {"parse", "find", "load", "address", "exists", "is_directory",
               "permissions", "canonical"} \cup Over
  /\ wanted \in Document
  /\ byFile \in BOOLEAN
  /\ config = DefaultConfig \/
       (config.addr = MakeAddr(wanted.ip, wanted.port) /\ config.path \in Targets)
  /\ status \in {"none", "success", "failure", "abort"}
  /\ file \in Files
  /\ leadsTo \in Ends
  /\ still \in BOOLEAN
  /\ led \in BOOLEAN

Init ==
  /\ CL!Init
  /\ main = "parse"
  /\ wanted = NoMembers
  /\ byFile = FALSE
  /\ config = DefaultConfig
  /\ status = "none"
  /\ file \in Files
  /\ leadsTo \in Ends
  /\ still = TRUE
  /\ led = (leadsTo \in Directories)

-----------------------------------------------------------------------------
(* How it can end early.                                                   *)

(* exit(-1)                                                                *)
ExitFailing ==
  /\ main' = "exited"
  /\ status' = "failure"
  /\ UNCHANGED config

(* An exception that nobody catches ends the process.                      *)
Abort ==
  /\ main' = "aborted"
  /\ status' = "abort"
  /\ UNCHANGED config

(* Only what loadFromFile throws is caught, whatever it is.                *)
Throw(e) ==
  /\ e \in Exceptions
  /\ IF byFile THEN ExitFailing ELSE Abort

Proceed(to) == main' = to /\ UNCHANGED <<config, status>>

-----------------------------------------------------------------------------
(* The command line.                                                       *)

ReadLine ==
  /\ main = "parse"
  /\ CL!Next
  /\ UNCHANGED <<main, wanted, byFile, config, status, diskVars>>

Value(o) == CL!Value(o, Defaults[o])

Mutes(x) == UNCHANGED <<lineVars, diskVars, x>>

(* App::exit prints the help or the message; its result is not looked at.  *)
Refuse ==
  /\ main = "parse"
  /\ parsed \in {"help", "mismatch", "extras"}
  /\ ExitFailing
  /\ Mutes(<<wanted, byFile>>)

(* Without a config file the values of the options are the configuration,  *)
(* with one they are not looked at.                                        *)
Choose ==
  /\ main = "parse"
  /\ parsed = "taken"
  /\ IF Value("config").empty
       THEN /\ wanted' = [ip |-> Value("ip"), port |-> Value("port"), path |-> Value("dir")]
            /\ Proceed("address")
       ELSE UNCHANGED wanted /\ Proceed("find")
  /\ Mutes(byFile)

-----------------------------------------------------------------------------
(* The config file.                                                        *)

(* exists() is called outside of the try.                                  *)
Find ==
  /\ main = "find"
  /\ \/ file.kind = "missing" /\ ExitFailing
     \/ file.kind = "denied" /\ Abort
     \/ file.kind \notin {"missing", "denied"} /\ Proceed("load")
  /\ Mutes(<<wanted, byFile>>)

LoadError ==
  IF file.kind \in {"missing", "denied", "unreadable"} THEN "runtime_error"
  ELSE IF file.kind # "object" \/ \E member \in {"ip", "port", "path"} : file.says[member] = Absent
    THEN "json"
  ELSE "none"

(* Mutant: the file is looked at once more, outside of the try.            *)
LoadLooksAgain ==
  /\ main = "load"
  /\ \/ /\ file.kind \in {"missing", "denied"}
        /\ Abort
        /\ UNCHANGED <<byFile, wanted>>
     \/ /\ file.kind \notin {"missing", "denied"}
        /\ byFile' = TRUE
        /\ \/ LoadError # "none" /\ ExitFailing /\ UNCHANGED wanted
           \/ LoadError = "none" /\ wanted' = file.says /\ Proceed("address")
  /\ UNCHANGED <<lineVars, diskVars>>

(* Opened and read at once.  A member that is not there is made by         *)
(* operator[], as null, and is no string.  That the path is taken from the *)
(* document after the address has been checked makes no difference.        *)
Load ==
  /\ main = "load"
  /\ byFile' = TRUE
  /\ \/ LoadError # "none" /\ ExitFailing /\ UNCHANGED wanted
     \/ LoadError = "none" /\ wanted' = file.says /\ Proceed("address")
  /\ UNCHANGED <<lineVars, diskVars>>

-----------------------------------------------------------------------------
(* The configuration.                                                      *)

(* Mutant: the address is set in the configuration of the program, and the *)
(* path is looked at afterwards.                                           *)
AddressSetAtOnce ==
  /\ main = "address"
  /\ LET e == AddrError(wanted.ip, wanted.port)
     IN \/ Throw(e)
        \/ e = "none" /\ wanted.path.empty /\ Throw("invalid_argument")
        \/ /\ e = "none" /\ ~wanted.path.empty
           /\ main' = "exists"
           /\ config' = [config EXCEPT !.addr = MakeAddr(wanted.ip, wanted.port)]
           /\ UNCHANGED status
  /\ Mutes(<<wanted, byFile>>)

Address ==
  /\ main = "address"
  /\ LET e == AddrError(wanted.ip, wanted.port)
     IN \/ Throw(e)
        \/ e = "none" /\ wanted.path.empty /\ Throw("invalid_argument")
        \/ e = "none" /\ ~wanted.path.empty /\ Proceed("exists")
  /\ Mutes(<<wanted, byFile>>)

(* A look at the path throws what the catch of setPath makes a             *)
(* runtime_error of, or it fails its test, or setPath goes on.             *)
Look(at, throws, passes, next) ==
  /\ main = at
  /\ IF throws \/ ~passes THEN Throw("runtime_error") ELSE Proceed(next)
  /\ Mutes(<<wanted, byFile>>)

Exists == Look("exists", leadsTo = "denied", leadsTo # "missing", "is_directory")

(* Mutant: setPath does not ask whether the path is a directory.           *)
IsDirectoryUnasked ==
  Look("is_directory", leadsTo = "denied", TRUE, "permissions")

IsDirectory ==
  Look("is_directory", leadsTo = "denied", leadsTo \in Directories, "permissions")

(* The status of a path that has gone is no error, and its permissions are *)
(* perms::unknown, which has every bit.                                    *)
Permissions ==
  Look("permissions", leadsTo = "denied", leadsTo \in OwnerReadable \cup {"missing"}, "canonical")

(* Mutant: weakly_canonical(), which is content with a path that has gone. *)
WeaklyCanonical ==
  /\ main = "canonical"
  /\ IF leadsTo = "denied"
       THEN Throw("runtime_error")
       ELSE /\ config' = [addr |-> MakeAddr(wanted.ip, wanted.port), path |-> leadsTo]
            /\ main' = "running"
            /\ UNCHANGED status
  /\ Mutes(<<wanted, byFile>>)

(* canonical() and, when all is done, setConfig().                         *)
Canonical ==
  /\ main = "canonical"
  /\ IF leadsTo \in {"missing", "denied"}
       THEN Throw("runtime_error")
       ELSE /\ config' = [addr |-> MakeAddr(wanted.ip, wanted.port), path |-> leadsTo]
            /\ main' = "running"
            /\ UNCHANGED status
  /\ Mutes(<<wanted, byFile>>)

MainThread ==
  \/ ReadLine
  \/ Refuse
  \/ Choose
  \/ Find
  \/ Load
  \/ Address
  \/ Exists
  \/ IsDirectory
  \/ Permissions
  \/ Canonical

(* Somebody else changes the config file or what the path leads to.        *)
Disturb ==
  /\ main \notin Over
  /\ \/ file' \in Files \ {file} /\ UNCHANGED leadsTo
     \/ leadsTo' \in Ends \ {leadsTo} /\ UNCHANGED file
  /\ still' = FALSE
  /\ led' = (led \/ leadsTo' \in Directories)
  /\ UNCHANGED <<lineVars, main, wanted, byFile, config, status>>

Next == MainThread \/ Disturb

(* The main thread gets on.                                                *)
Fairness == WF_vars(MainThread)

Safety == Init /\ [][Next]_vars

Spec == Safety /\ Fairness

-----------------------------------------------------------------------------
(* Properties.                                                             *)

(* The command line is read as CommandLine says it is meant.               *)
ReadAsMeant == main = "parse" => CL!ReadAsMeant

(* With a file system that nobody touches, start-up is a function of the   *)
(* command line and the files, and this is it: the config file alone       *)
(* counts if one is named, the options and their defaults otherwise; an    *)
(* IPv4 address, a port and a directory its owner may read are accepted    *)
(* and nothing else is (CLIParse; Addr::setIp, setPort; Config::setPath).  *)
(* What is wrong with a config file ends the program in order, unless it   *)
(* is where nobody may look; what is wrong with an option aborts it.       *)
Source ==
  IF Value("config").empty
    THEN [ip |-> Value("ip"), port |-> Value("port"), path |-> Value("dir")]
    ELSE file.says

Acceptable(w) ==
  /\ \A member \in {"ip", "port", "path"} : w[member] # Absent
  /\ w.ip.ip = "v4" /\ ~w.ip.empty
  /\ ~w.port.empty /\ w.port.number # NoNumber /\ w.port.number \in 0..MaxPort
  /\ ~w.path.empty
  /\ leadsTo \in Directories \cap OwnerReadable

StableVerdict ==
  still /\ main \in Over =>
    /\ main = "running" <=> parsed = "taken" /\ Acceptable(Source)
    /\ main = "running" =>
         /\ config.addr = [ip |-> Source.ip, port |-> ToText(Source.port.number)]
         /\ config.path = leadsTo
    /\ main = "aborted" <=>
         /\ parsed = "taken" /\ ~Acceptable(Source)
         /\ Value("config").empty \/ file.kind = "denied"

(* However the file system changes meanwhile: a program that runs has an   *)
(* address that can be bound and connected to, and its path led to a       *)
(* directory at some time (what it leads to now is another matter).        *)
RunsWithSense ==
  main = "running" =>
    /\ IsAddr(config.addr)
    /\ led

(* However the file system changes between two looks at it: what was found *)
(* a moment ago and has gone, or has changed, is reported and ends the     *)
(* program in order if a config file is named (server/server_cli.cpp:36-46,*)
(* client/cli/client_cli.cpp:32-40), and aborts it if not; only exists(),  *)
(* which is outside of the try, lets a config file abort it.  A program    *)
(* that runs has the path that canonical() found last, whether or not that *)
(* is the directory the checks before it saw, and without a config file    *)
(* the address its options gave.                                           *)
VerdictDespiteChanges ==
  /\ main = "aborted" => parsed = "taken" /\ (Value("config").empty \/ file.kind = "denied")
  /\ main = "exited" /\ parsed = "taken" => ~Value("config").empty
  /\ main = "running" =>
       /\ parsed = "taken"
       /\ leadsTo \in Targets /\ config.path = leadsTo
       /\ Value("config").empty =>
            /\ config.addr = MakeAddr(Value("ip"), Value("port"))
            /\ ~Value("dir").empty

(* Start-up comes to an end, with an address that is accepted or with the  *)
(* process, whatever happens to the file system meanwhile.                 *)
Outcome ==
  CASE main = "running"               -> "running"
    [] main \in {"exited", "aborted"} -> "ended"
    [] OTHER                          -> "starting"

Accepted ==
  [ip   : {t \in Texts : IpError(t) = "none"},
   port : {ToText(n) : n \in 0..MaxPort}]

Plan == INSTANCE Setup WITH
          Addrs <- Accepted, DefaultAddr <- DefaultConfig.addr,
          state <- Outcome, addr <- config.addr

ImplementsSetup == Plan!Spec
=============================================================================
