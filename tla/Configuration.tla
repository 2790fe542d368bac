--------------------------- MODULE Configuration ---------------------------
(***************************************************************************)
(* Addresses and configurations: common/addr.cpp and common/config.cpp     *)
(* without the file system.                                                *)
(*                                                                         *)
(* A text is what the functions that look at it make of it: make_address   *)
(* takes it for an IPv4 or an IPv6 address or for neither, and std::stoi   *)
(* finds a number at its front or not, whatever comes behind it.           *)
(***************************************************************************)
EXTENDS Integers

CONSTANTS NoNumber

ASSUME NoNumberAssumption == NoNumber \notin Int

Text ==
  [empty  : BOOLEAN,
   ip     : {"v4", "v6", "none"},
   number : Int \cup {NoNumber},
   bare   : BOOLEAN]     (* the text is just the number, as to_string writes it *)

(* std::to_string.                                                         *)
ToText(n) == [empty |-> FALSE, ip |-> "none", number |-> n, bare |-> TRUE]

(* The outcome of a function: the exception it throws, or none.            *)
Exceptions == {"invalid_argument", "out_of_range", "runtime_error", "json"}

IpError(ip) ==
  IF ip.empty \/ ip.ip # "v4" THEN "invalid_argument" ELSE "none"

MaxPort == 65535

(* Mutant: the port is compared with 65536.                                *)
PortErrorOffByOne(port) ==
  IF port.empty \/ port.number = NoNumber THEN "invalid_argument"
  ELSE IF port.number < 0 \/ port.number > MaxPort + 1 THEN "out_of_range" ELSE "none"

(* stoi throws invalid_argument without a number, and out_of_range on one  *)
(* that no int holds, like the function itself on one that is no port.     *)
PortError(port) ==
  IF port.empty \/ port.number = NoNumber THEN "invalid_argument"
  ELSE IF port.number < 0 \/ port.number > MaxPort THEN "out_of_range" ELSE "none"

(* Addr(ip, port).                                                         *)
AddrError(ip, port) == IF IpError(ip) # "none" THEN IpError(ip) ELSE PortError(port)

MakeAddr(ip, port) == [ip |-> ip, port |-> ToText(port.number)]

(* The uint16_t the socket is given.                                       *)
PortNum(addr) == addr.port.number % 65536

-----------------------------------------------------------------------------
(* Properties.                                                             *)

(* An address that passes: an IPv4 address, and a port whose text is the   *)
(* port's number and nothing else, which loses nothing on its way into 16  *)
(* bits.                                                                   *)
IsAddr(addr) ==
  /\ addr.ip.ip = "v4" /\ ~addr.ip.empty
  /\ addr.port.number \in 0..MaxPort
  /\ addr.port = ToText(addr.port.number)
  /\ PortNum(addr) = addr.port.number
=============================================================================
