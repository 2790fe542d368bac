------------------------------- MODULE Setup -------------------------------
(***************************************************************************)
(* What the start-up of either program comes to: after a while it runs     *)
(* with an address it has accepted, or it has ended and never had any but  *)
(* the default.  Server!Parse is this one step; Startup implements it.     *)
(***************************************************************************)
CONSTANTS
  Addrs,        (* the addresses that are accepted                         *)
  DefaultAddr   (* the address of a configuration nobody has set           *)

VARIABLES
  state,        (* whether start-up is over, and how                       *)
  addr          (* the address of the configuration                        *)

vars == <<state, addr>>

Init == state = "starting" /\ addr = DefaultAddr

Settle ==
  /\ state = "starting"
  /\ state' = "running"
  /\ addr' \in Addrs

End ==
  /\ state = "starting"
  /\ state' = "ended"
  /\ UNCHANGED addr

Next == Settle \/ End

(* Start-up does not go on for ever.                                       *)
Fairness == WF_vars(Next)

Safety == Init /\ [][Next]_vars

Spec == Safety /\ Fairness
=============================================================================
