------------------------------ MODULE MCServer ------------------------------
(***************************************************************************)
(* Constants for the model checking of Server.                             *)
(***************************************************************************)
EXTENDS Server, TLC

CONSTANTS a

(* One message is enough here: what a session does with messages is        *)
(* checked in MCServerSession.                                             *)
MCMessages == { [text |-> TRUE, data |-> <<a>>] }

(* The connections are interchangeable (the threads, which start in order, *)
(* are not).                                                               *)
ConnSymmetry == Permutations(Conns)
=============================================================================
