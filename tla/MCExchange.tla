---------------------------- MODULE MCExchange ----------------------------
(***************************************************************************)
(* Constants for the model checking of Exchange.                           *)
(***************************************************************************)
EXTENDS Exchange

MCParts == {"p", "q"}

\* Its text arrives in two parts.
MCHello == [text |-> TRUE, data |-> <<"p", "q">>]
=============================================================================
