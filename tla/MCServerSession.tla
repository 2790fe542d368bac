-------------------------- MODULE MCServerSession --------------------------
(***************************************************************************)
(* Constants for the model checking of ServerSession.                      *)
(***************************************************************************)
EXTENDS ServerSession

CONSTANTS a, b

MCParts == {a, b}

(* A text message in one part, a binary one in two, and an empty one.      *)
MCMessages == { [text |-> TRUE, data |-> <<a>>],
                [text |-> FALSE, data |-> <<a, b>>],
                [text |-> TRUE, data |-> <<>>] }
=============================================================================
