---------------------------- MODULE MCJsonReader ----------------------------
(***************************************************************************)
(* JsonReader beside both accounts of what a text says: place by place     *)
(* (JsonText), and as a grammar (JsonGrammar).                             *)
(***************************************************************************)
EXTENDS JsonText, JsonGrammar
=============================================================================
