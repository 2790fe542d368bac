------------------------------ MODULE JsonText ------------------------------
(***************************************************************************)
(* What a JSON text says, without a stack and without a reference: every   *)
(* token has a place, the path of the value it belongs to, which follows   *)
(* from the token before it alone.  A text is a value if each of its       *)
(* tokens has a place and the last one ends the value at the empty path;   *)
(* and the document it stands for is what was said last, place by place.   *)
(***************************************************************************)
EXTENDS JsonReader

(* A token at path p: it begins the array or the object there, it is the   *)
(* scalar there, or it ends the container there; or it is the key of the   *)
(* member there, the colon behind it, or the comma behind the value there. *)
Place(p, role) == [path |-> p, role |-> role]

Beginning == Place(<<>>, "beginning")

Nowhere == Place(<<>>, "none")

IsElement(p) == p # <<>> /\ Last(p) \in Nat

IsMember(p) == p # <<>> /\ Last(p) \in Strings

ValueAt(p, t) ==
  CASE t.kind = "[" -> Place(p, "array")
    [] t.kind = "{" -> Place(p, "object")
    [] t.kind \in {"string", "scalar"} -> Place(p, "scalar")
    [] OTHER -> Nowhere

KeyIn(p, t) ==
  IF t.kind = "string" THEN Place(Append(p, t.says), "key") ELSE Nowhere

(* What may stand behind the end of the value at p.                        *)
BehindValue(p, t) ==
  CASE p # <<>> /\ t.kind = "," -> Place(p, "comma")
    [] IsElement(p) /\ t.kind = "]" -> Place(Shorter(p), "end")
    [] IsMember(p) /\ t.kind = "}" -> Place(Shorter(p), "end")
    [] OTHER -> Nowhere

BehindComma(p, t) ==
  CASE IsElement(p) -> ValueAt(Append(Shorter(p), Last(p) + 1), t)
    [] IsMember(p) -> KeyIn(Shorter(p), t)
    [] OTHER -> Nowhere

(* The place of token t, behind a token at w.                              *)
Follow(w, t) ==
  CASE w.role \in {"beginning", "colon"} -> ValueAt(w.path, t)
    [] w.role = "array" ->
         IF t.kind = "]" THEN Place(w.path, "end") ELSE ValueAt(Append(w.path, 1), t)
    [] w.role = "object" ->
         IF t.kind = "}" THEN Place(w.path, "end") ELSE KeyIn(w.path, t)
    [] w.role = "key" -> IF t.kind = ":" THEN Place(w.path, "colon") ELSE Nowhere
    [] w.role \in {"scalar", "end"} -> BehindValue(w.path, t)
    [] w.role = "comma" -> BehindComma(w.path, t)
    [] OTHER -> Nowhere

(* The places of the tokens of a text, and the beginning before them.      *)
Where(text) ==
  LET where[i \in 0..Len(text)] ==
        IF i = 0 THEN Beginning ELSE Follow(where[i - 1], text[i])
  IN where

(* What a token says of the place of a value.                              *)
Node(t) ==
  CASE t.kind = "[" -> "array"
    [] t.kind = "{" -> "object"
    [] OTHER -> t.says

Said(where, i) == where[i].role \in {"array", "object", "scalar"}

(* What token i of the text says is not said anew by a later one, neither  *)
(* of its place nor of one around it.                                      *)
Stands(where, n, i) ==
  /\ Said(where, i)
  /\ \A j \in i + 1..n : Said(where, j) => ~Within(where[j].path, where[i].path)

(* The document is what was said last.                                     *)
SaidBy(text, where, doc) ==
  LET standing == {i \in 1..Len(text) : Stands(where, Len(text), i)}
  IN /\ DOMAIN doc = {where[i].path : i \in standing}
     /\ \A i \in standing : doc[where[i].path] = Node(text[i])

(* The reader, with its two stacks, its references and the members it      *)
(* reads over (parser and json_sax_dom_parser), reads just this: it fails  *)
(* at the first token that has no place, and not before; it is done when   *)
(* the value at the empty path has come to its end, and not before; and    *)
(* its document is then what the text says, of every place what was said   *)
(* last and of no other place anything.                                    *)
ReadsAsWritten ==
  LET where == Where(read)
      last == where[Len(read)]
  IN /\ at = "failed" <=> last = Nowhere
     /\ at = "done" <=> last.role \in {"scalar", "end"} /\ last.path = <<>>
     /\ at = "done" => SaidBy(read, where, tree)
=============================================================================
