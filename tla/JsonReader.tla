----------------------------- MODULE JsonReader -----------------------------
(***************************************************************************)
(* The reader of the config file: parser::sax_parse_internal and           *)
(* json_sax_dom_parser of common/libs/json.hpp, as "file >> j" in          *)
(* Config::loadFromFile uses them (common/config.cpp:13): not strict, no   *)
(* callback, with exceptions.                                              *)
(*                                                                         *)
(* The parser takes one token after the other, keeps a stack of the arrays *)
(* and objects it is in, and tells the builder of the document, which has  *)
(* a stack of its own: of references to the containers it is filling, and  *)
(* one to the member whose value comes next.  The two are kept apart in    *)
(* the code, and tied together by assertions that a release build does not *)
(* check.                                                                  *)
(*                                                                         *)
(* A document is a function from paths to nodes; a reference is the path   *)
(* it leads to.                                                            *)
(***************************************************************************)
EXTENDS Naturals, Sequences, FiniteSets

CONSTANTS
  Strings,     (* what a string token can say                              *)
  Scalars,     (* the numbers and literals                                 *)
  Null,        (* one of them                                              *)
  NoElement,   (* the null pointer                                         *)
  MaxTokens    (* bound on the tokens of a file                            *)

Containers == {"object", "array"}

(* A key is not a position in an array.                                    *)
ASSUME ReaderAssumption ==
  /\ Null \in Scalars
  /\ Containers \cap (Strings \cup Scalars) = {}
  /\ Strings \cap Nat = {}
  /\ NoElement \notin Seq(Strings \cup Nat)
  /\ MaxTokens \in Nat

(* "bad" is a token the lexer rejects, or a float that is not finite.      *)
Marks == {"{", "}", "[", "]", ":", ",", "bad", "end"}

Mark(m) == [kind |-> m, says |-> Null]

EndOfInput == Mark("end")

Tokens ==
  {Mark(m) : m \in Marks}
    \cup [kind : {"string"}, says : Strings]
    \cup [kind : {"scalar"}, says : Scalars]

VARIABLES
  read,      (* the tokens so far (history)                                *)
  at,        (* what the parser does with the next one                     *)
  states,    (* its stack, TRUE for an array                               *)
  tree,      (* the document                                               *)
  refStack,  (* references to the containers being filled                  *)
  element    (* object_element                                             *)

parserVars == <<read, at, states>>
builderVars == <<tree, refStack, element>>
vars == <<parserVars, builderVars>>

Paths == Seq(Strings \cup Nat)

Nodes == Containers \cup Strings \cup Scalars

Positions ==
  {"value", "first_key", "first_colon", "key", "colon", "first_element", "after"}

TypeOK ==
  /\ read \in Seq(Tokens)
  /\ at \in Positions \cup {"done", "failed"}
  /\ states \in Seq(BOOLEAN)
  /\ IsFiniteSet(DOMAIN tree)
  /\ DOMAIN tree \subseteq Paths
  /\ \A p \in DOMAIN tree : tree[p] \in Nodes
  /\ refStack \in Seq(Paths)
  /\ element \in Paths \cup {NoElement}

Init ==
  /\ read = <<>>
  /\ at = "value"
  /\ states = <<>>
  /\ tree = [p \in {<<>>} |-> Null]
  /\ refStack = <<>>
  /\ element = NoElement

-----------------------------------------------------------------------------
(* The builder.                                                            *)

Last(s) == s[Len(s)]

Shorter(s) == SubSeq(s, 1, Len(s) - 1)

Top == Last(refStack)

(* Whether path q leads to what p leads to, or into it.                    *)
Within(p, q) == Len(p) <= Len(q) /\ \A i \in 1..Len(p) : p[i] = q[i]

(* Mutant: what was there before is not destroyed.                         *)
PutOver(p, node) ==
  tree' = [q \in DOMAIN tree \cup {p} |-> IF q = p THEN node ELSE tree[q]]

(* Mutant: what is there already is not assigned to again.                 *)
PutIfNew(p, node) ==
  tree' = [q \in {r \in DOMAIN tree : ~Within(p, r)} \cup {p} |->
             IF q # p THEN tree[q]
             ELSE IF p \in DOMAIN tree /\ tree[p] # Null THEN tree[p] ELSE node]

(* An assignment to the reference p: whatever it led to is destroyed.      *)
Put(p, node) ==
  tree' = [q \in {r \in DOMAIN tree : ~Within(p, r)} \cup {p} |->
             IF q = p THEN node ELSE tree[q]]

Size(p) == Cardinality({q \in DOMAIN tree : Len(q) = Len(p) + 1 /\ Within(p, q)})

(* Where handle_value puts a value: it is the document, or the next        *)
(* element of the array on top, or the value of the member that has been   *)
(* announced.                                                              *)
Slot ==
  IF refStack = <<>> THEN <<>>
  ELSE IF tree[Top] = "array" THEN Append(Top, Size(Top) + 1)
  ELSE element

(* start_object, start_array                                               *)
StartContainer(type) ==
  /\ Put(Slot, type)
  /\ refStack' = Append(refStack, Slot)
  /\ UNCHANGED element

(* end_object, end_array                                                   *)
EndContainer ==
  /\ refStack' = Shorter(refStack)
  /\ UNCHANGED <<tree, element>>

(* Mutant: the member has no value until one is assigned.                  *)
KeyWithoutNull(k) ==
  LET member == Append(Top, k)
  IN /\ element' = member
     /\ tree' = [q \in DOMAIN tree \cup {member} |->
                   IF q \in DOMAIN tree THEN tree[q] ELSE NoElement]
     /\ UNCHANGED refStack

(* operator[]: a key that is there already is the same member.             *)
Key(k) ==
  LET member == Append(Top, k)
  IN /\ element' = member
     /\ tree' = [q \in DOMAIN tree \cup {member} |->
                   IF q \in DOMAIN tree THEN tree[q] ELSE Null]
     /\ UNCHANGED refStack

(* Mutant: a scalar goes where the last member was announced.              *)
ScalarToElement(v) ==
  /\ Put(IF element = NoElement THEN Slot ELSE element, v)
  /\ UNCHANGED <<refStack, element>>

Scalar(v) ==
  /\ Put(Slot, v)
  /\ UNCHANGED <<refStack, element>>

-----------------------------------------------------------------------------
(* The parser.                                                             *)

(* Mutant: the stack of the parser is left as it is behind a container.    *)
EndedUnpopped(st) == at' = (IF states = <<>> THEN "done" ELSE "after") /\ states' = states

(* A value has come to its end: what the parser is in decides what comes   *)
(* next; if it is in nothing, it is done, and looks at no further token.   *)
Ended(st) == at' = (IF st = <<>> THEN "done" ELSE "after") /\ states' = st

Go(to) == at' = to /\ UNCHANGED states

(* sax->parse_error, which throws.                                         *)
Fail == at' = "failed" /\ UNCHANGED <<states, builderVars>>

(* A value begins, within the containers st.                               *)
Value(t, st) ==
  \/ t.kind = "{" /\ StartContainer("object") /\ at' = "first_key" /\ states' = st
  \/ t.kind = "[" /\ StartContainer("array") /\ at' = "first_element" /\ states' = st
  \/ t.kind \in {"string", "scalar"} /\ Scalar(t.says) /\ Ended(st)
  \/ t.kind \in Marks \ {"{", "["} /\ Fail

FirstKey(t) ==
  \/ t.kind = "}" /\ EndContainer /\ Ended(states)
  \/ t.kind = "string" /\ Key(t.says) /\ Go("first_colon")
  \/ t.kind \notin {"}", "string"} /\ Fail

FirstColon(t) ==
  \/ t.kind = ":" /\ at' = "value" /\ states' = Append(states, FALSE) /\ UNCHANGED builderVars
  \/ t.kind # ":" /\ Fail

(* The token behind "[" is the "]", or begins the first element.           *)
FirstElement(t) ==
  \/ t.kind = "]" /\ EndContainer /\ Ended(states)
  \/ t.kind # "]" /\ Value(t, Append(states, TRUE))

NextKey(t) ==
  \/ t.kind = "string" /\ Key(t.says) /\ Go("colon")
  \/ t.kind # "string" /\ Fail

Colon(t) ==
  \/ t.kind = ":" /\ Go("value") /\ UNCHANGED builderVars
  \/ t.kind # ":" /\ Fail

(* Mutant: behind a comma the end of an array is accepted.                 *)
AfterLenient(t) ==
  LET array == Last(states)
      closing == IF array THEN "]" ELSE "}"
  IN \/ /\ t.kind = ","
        /\ IF array THEN at' = "first_element" /\ states' = Shorter(states) ELSE Go("key")
        /\ UNCHANGED builderVars
     \/ t.kind = closing /\ EndContainer /\ Ended(Shorter(states))
     \/ t.kind \notin {",", closing} /\ Fail

(* Behind a value there is a comma, or the container comes to its end.     *)
After(t) ==
  LET array == Last(states)
      closing == IF array THEN "]" ELSE "}"
  IN \/ t.kind = "," /\ Go(IF array THEN "value" ELSE "key") /\ UNCHANGED builderVars
     \/ t.kind = closing /\ EndContainer /\ Ended(Shorter(states))
     \/ t.kind \notin {",", closing} /\ Fail

(* get_token and what is done with the token.                              *)
Step(t) ==
  /\ read' = Append(read, t)
  /\ \/ at = "value" /\ Value(t, states)
     \/ at = "first_key" /\ FirstKey(t)
     \/ at = "first_colon" /\ FirstColon(t)
     \/ at = "key" /\ NextKey(t)
     \/ at = "colon" /\ Colon(t)
     \/ at = "first_element" /\ FirstElement(t)
     \/ at = "after" /\ After(t)

Next ==
  \/ Len(read) < MaxTokens /\ \E t \in Tokens : Step(t)
  \/ Len(read) = MaxTokens /\ Step(EndOfInput)

Spec == Init /\ [][Next]_vars

-----------------------------------------------------------------------------
(* Properties.                                                             *)

(* The assertions of the builder (common/libs/json.hpp:8910, 8920, 8959,   *)
(* 9084, 9097), and those the parser relies on without saying so: whenever *)
(* it tells the builder of a key or of the end of a container, the         *)
(* container on top is of that kind; whenever it tells it of a value,      *)
(* object_element is the member of the object on top whose key was read    *)
(* last, and not one of an object that has been left since or that has     *)
(* been destroyed.                                                         *)
InObject == refStack # <<>> /\ Top \in DOMAIN tree /\ tree[Top] = "object"

InArray == refStack # <<>> /\ Top \in DOMAIN tree /\ tree[Top] = "array"

Announced ==
  /\ element \in DOMAIN tree
  /\ read # <<>> /\ Last(read).kind = ":"
  /\ element = Append(Top, read[Len(read) - 1].says)

AssertsHold ==
  /\ at \in {"first_key", "first_colon", "key", "colon"} => InObject
  /\ at = "first_element" => InArray
  /\ at = "value" =>
       \/ refStack = <<>>
       \/ InArray
       \/ InObject /\ Announced
  /\ at = "after" =>
       states # <<>> /\ (IF Last(states) THEN InArray ELSE InObject)

(* References into a document that is being built stay good: each leads to *)
(* something that is there, directly within what the one below it leads    *)
(* to, so that an array never grows, and moves its elements, while there   *)
(* is a reference to one of them.                                          *)
ReferencesGood ==
  /\ refStack # <<>> => refStack[1] = <<>>
  /\ \A i \in 1..Len(refStack) :
       /\ refStack[i] \in DOMAIN tree
       /\ tree[refStack[i]] \in Containers
       /\ i > 1 => refStack[i - 1] = Shorter(refStack[i])

(* The document is one, at every moment, although a member may be read     *)
(* anew over what is there (handle_value, common/libs/json.hpp:9099):      *)
(* every node but the first is in an object or in an array, under a key or *)
(* at a position without a gap before it, and nothing is left below a      *)
(* value that took the place of a container.                               *)
DocumentGood ==
  /\ <<>> \in DOMAIN tree
  /\ \A q \in DOMAIN tree \ {<<>>} :
       /\ Shorter(q) \in DOMAIN tree
       /\ \/ tree[Shorter(q)] = "object" /\ Last(q) \in Strings
          \/ tree[Shorter(q)] = "array" /\ Last(q) \in 1..Size(Shorter(q))
=============================================================================
