---------------------------- MODULE JsonGrammar ----------------------------
(***************************************************************************)
(* A grammar of JSON: the texts that are a value, each with the document   *)
(* it stands for, and the texts that begin one.  Built up from their       *)
(* parts, as a grammar is written, and not taken apart from the front, as  *)
(* the parser does it.                                                     *)
(***************************************************************************)
EXTENDS JsonReader

M(m) == <<Mark(m)>>

Str(k) == <<[kind |-> "string", says |-> k]>>

Simple == [kind : {"string"}, says : Strings] \cup [kind : {"scalar"}, says : Scalars]

(* The document that is one node.                                          *)
Leaf(node) == [q \in {<<>>} |-> node]

(* A container of the documents inner[step].                               *)
Glue(type, inner) ==
  [q \in {<<>>} \cup UNION {{<<s>> \o p : p \in DOMAIN inner[s]} : s \in DOMAIN inner} |->
     IF q = <<>> THEN type ELSE inner[Head(q)][Tail(q)]]

(* One member more; of several with the same key the last one counts.      *)
With(inner, key, doc) ==
  [k \in DOMAIN inner \cup {key} |-> IF k = key THEN doc ELSE inner[k]]

(* The rules: what is made of which parts.                                 *)
Opening == [array |-> "[", object |-> "{"]

Closing == [array |-> "]", object |-> "}"]

Opened(type, text) == M(Opening[type]) \o text

Further(list, text) == list.text \o M(",") \o text

Named(k, text) == Str(k) \o M(":") \o text

Single(t) == [text |-> <<t>>, tree |-> Leaf(t.says)]

Container(type, list) ==
  [text |-> Opened(type, list.text \o M(Closing[type])), tree |-> Glue(type, list.items)]

Element(v) == [text |-> v.text, items |-> <<v.tree>>]

AndElement(e, v) == [text |-> Further(e, v.text), items |-> Append(e.items, v.tree)]

Member(k, v) == [text |-> Named(k, v.text), items |-> With(<<>>, k, v.tree)]

AndMember(l, k, v) ==
  [text |-> Further(l, Named(k, v.text)), items |-> With(l.items, k, v.tree)]

(* What there is of n tokens, G[i] being what there is of i < n: values,   *)
(* what can stand in an array and in an object, and what begins a value    *)
(* and a member.                                                           *)
Values(G, n) ==
  {Single(t) : t \in IF n = 1 THEN Simple ELSE {}}
    \cup {Container("array", e) : e \in IF n > 1 THEN G[n - 2].elements ELSE {}}
    \cup {Container("object", l) : l \in IF n > 1 THEN G[n - 2].members ELSE {}}

Elements(G, n, values) ==
  {Element(v) : v \in values}
    \cup UNION {{AndElement(e, v) : e \in G[i].elements, v \in G[n - 1 - i].values} :
                  i \in 1..n - 2}

Members(G, n) ==
  {Member(k, v) : k \in Strings, v \in IF n > 2 THEN G[n - 2].values ELSE {}}
    \cup UNION {{AndMember(l, k, v) :
                    l \in G[i].members, k \in Strings, v \in G[n - 3 - i].values} :
                  i \in 1..n - 4}

ElementsBegun(G, n) ==
  G[n].begun
    \cup UNION {{Further(e, p) : e \in G[i].elements, p \in G[n - 1 - i].begun} :
                  i \in 1..n - 1}

MembersBegun(G, n) ==
  G[n].memberBegun
    \cup UNION {{Further(l, p) : l \in G[i].members, p \in G[n - 1 - i].memberBegun} :
                  i \in 1..n - 1}

Begun(G, n, values) ==
  {v.text : v \in values}
    \cup {Opened("array", p) : p \in ElementsBegun(G, n - 1)}
    \cup {Opened("object", p) : p \in MembersBegun(G, n - 1)}

MemberBegun(G, n) ==
  {Str(k) : k \in IF n = 1 THEN Strings ELSE {}}
    \cup {Named(k, p) : k \in Strings, p \in IF n > 1 THEN G[n - 2].begun ELSE {}}

Row(G, n) ==
  LET values == Values(G, n)
  IN [values |-> values,
      elements |-> Elements(G, n, values),
      members |-> Members(G, n),
      begun |-> Begun(G, n, values),
      memberBegun |-> MemberBegun(G, n)]

(* Of no token: nothing is in the container, and all is still to come.     *)
NoRow ==
  LET nothing == {[text |-> <<>>, items |-> <<>>]}
  IN [values |-> {}, elements |-> nothing, members |-> nothing,
      begun |-> {<<>>}, memberBegun |-> {<<>>}]

Longer(G, n) ==
  LET row == Row(G, n) IN [i \in 0..n |-> IF i < n THEN G[i] ELSE row]

Grammar[n \in Nat] ==
  IF n = 0 THEN [i \in {0} |-> NoRow] ELSE Longer(Grammar[n - 1], n)

JSON == Grammar[MaxTokens]

Viable == UNION {JSON[n].begun : n \in 0..MaxTokens}

Documents == UNION {JSON[n].values : n \in 0..MaxTokens}

Texts == {v.text : v \in Documents}

(* The reader reads JSON and nothing else (parser::parse): it fails at the *)
(* first token with which no value can begin any more, and not before; it  *)
(* is done as soon as there is a value, whatever comes behind it; and the  *)
(* document is the one the text stands for, in which the last of several   *)
(* members with the same key counts, and nothing of the others is left.    *)
ReadsJson ==
  /\ at = "failed" <=> read \notin Viable
  /\ at = "done" <=> read \in Texts
  /\ at = "done" => [text |-> read, tree |-> tree] \in Documents
=============================================================================
