------------------------- MODULE JsonGrammarProofs -------------------------
(***************************************************************************)
(* Proofs about JsonGrammar, for texts of any length: the places of        *)
(* JsonText, which follow token by token as the parser goes, allow just    *)
(* what the grammar makes, and say of a text the document the grammar      *)
(* makes of it; so the reader, which reads as written, reads JSON and      *)
(* nothing else. Both ways are proved by induction over the number of      *)
(* tokens: what is made by a rule is placed, and what has a place is made  *)
(* by a rule.                                                              *)
(***************************************************************************)
EXTENDS JsonReaderProofs, JsonGrammar, WellFoundedInduction

-----------------------------------------------------------------------------
(* Induction over the numbers.                                             *)

(* A set of numbers that is not empty has a least one.                     *)
LEMMA LeastNumber ==
  ASSUME NEW S \in SUBSET Nat, S # {}
  PROVE  \E n \in S : \A m \in S : n <= m
<1> DEFINE less == {ss \in Nat \X Nat : ss[1] < ss[2]}
<1>1. IsWellFoundedOn(less, Nat)
  BY NatLessThanWellFounded DEF OpToRel
<1>2. \A m, n \in Nat : m < n => <<m, n>> \in less
  OBVIOUS
<1> HIDE DEF less
<1>3. PICK n \in S : \A m \in S : ~(<<m, n>> \in less)
  BY <1>1, WFMin
<1>4. ASSUME NEW m \in S PROVE n <= m
  <2>1. m \in Nat /\ n \in Nat
    OBVIOUS
  <2>2. ~(m < n)
    BY <1>2, <1>3, <2>1
  <2> QED
    BY <2>1, <2>2
<1> QED
  BY <1>4

(* What holds of a number if it holds of all below it, holds of every      *)
(* number.                                                                 *)
LEMMA Inductively ==
  ASSUME NEW S \in SUBSET Nat,
         \A n \in Nat : (\A m \in Nat : m < n => m \in S) => n \in S
  PROVE  \A n \in Nat : n \in S
<1> DEFINE rest == Nat \ S
<1>1. rest \in SUBSET Nat
  OBVIOUS
<1>2. SUFFICES ASSUME rest # {} PROVE FALSE
  OBVIOUS
<1> HIDE DEF rest
<1>3. PICK n \in rest : \A m \in rest : n <= m
  BY <1>1, <1>2, LeastNumber
<1> USE DEF rest
<1>4. \A m \in Nat : m < n => m \in S
  BY <1>3
<1> QED
  BY <1>3, <1>4

-----------------------------------------------------------------------------
(* The grammar: what its recursive definition comes to.                    *)

(* g is the grammar up to n tokens, built row by row.                      *)
Built(g, n) ==
  /\ DOMAIN g = 0..n
  /\ g[0] = [i \in {0} |-> NoRow]
  /\ \A i \in 1..n : g[i] = Longer(g[i - 1], i)

(* What is built is built in one way only.                                 *)
LEMMA BuiltSame ==
  ASSUME NEW m \in Nat, NEW n \in Nat, m <= n, NEW g, NEW h, Built(g, m), Built(h, n)
  PROVE  \A i \in 0..m : g[i] = h[i]
<1> DEFINE S == {i \in Nat : i <= m => g[i] = h[i]}
<1>1. ASSUME NEW i \in Nat, \A j \in Nat : j < i => j \in S
      PROVE  i \in S
  <2>1. CASE i = 0
    BY <2>1 DEF Built
  <2>2. CASE i > 0 /\ i <= m
    <3>1. i - 1 \in Nat /\ i - 1 < i /\ i - 1 <= m
      BY <2>2
    <3>2. g[i - 1] = h[i - 1]
      BY <1>1, <3>1
    <3>3. i \in 1..m /\ i \in 1..n
      BY <2>2
    <3>4. g[i] = Longer(g[i - 1], i) /\ h[i] = Longer(h[i - 1], i)
      BY <3>3 DEF Built
    <3> QED
      BY <3>2, <3>4
  <2> QED
    BY <2>1, <2>2
<1>2. S \in SUBSET Nat
  OBVIOUS
<1> HIDE DEF S
<1>3. \A i \in Nat : i \in S
  BY <1>1, <1>2, Inductively
<1> QED
  BY <1>3 DEF S

LEMMA BuiltExists == \A n \in Nat : \E g : Built(g, n)
<1> DEFINE S == {n \in Nat : \E g : Built(g, n)}
<1>1. ASSUME NEW n \in Nat, \A m \in Nat : m < n => m \in S
      PROVE  n \in S
  <2>1. CASE n = 0
    <3> DEFINE g == [i \in 0..0 |-> [j \in {0} |-> NoRow]]
    <3>1. Built(g, 0)
      <4>1. DOMAIN g = 0..0 /\ g[0] = [j \in {0} |-> NoRow]
        OBVIOUS
      <4> HIDE DEF g
      <4> QED
        BY <4>1 DEF Built
    <3> QED
      BY <2>1, <3>1
  <2>2. CASE n > 0
    <3>1. n - 1 \in Nat /\ n - 1 < n
      BY <2>2
    <3>2. PICK h : Built(h, n - 1)
      BY <1>1, <3>1
    <3> DEFINE g == [i \in 0..n |-> IF i = n THEN Longer(h[n - 1], n) ELSE h[i]]
    <3>3. DOMAIN g = 0..n
      OBVIOUS
    <3>4. g[0] = h[0]
      BY <2>2
    <3>5. \A i \in 1..n - 1 : g[i] = h[i] /\ g[i - 1] = h[i - 1]
      BY <2>2
    <3>6. g[n] = Longer(h[n - 1], n) /\ g[n - 1] = h[n - 1]
      BY <2>2
    <3> HIDE DEF g
    <3>7. ASSUME NEW i \in 1..n PROVE g[i] = Longer(g[i - 1], i)
      <4>1. CASE i \in 1..n - 1
        <5>1. h[i] = Longer(h[i - 1], i)
          BY <3>2, <4>1 DEF Built
        <5> QED
          BY <3>5, <4>1, <5>1
      <4>2. CASE i = n
        BY <3>6, <4>2
      <4> QED
        BY <4>1, <4>2
    <3>8. Built(g, n)
      BY <3>2, <3>3, <3>4, <3>7 DEF Built
    <3> QED
      BY <3>8
  <2> QED
    BY <2>1, <2>2
<1>2. S \in SUBSET Nat
  OBVIOUS
<1> HIDE DEF S
<1>3. \A n \in Nat : n \in S
  BY <1>1, <1>2, Inductively
<1> QED
  BY <1>3 DEF S

(* The grammar satisfies the equation that defines it.                     *)
LEMMA GrammarIs ==
  \A n \in Nat :
    Grammar[n] = IF n = 0 THEN [i \in {0} |-> NoRow] ELSE Longer(Grammar[n - 1], n)
<1> DEFINE built(n) == CHOOSE g : Built(g, n)
           G == [n \in Nat |-> built(n)[n]]
<1>1. \A n \in Nat : Built(built(n), n)
  BY BuiltExists
<1>2. ASSUME NEW n \in Nat
      PROVE  G[n] = IF n = 0 THEN [i \in {0} |-> NoRow] ELSE Longer(G[n - 1], n)
  <2>1. G[n] = built(n)[n]
    OBVIOUS
  <2> HIDE DEF built
  <2>2. CASE n = 0
    BY <1>1, <2>1, <2>2 DEF Built
  <2>3. CASE n > 0
    <3>1. n - 1 \in Nat /\ n - 1 <= n /\ n \in 1..n /\ n - 1 \in 0..n - 1
      BY <2>3
    <3>2. G[n - 1] = built(n - 1)[n - 1]
      BY <3>1
    <3>3. Built(built(n - 1), n - 1) /\ Built(built(n), n)
      BY <1>1, <3>1
    <3>4. built(n - 1)[n - 1] = built(n)[n - 1]
      BY <3>1, <3>3, BuiltSame
    <3>5. built(n)[n] = Longer(built(n)[n - 1], n)
      BY <3>1, <3>3 DEF Built
    <3> HIDE DEF G
    <3> QED
      BY <2>1, <2>3, <3>2, <3>4, <3>5
  <2> QED
    BY <2>2, <2>3
<1>3. G = [n \in Nat |-> IF n = 0 THEN [i \in {0} |-> NoRow] ELSE Longer(G[n - 1], n)]
  <2>1. DOMAIN G = Nat /\ G = [n \in Nat |-> G[n]]
    OBVIOUS
  <2> HIDE DEF G
  <2> QED
    BY <1>2, <2>1
<1> HIDE DEF G
<1>4. \E g : g = [n \in Nat |-> IF n = 0 THEN [i \in {0} |-> NoRow] ELSE Longer(g[n - 1], n)]
  BY <1>3
<1>5. Grammar = [n \in Nat |-> IF n = 0 THEN [i \in {0} |-> NoRow] ELSE Longer(Grammar[n - 1], n)]
  BY <1>4 DEF Grammar
<1> QED
  BY <1>5

(* What there is of n tokens.                                              *)
Of(n) == Grammar[n][n]

LEMMA LongerIs ==
  ASSUME NEW G, NEW n \in Nat \ {0}
  PROVE  /\ \A i \in 0..n - 1 : Longer(G, n)[i] = G[i]
         /\ Longer(G, n)[n] = Row(G, n)
<1> DEFINE row == Row(G, n)
<1> HIDE DEF row
<1>1. Longer(G, n) = [i \in 0..n |-> IF i < n THEN G[i] ELSE row]
  BY DEF Longer, row
<1>2. \A i \in 0..n - 1 : Longer(G, n)[i] = G[i]
  BY <1>1
<1>3. Longer(G, n)[n] = row
  BY <1>1
<1> QED
  BY <1>2, <1>3 DEF row

(* A longer grammar keeps what there is of fewer tokens.                   *)
LEMMA Kept ==
  ASSUME NEW n \in Nat
  PROVE  \A i \in 0..n : Grammar[n][i] = Of(i)
<1> DEFINE S == {m \in Nat : \A i \in 0..m : Grammar[m][i] = Of(i)}
<1>1. ASSUME NEW m \in Nat, \A k \in Nat : k < m => k \in S
      PROVE  m \in S
  <2>1. CASE m = 0
    BY <2>1 DEF Of
  <2>2. CASE m > 0
    <3>1. m - 1 \in Nat /\ m - 1 < m /\ m \in Nat \ {0}
      BY <2>2
    <3>2. \A i \in 0..m - 1 : Grammar[m - 1][i] = Of(i)
      BY <1>1, <3>1
    <3>3. Grammar[m] = Longer(Grammar[m - 1], m)
      BY <2>2, GrammarIs
    <3>4. \A i \in 0..m - 1 : Grammar[m][i] = Grammar[m - 1][i]
      BY <3>1, <3>3, LongerIs
    <3>5. \A i \in 0..m - 1 : Grammar[m][i] = Of(i)
      BY <3>2, <3>4
    <3>6. \A i \in 0..m : i \in 0..m - 1 \/ i = m
      BY <2>2
    <3>7. \A i \in 0..m : Grammar[m][i] = Of(i)
      BY <3>5, <3>6 DEF Of
    <3> QED
      BY <3>7
  <2> QED
    BY <2>1, <2>2
<1>2. S \in SUBSET Nat
  OBVIOUS
<1> HIDE DEF S
<1>3. n \in S
  BY <1>1, <1>2, Inductively
<1> QED
  BY <1>3 DEF S

LEMMA RowOf ==
  ASSUME NEW n \in Nat \ {0}
  PROVE  Of(n) = Row(Grammar[n - 1], n)
<1>1. Grammar[n] = Longer(Grammar[n - 1], n)
  BY GrammarIs
<1> QED
  BY <1>1, LongerIs DEF Of

LEMMA RowZero == Of(0) = NoRow
<1>1. Grammar[0] = [i \in {0} |-> NoRow]
  BY GrammarIs
<1> QED
  BY <1>1 DEF Of

(* The rules, of what is made of n tokens.                                 *)
LEMMA Rows ==
  ASSUME NEW n \in Nat \ {0}, NEW G, G = Grammar[n - 1]
  PROVE  /\ Of(n).values = Values(G, n)
         /\ Of(n).elements = Elements(G, n, Of(n).values)
         /\ Of(n).members = Members(G, n)
         /\ Of(n).begun = Begun(G, n, Of(n).values)
         /\ Of(n).memberBegun = MemberBegun(G, n)
         /\ \A i \in 0..n - 1 : G[i] = Of(i)
<1>1. Of(n) = Row(G, n)
  BY RowOf
<1>2. n - 1 \in Nat
  OBVIOUS
<1> QED
  BY <1>1, <1>2, Kept DEF Row

LEMMA Nothing ==
  /\ Of(0).values = {}
  /\ Of(0).elements = {[text |-> <<>>, items |-> <<>>]}
  /\ Of(0).members = {[text |-> <<>>, items |-> <<>>]}
  /\ Of(0).begun = {<<>>}
  /\ Of(0).memberBegun = {<<>>}
BY RowZero DEF NoRow

(* What a value is made of, and what an array, an object, the beginning of *)
(* a value and of a member are made of.                                    *)
LEMMA ValuesAre ==
  ASSUME NEW n \in Nat, NEW v
  PROVE  v \in Of(n).values <=>
           \/ n = 1 /\ \E t \in Simple : v = Single(t)
           \/ n > 1 /\ \E e \in Of(n - 2).elements : v = Container("array", e)
           \/ n > 1 /\ \E l \in Of(n - 2).members : v = Container("object", l)
<1>1. CASE n = 0
  BY <1>1, Nothing
<1>2. CASE n > 0
  <2>1. n \in Nat \ {0}
    BY <1>2
  <2>2. PICK G : G = Grammar[n - 1]
    OBVIOUS
  <2>3. Of(n).values = Values(G, n)
    BY <2>1, <2>2, Rows
  <2>4. n > 1 => G[n - 2] = Of(n - 2)
    <3>1. n > 1 => n - 2 \in 0..n - 1
      OBVIOUS
    <3> QED
      BY <2>1, <2>2, <3>1, Rows
  <2> QED
    BY <2>1, <2>3, <2>4 DEF Values
<1> QED
  BY <1>1, <1>2

LEMMA ElementsAre ==
  ASSUME NEW n \in Nat, NEW e
  PROVE  e \in Of(n).elements <=>
           \/ n = 0 /\ e = [text |-> <<>>, items |-> <<>>]
           \/ \E v \in Of(n).values : e = Element(v)
           \/ \E i \in 1..n - 2 : \E a \in Of(i).elements, v \in Of(n - 1 - i).values :
                e = AndElement(a, v)
<1>1. CASE n = 0
  BY <1>1, Nothing
<1>2. CASE n > 0
  <2>1. n \in Nat \ {0}
    BY <1>2
  <2>2. PICK G : G = Grammar[n - 1]
    OBVIOUS
  <2>3. Of(n).elements = Elements(G, n, Of(n).values)
    BY <2>1, <2>2, Rows
  <2>4. \A i \in 1..n - 2 : G[i] = Of(i) /\ G[n - 1 - i] = Of(n - 1 - i)
    <3>1. \A i \in 1..n - 2 : i \in 0..n - 1 /\ n - 1 - i \in 0..n - 1
      BY <2>1
    <3> QED
      BY <2>1, <2>2, <3>1, Rows
  <2>5. PICK V : V = Of(n).values
    OBVIOUS
  <2>6. e \in Elements(G, n, V) <=>
          \/ \E v \in V : e = Element(v)
          \/ \E i \in 1..n - 2 : \E a \in G[i].elements, v \in G[n - 1 - i].values :
                e = AndElement(a, v)
    BY DEF Elements
  <2> QED
    BY <2>1, <2>3, <2>4, <2>5, <2>6
<1> QED
  BY <1>1, <1>2

LEMMA MembersAre ==
  ASSUME NEW n \in Nat, NEW l
  PROVE  l \in Of(n).members <=>
           \/ n = 0 /\ l = [text |-> <<>>, items |-> <<>>]
           \/ n > 2 /\ \E k \in Strings, v \in Of(n - 2).values : l = Member(k, v)
           \/ \E i \in 1..n - 4 :
                \E a \in Of(i).members, k \in Strings, v \in Of(n - 3 - i).values :
                  l = AndMember(a, k, v)
<1>1. CASE n = 0
  BY <1>1, Nothing
<1>2. CASE n > 0
  <2>1. n \in Nat \ {0}
    BY <1>2
  <2>2. PICK G : G = Grammar[n - 1]
    OBVIOUS
  <2>3. Of(n).members = Members(G, n)
    BY <2>1, <2>2, Rows
  <2>4. \A i \in 1..n - 4 : G[i] = Of(i) /\ G[n - 3 - i] = Of(n - 3 - i)
    <3>1. \A i \in 1..n - 4 : i \in 0..n - 1 /\ n - 3 - i \in 0..n - 1
      BY <2>1
    <3> QED
      BY <2>1, <2>2, <3>1, Rows
  <2>5. n > 2 => G[n - 2] = Of(n - 2)
    <3>1. n > 2 => n - 2 \in 0..n - 1
      OBVIOUS
    <3> QED
      BY <2>1, <2>2, <3>1, Rows
  <2> QED
    BY <2>1, <2>3, <2>4, <2>5 DEF Members
<1> QED
  BY <1>1, <1>2

(* What begins the inside of an array, and of an object.                   *)
BeginsInArray(n, p) ==
  \/ p \in Of(n).begun
  \/ \E i \in 1..n - 1 : \E e \in Of(i).elements, r \in Of(n - 1 - i).begun :
       p = Further(e, r)

BeginsInObject(n, p) ==
  \/ p \in Of(n).memberBegun
  \/ \E i \in 1..n - 1 : \E l \in Of(i).members, r \in Of(n - 1 - i).memberBegun :
       p = Further(l, r)

LEMMA InsidesAre ==
  ASSUME NEW n \in Nat, NEW G, \A i \in 0..n : G[i] = Of(i), NEW p
  PROVE  /\ p \in ElementsBegun(G, n) <=> BeginsInArray(n, p)
         /\ p \in MembersBegun(G, n) <=> BeginsInObject(n, p)
<1>1. \A i \in 1..n - 1 : i \in 0..n /\ n - 1 - i \in 0..n
  OBVIOUS
<1>2. \A i \in 1..n - 1 : G[i] = Of(i) /\ G[n - 1 - i] = Of(n - 1 - i)
  BY <1>1
<1>3. G[n] = Of(n)
  OBVIOUS
<1>4. p \in ElementsBegun(G, n) <=> BeginsInArray(n, p)
  BY <1>2, <1>3 DEF ElementsBegun, BeginsInArray
<1>5. p \in MembersBegun(G, n) <=> BeginsInObject(n, p)
  BY <1>2, <1>3 DEF MembersBegun, BeginsInObject
<1> QED
  BY <1>4, <1>5

LEMMA BegunAre ==
  ASSUME NEW n \in Nat, NEW p
  PROVE  p \in Of(n).begun <=>
           \/ n = 0 /\ p = <<>>
           \/ \E v \in Of(n).values : p = v.text
           \/ n > 0 /\ \E r : BeginsInArray(n - 1, r) /\ p = Opened("array", r)
           \/ n > 0 /\ \E r : BeginsInObject(n - 1, r) /\ p = Opened("object", r)
<1>1. CASE n = 0
  BY <1>1, Nothing
<1>2. CASE n > 0
  <2>1. n \in Nat \ {0} /\ n - 1 \in Nat
    BY <1>2
  <2>2. PICK G : G = Grammar[n - 1]
    OBVIOUS
  <2>3. /\ Of(n).begun = Begun(G, n, Of(n).values)
        /\ \A i \in 0..n - 1 : G[i] = Of(i)
    BY <2>1, <2>2, Rows
  <2>4. \A r : /\ r \in ElementsBegun(G, n - 1) <=> BeginsInArray(n - 1, r)
               /\ r \in MembersBegun(G, n - 1) <=> BeginsInObject(n - 1, r)
    BY <2>1, <2>3, InsidesAre
  <2>5. PICK V : V = Of(n).values
    OBVIOUS
  <2>6. p \in Begun(G, n, V) <=>
          \/ \E v \in V : p = v.text
          \/ \E r \in ElementsBegun(G, n - 1) : p = Opened("array", r)
          \/ \E r \in MembersBegun(G, n - 1) : p = Opened("object", r)
    BY DEF Begun
  <2>7. (\E r \in ElementsBegun(G, n - 1) : p = Opened("array", r))
          <=> \E r : BeginsInArray(n - 1, r) /\ p = Opened("array", r)
    BY <2>4
  <2>8. (\E r \in MembersBegun(G, n - 1) : p = Opened("object", r))
          <=> \E r : BeginsInObject(n - 1, r) /\ p = Opened("object", r)
    BY <2>4
  <2>9. p \in Of(n).begun <=> p \in Begun(G, n, V)
    BY <2>3, <2>5
  <2>10. n # 0 /\ n > 0
    BY <1>2
  <2> QED
    BY <2>5, <2>6, <2>7, <2>8, <2>9, <2>10, Zenon
<1>3. n = 0 \/ n > 0
  OBVIOUS
<1> QED
  BY <1>1, <1>2, <1>3, Zenon

LEMMA MemberBegunAre ==
  ASSUME NEW n \in Nat, NEW p
  PROVE  p \in Of(n).memberBegun <=>
           \/ n = 0 /\ p = <<>>
           \/ n = 1 /\ \E k \in Strings : p = Str(k)
           \/ n > 1 /\ \E k \in Strings, r \in Of(n - 2).begun : p = Named(k, r)
<1>1. CASE n = 0
  BY <1>1, Nothing
<1>2. CASE n > 0
  <2>1. n \in Nat \ {0}
    BY <1>2
  <2>2. PICK G : G = Grammar[n - 1]
    OBVIOUS
  <2>3. Of(n).memberBegun = MemberBegun(G, n)
    BY <2>1, <2>2, Rows
  <2>4. n > 1 => G[n - 2] = Of(n - 2)
    <3>1. n > 1 => n - 2 \in 0..n - 1
      OBVIOUS
    <3> QED
      BY <2>1, <2>2, <3>1, Rows
  <2> QED
    BY <2>1, <2>3, <2>4 DEF MemberBegun
<1> QED
  BY <1>1, <1>2

-----------------------------------------------------------------------------
(* Texts, and where they are read.                                         *)

(* The text stands in s behind token i.                                    *)
Reads(s, i, text) == \A x \in 1..Len(text) : s[i + x] = text[x]

(* Of two texts, one behind the other: what they are and where they are    *)
(* read.                                                                   *)
LEMMA Joined ==
  ASSUME NEW a \in Seq(Tokens), NEW b \in Seq(Tokens), NEW s, NEW i \in Nat
  PROVE  /\ a \o b \in Seq(Tokens)
         /\ Len(a) \in Nat /\ Len(b) \in Nat
         /\ Len(a \o b) = Len(a) + Len(b)
         /\ Reads(s, i, a \o b) <=> Reads(s, i, a) /\ Reads(s, i + Len(a), b)
<1>1. /\ a \o b \in Seq(Tokens)
      /\ Len(a) \in Nat /\ Len(b) \in Nat
      /\ Len(a \o b) = Len(a) + Len(b)
      /\ \A x \in 1..Len(a) : (a \o b)[x] = a[x]
      /\ \A x \in 1..Len(b) : (a \o b)[Len(a) + x] = b[x]
  OBVIOUS
<1> DEFINE c == a \o b
           m == Len(a)
           n == Len(b)
<1> HIDE DEF c, m, n
<1>2. /\ m \in Nat /\ n \in Nat /\ Len(c) = m + n
      /\ \A x \in 1..m : c[x] = a[x]
      /\ \A x \in 1..n : c[m + x] = b[x]
  BY <1>1 DEF c, m, n
<1>3. ASSUME Reads(s, i, c) PROVE Reads(s, i, a) /\ Reads(s, i + m, b)
  <2>1. \A x \in 1..m : s[i + x] = a[x]
    <3>1. \A x \in 1..m : x \in 1..m + n
      BY <1>2
    <3> QED
      BY <1>2, <1>3, <3>1 DEF Reads
  <2>2. ASSUME NEW x \in 1..n PROVE s[i + m + x] = b[x]
    <3>1. m + x \in 1..m + n /\ i + (m + x) = i + m + x
      BY <1>2
    <3>2. s[i + (m + x)] = c[m + x]
      BY <1>2, <1>3, <3>1 DEF Reads
    <3> QED
      BY <1>2, <3>1, <3>2
  <2> QED
    BY <2>1, <2>2 DEF Reads, m, n
<1>4. ASSUME Reads(s, i, a), Reads(s, i + m, b) PROVE Reads(s, i, c)
  <2>1. ASSUME NEW x \in 1..m + n PROVE s[i + x] = c[x]
    <3>1. CASE x <= m
      <4>1. x \in 1..m
        BY <1>2, <3>1
      <4> QED
        BY <1>2, <1>4, <4>1 DEF Reads, m
    <3>2. CASE x > m
      <4>1. x - m \in 1..n /\ m + (x - m) = x /\ i + m + (x - m) = i + x
        BY <1>2, <3>2
      <4>2. s[i + m + (x - m)] = b[x - m]
        BY <1>4, <4>1 DEF Reads, n
      <4>3. c[m + (x - m)] = b[x - m]
        BY <1>2, <4>1
      <4> QED
        BY <4>1, <4>2, <4>3
    <3> QED
      BY <1>2, <3>1, <3>2
  <2> QED
    BY <1>2, <2>1 DEF Reads
<1> QED
  BY <1>1, <1>3, <1>4 DEF c, m, n

LEMMA OneToken ==
  ASSUME NEW t \in Tokens, NEW s, NEW i \in Nat
  PROVE  /\ <<t>> \in Seq(Tokens)
         /\ Len(<<t>>) = 1
         /\ Reads(s, i, <<t>>) <=> s[i + 1] = t
<1>1. <<t>> \in Seq(Tokens) /\ Len(<<t>>) = 1 /\ <<t>>[1] = t
  OBVIOUS
<1> QED
  BY <1>1 DEF Reads

LEMMA MarkText ==
  ASSUME NEW m \in Marks, NEW s, NEW i \in Nat
  PROVE  /\ M(m) \in Seq(Tokens)
         /\ Len(M(m)) = 1
         /\ Reads(s, i, M(m)) <=> s[i + 1] = Mark(m)
<1>1. Mark(m) \in Tokens
  BY DEF Tokens
<1> QED
  BY <1>1, OneToken DEF M

(* The token of a key.                                                     *)
KeyToken(k) == [kind |-> "string", says |-> k]

LEMMA StrText ==
  ASSUME NEW k \in Strings, NEW s, NEW i \in Nat
  PROVE  /\ Str(k) \in Seq(Tokens)
         /\ Len(Str(k)) = 1
         /\ Reads(s, i, Str(k)) <=> s[i + 1] = KeyToken(k)
<1>1. KeyToken(k) \in Tokens
  BY DEF Tokens, KeyToken
<1> QED
  BY <1>1, OneToken DEF Str, KeyToken

LEMMA BracketMarks ==
  ASSUME NEW type \in Containers
  PROVE  Opening[type] \in Marks /\ Closing[type] \in Marks
<1>1. type = "array" \/ type = "object"
  BY DEF Containers
<1>2. /\ Opening["array"] = "[" /\ Closing["array"] = "]"
      /\ Opening["object"] = "{" /\ Closing["object"] = "}"
  BY DEF Opening, Closing
<1>3. {"[", "]", "{", "}"} \subseteq Marks
  BY DEF Marks
<1> QED
  BY <1>1, <1>2, <1>3, Zenon

(* The same of what the rules make of a text.                              *)
LEMMA OpenedText ==
  ASSUME NEW type \in Containers, NEW a \in Seq(Tokens), NEW s, NEW i \in Nat
  PROVE  /\ Opened(type, a) \in Seq(Tokens)
         /\ Len(a) \in Nat
         /\ Len(Opened(type, a)) = 1 + Len(a)
         /\ Reads(s, i, Opened(type, a)) <=>
              s[i + 1] = Mark(Opening[type]) /\ Reads(s, i + 1, a)
<1>1. PICK m \in Marks : m = Opening[type]
  BY BracketMarks
<1>2. /\ M(m) \in Seq(Tokens) /\ Len(M(m)) = 1
      /\ Reads(s, i, M(m)) <=> s[i + 1] = Mark(m)
  BY MarkText
<1>3. PICK b : b = M(m)
  OBVIOUS
<1>4. /\ b \o a \in Seq(Tokens) /\ Len(a) \in Nat /\ Len(b \o a) = Len(b) + Len(a)
      /\ Reads(s, i, b \o a) <=> Reads(s, i, b) /\ Reads(s, i + Len(b), a)
  BY <1>2, <1>3, Joined
<1>5. Opened(type, a) = b \o a
  BY <1>1, <1>3 DEF Opened
<1> QED
  BY <1>1, <1>2, <1>3, <1>4, <1>5

LEMMA ClosedText ==
  ASSUME NEW m \in Marks, NEW a \in Seq(Tokens), NEW s, NEW i \in Nat
  PROVE  /\ a \o M(m) \in Seq(Tokens)
         /\ Len(a) \in Nat
         /\ Len(a \o M(m)) = Len(a) + 1
         /\ Reads(s, i, a \o M(m)) <=> Reads(s, i, a) /\ s[i + Len(a) + 1] = Mark(m)
<1>1. M(m) \in Seq(Tokens) /\ Len(M(m)) = 1
  BY MarkText
<1>2. Len(a) \in Nat /\ i + Len(a) \in Nat
  OBVIOUS
<1>3. Reads(s, i + Len(a), M(m)) <=> s[i + Len(a) + 1] = Mark(m)
  BY <1>2, MarkText
<1> QED
  BY <1>1, <1>2, <1>3, Joined

LEMMA ContainerText ==
  ASSUME NEW type \in Containers, NEW l, l.text \in Seq(Tokens), NEW s, NEW i \in Nat
  PROVE  /\ Container(type, l).text \in Seq(Tokens)
         /\ Len(l.text) \in Nat
         /\ Len(Container(type, l).text) = Len(l.text) + 2
         /\ Reads(s, i, Container(type, l).text) <=>
              /\ s[i + 1] = Mark(Opening[type])
              /\ Reads(s, i + 1, l.text)
              /\ s[i + Len(l.text) + 2] = Mark(Closing[type])
<1>1. PICK b : b = l.text \o M(Closing[type])
  OBVIOUS
<1>2. PICK n \in Nat : n = Len(l.text)
  OBVIOUS
<1>3. /\ b \in Seq(Tokens) /\ Len(b) = n + 1
      /\ Reads(s, i + 1, b) <=>
           Reads(s, i + 1, l.text) /\ s[i + 1 + n + 1] = Mark(Closing[type])
  <2>1. PICK m \in Marks : m = Closing[type]
    BY BracketMarks
  <2>2. PICK j \in Nat : j = i + 1
    OBVIOUS
  <2>3. /\ b \in Seq(Tokens) /\ Len(b) = n + 1
        /\ Reads(s, j, b) <=> Reads(s, j, l.text) /\ s[j + n + 1] = Mark(Closing[type])
    <3>1. PICK a \in Seq(Tokens) : a = l.text
      OBVIOUS
    <3>2. b = a \o M(m) /\ n = Len(a)
      BY <1>1, <1>2, <2>1, <3>1
    <3>3. /\ a \o M(m) \in Seq(Tokens) /\ Len(a \o M(m)) = Len(a) + 1
          /\ Reads(s, j, a \o M(m)) <=> Reads(s, j, a) /\ s[j + Len(a) + 1] = Mark(m)
      BY ClosedText
    <3> QED
      BY <2>1, <3>1, <3>2, <3>3
  <2> QED
    BY <2>2, <2>3
<1>4. i + 1 + n + 1 = i + n + 2 /\ 1 + (n + 1) = n + 2
  OBVIOUS
<1>5. Container(type, l).text = Opened(type, b)
  BY <1>1 DEF Container
<1>6. /\ Opened(type, b) \in Seq(Tokens)
      /\ Len(Opened(type, b)) = 1 + Len(b)
      /\ Reads(s, i, Opened(type, b)) <=>
           s[i + 1] = Mark(Opening[type]) /\ Reads(s, i + 1, b)
  BY <1>3, OpenedText
<1> QED
  BY <1>2, <1>3, <1>4, <1>5, <1>6

LEMMA FurtherText ==
  ASSUME NEW l, l.text \in Seq(Tokens), NEW a \in Seq(Tokens), NEW s, NEW i \in Nat
  PROVE  /\ Further(l, a) \in Seq(Tokens)
         /\ Len(l.text) \in Nat /\ Len(a) \in Nat
         /\ Len(Further(l, a)) = Len(l.text) + 1 + Len(a)
         /\ Reads(s, i, Further(l, a)) <=>
              /\ Reads(s, i, l.text)
              /\ s[i + Len(l.text) + 1] = Mark(",")
              /\ Reads(s, i + Len(l.text) + 1, a)
<1>1. PICK b : b = l.text \o M(",")
  OBVIOUS
<1>2. PICK n \in Nat : n = Len(l.text)
  OBVIOUS
<1>3. /\ b \in Seq(Tokens) /\ Len(b) = n + 1
      /\ Reads(s, i, b) <=> Reads(s, i, l.text) /\ s[i + n + 1] = Mark(",")
  <2>1. "," \in Marks
    BY DEF Marks
  <2> QED
    BY <1>1, <1>2, <2>1, ClosedText
<1>4. /\ b \o a \in Seq(Tokens) /\ Len(a) \in Nat /\ Len(b \o a) = Len(b) + Len(a)
      /\ Reads(s, i, b \o a) <=> Reads(s, i, b) /\ Reads(s, i + Len(b), a)
  BY <1>3, Joined
<1>5. i + (n + 1) = i + n + 1
  OBVIOUS
<1>6. Further(l, a) = b \o a
  BY <1>1 DEF Further
<1> QED
  BY <1>2, <1>3, <1>4, <1>5, <1>6

LEMMA NamedText ==
  ASSUME NEW k \in Strings, NEW a \in Seq(Tokens), NEW s, NEW i \in Nat
  PROVE  /\ Named(k, a) \in Seq(Tokens)
         /\ Len(a) \in Nat
         /\ Len(Named(k, a)) = 2 + Len(a)
         /\ Reads(s, i, Named(k, a)) <=>
              s[i + 1] = KeyToken(k) /\ s[i + 2] = Mark(":") /\ Reads(s, i + 2, a)
<1>1. PICK b : b = Str(k) \o M(":")
  OBVIOUS
<1>2. ":" \in Marks
  BY DEF Marks
<1>3. /\ Str(k) \in Seq(Tokens) /\ Len(Str(k)) = 1
      /\ Reads(s, i, Str(k)) <=> s[i + 1] = KeyToken(k)
  BY StrText
<1>4. i + 1 + 1 = i + 2
  OBVIOUS
<1>5. /\ b \in Seq(Tokens) /\ Len(b) = 2
      /\ Reads(s, i, b) <=> s[i + 1] = KeyToken(k) /\ s[i + 2] = Mark(":")
  <2>1. PICK a1 \in Seq(Tokens) : a1 = Str(k) /\ Len(a1) = 1
    BY <1>3
  <2>2. PICK m \in Marks : m = ":"
    BY <1>2
  <2>3. /\ b \in Seq(Tokens) /\ Len(b) = Len(a1) + 1
        /\ Reads(s, i, b) <=> Reads(s, i, a1) /\ s[i + Len(a1) + 1] = Mark(m)
    <3>1. b = a1 \o M(m)
      BY <1>1, <2>1, <2>2
    <3> QED
      BY <3>1, ClosedText
  <2>4. \A n \in Nat : n = 1 => i + n + 1 = i + 2
    OBVIOUS
  <2>5. i + Len(a1) + 1 = i + 2
    BY <2>1, <2>4
  <2>6. Len(b) = 2
    BY <2>1, <2>3
  <2> QED
    BY <1>3, <2>1, <2>2, <2>3, <2>5, <2>6
<1>6. Named(k, a) = b \o a
  BY <1>1 DEF Named
<1>7. /\ b \o a \in Seq(Tokens) /\ Len(a) \in Nat /\ Len(b \o a) = Len(b) + Len(a)
      /\ Reads(s, i, b \o a) <=> Reads(s, i, b) /\ Reads(s, i + Len(b), a)
  BY <1>5, Joined
<1> QED
  BY <1>5, <1>6, <1>7

-----------------------------------------------------------------------------
(* The documents the rules make.                                           *)

(* The documents, and the steps of the paths in them.                      *)
Docs == UNION {[D -> Nodes] : D \in SUBSET Paths}

Steps == Strings \cup Nat

LEMMA DocIs ==
  ASSUME NEW d
  PROVE  d \in Docs <=>
           /\ d = [q \in DOMAIN d |-> d[q]]
           /\ DOMAIN d \subseteq Paths
           /\ \A q \in DOMAIN d : d[q] \in Nodes
<1>1. ASSUME d \in Docs
      PROVE  /\ d = [q \in DOMAIN d |-> d[q]]
             /\ DOMAIN d \subseteq Paths
             /\ \A q \in DOMAIN d : d[q] \in Nodes
  <2>1. PICK D \in SUBSET Paths : d \in [D -> Nodes]
    BY <1>1 DEF Docs
  <2> QED
    BY <2>1
<1>2. ASSUME d = [q \in DOMAIN d |-> d[q]], DOMAIN d \subseteq Paths,
             \A q \in DOMAIN d : d[q] \in Nodes
      PROVE  d \in Docs
  <2>1. d \in [DOMAIN d -> Nodes]
    BY <1>2
  <2> QED
    BY <1>2, <2>1 DEF Docs
<1> QED
  BY <1>1, <1>2

LEMMA LeafIs ==
  ASSUME NEW node \in Nodes
  PROVE  /\ Leaf(node) \in Docs
         /\ DOMAIN Leaf(node) = {<<>>}
         /\ Leaf(node)[<<>>] = node
<1>1. DOMAIN Leaf(node) = {<<>>} /\ Leaf(node)[<<>>] = node /\ Leaf(node) \in [{<<>>} -> Nodes]
  BY DEF Leaf
<1>2. {<<>>} \in SUBSET Paths
  BY DEF Paths
<1> QED
  BY <1>1, <1>2 DEF Docs

LEMMA Prefixed ==
  ASSUME NEW s \in Steps, NEW p \in Paths
  PROVE  /\ <<s>> \o p \in Paths
         /\ <<s>> \o p # <<>>
         /\ Head(<<s>> \o p) = s
         /\ Tail(<<s>> \o p) = p
<1>1. /\ <<s>> \in Seq(Steps) /\ p \in Seq(Steps)
      /\ Len(<<s>>) = 1 /\ <<s>>[1] = s
  BY DEF Paths, Steps
<1> DEFINE q == <<s>> \o p
<1>2. /\ q \in Seq(Steps) /\ Len(p) \in Nat /\ Len(q) = 1 + Len(p)
      /\ q[1] = s
      /\ \A i \in 1..Len(p) : q[1 + i] = p[i]
  BY <1>1
<1> HIDE DEF q
<1>3. q # <<>> /\ Head(q) = s
  BY <1>2
<1>4. Tail(q) = p
  <2>1. Tail(q) \in Seq(Steps) /\ Len(Tail(q)) = Len(p)
    BY <1>2, <1>3
  <2>2. \A i \in 1..Len(p) : Tail(q)[i] = p[i]
    <3>1. \A i \in 1..Len(p) : Tail(q)[i] = q[i + 1] /\ i + 1 = 1 + i
      BY <1>2, <1>3
    <3> QED
      BY <1>2, <3>1
  <2> QED
    BY <1>1, <2>1, <2>2
<1> QED
  BY <1>2, <1>3, <1>4 DEF q, Paths, Steps

(* d is the container of that type, with the documents inner[y] in it.     *)
Glued(type, inner, d) ==
  /\ d \in Docs
  /\ <<>> \in DOMAIN d
  /\ d[<<>>] = type
  /\ \A y \in DOMAIN inner : \A p \in DOMAIN inner[y] :
       <<y>> \o p \in DOMAIN d /\ d[<<y>> \o p] = inner[y][p]
  /\ \A q \in DOMAIN d \ {<<>>} :
       \E y \in DOMAIN inner : \E p \in DOMAIN inner[y] : q = <<y>> \o p

(* Glue makes a document: its nodes are the container and those of the     *)
(* documents in it, one step further in.                                   *)
LEMMA GlueIs ==
  ASSUME NEW type \in Containers, NEW inner, DOMAIN inner \subseteq Steps,
         \A s \in DOMAIN inner : inner[s] \in Docs
  PROVE  Glued(type, inner, Glue(type, inner))
<1> DEFINE D == {<<>>} \cup UNION {{<<s>> \o p : p \in DOMAIN inner[s]} : s \in DOMAIN inner}
           value(q) == IF q = <<>> THEN type ELSE inner[Head(q)][Tail(q)]
<1>1. \A s \in DOMAIN inner : s \in Steps /\ DOMAIN inner[s] \subseteq Paths
  BY DocIs
<1>2. \A s \in DOMAIN inner : \A p \in DOMAIN inner[s] :
        /\ <<s>> \o p \in D
        /\ <<s>> \o p \in Paths
        /\ <<s>> \o p # <<>>
        /\ value(<<s>> \o p) = inner[s][p]
  <2>1. ASSUME NEW s \in DOMAIN inner, NEW p \in DOMAIN inner[s]
        PROVE  /\ <<s>> \o p \in D
               /\ <<s>> \o p \in Paths
               /\ <<s>> \o p # <<>>
               /\ value(<<s>> \o p) = inner[s][p]
    <3>1. PICK q : q = <<s>> \o p
      OBVIOUS
    <3>2. q \in Paths /\ q # <<>> /\ Head(q) = s /\ Tail(q) = p
      BY <1>1, <3>1, Prefixed
    <3>3. q \in D
      BY <3>1
    <3>4. value(q) = inner[s][p]
      BY <3>2
    <3> QED
      BY <3>1, <3>2, <3>3, <3>4
  <2> QED
    BY <2>1
<1>3. \A q \in D \ {<<>>} : \E s \in DOMAIN inner : \E p \in DOMAIN inner[s] : q = <<s>> \o p
  OBVIOUS
<1>4. <<>> \in D /\ <<>> \in Paths /\ value(<<>>) = type
  BY DEF Paths
<1>5. Glue(type, inner) = [q \in D |-> value(q)]
  BY DEF Glue
<1> HIDE DEF D
<1>6. \A q \in D : q \in Paths /\ value(q) \in Nodes
  <2>1. ASSUME NEW q \in D, q # <<>> PROVE q \in Paths /\ value(q) \in Nodes
    <3>1. PICK s \in DOMAIN inner : \E p \in DOMAIN inner[s] : q = <<s>> \o p
      BY <1>3, <2>1
    <3>2. PICK p \in DOMAIN inner[s] : q = <<s>> \o p
      BY <3>1
    <3>3. inner[s][p] \in Nodes
      BY DocIs
    <3> QED
      BY <1>2, <3>2, <3>3
  <2>2. type \in Nodes
    BY DEF Nodes
  <2> QED
    BY <1>4, <2>1, <2>2
<1> HIDE DEF value
<1>7. Glue(type, inner) \in [D -> Nodes] /\ D \in SUBSET Paths
  BY <1>5, <1>6
<1>8. Glue(type, inner) \in Docs
  BY <1>7 DEF Docs
<1>9. PICK d : d = Glue(type, inner)
  OBVIOUS
<1>10. d \in Docs /\ DOMAIN d = D /\ \A q \in D : d[q] = value(q)
  BY <1>5, <1>8, <1>9
<1>11. Glued(type, inner, d)
  BY <1>2, <1>3, <1>4, <1>10 DEF Glued
<1> QED
  BY <1>9, <1>11

(* The texts of n tokens are n tokens, and the documents are documents.    *)
Typed(n) ==
  /\ \A v \in Of(n).values :
       /\ v.text \in Seq(Tokens) /\ Len(v.text) = n
       /\ v.tree \in Docs
       /\ v = [text |-> v.text, tree |-> v.tree]
  /\ \A e \in Of(n).elements :
       /\ e.text \in Seq(Tokens) /\ Len(e.text) = n
       /\ e.items \in Seq(Docs)
  /\ \A l \in Of(n).members :
       /\ l.text \in Seq(Tokens) /\ Len(l.text) = n
       /\ DOMAIN l.items \subseteq Strings
       /\ \A k \in DOMAIN l.items : l.items[k] \in Docs
  /\ \A p \in Of(n).begun \cup Of(n).memberBegun : p \in Seq(Tokens) /\ Len(p) = n

LEMMA SingleIs ==
  ASSUME NEW t \in Simple
  PROVE  t \in Tokens /\ t.says \in Nodes
BY DEF Simple, Tokens, Nodes

(* By induction over the number of tokens.                                 *)
LEMMA AllTyped == \A n \in Nat : Typed(n)
<1> DEFINE S == {n \in Nat : Typed(n)}
<1>1. ASSUME NEW n \in Nat, \A m \in Nat : m < n => m \in S
      PROVE  Typed(n)
  <2>1. \A m \in Nat : m < n => Typed(m)
    BY <1>1
  <2>2. ASSUME NEW v \in Of(n).values
        PROVE  /\ v.text \in Seq(Tokens) /\ Len(v.text) = n
               /\ v.tree \in Docs
               /\ v = [text |-> v.text, tree |-> v.tree]
    <3>1. CASE n = 1 /\ \E t \in Simple : v = Single(t)
      <4>1. PICK t \in Simple : v = Single(t)
        BY <3>1
      <4>2. v.text = <<t>> /\ v.tree = Leaf(t.says) /\ v = [text |-> v.text, tree |-> v.tree]
        BY <4>1 DEF Single
      <4> QED
        BY <3>1, <4>2, SingleIs, OneToken, LeafIs
    <3>2. CASE n > 1 /\ \E e \in Of(n - 2).elements : v = Container("array", e)
      <4>1. PICK e \in Of(n - 2).elements : v = Container("array", e)
        BY <3>2
      <4>2. /\ e.text \in Seq(Tokens) /\ Len(e.text) = n - 2
            /\ DOMAIN e.items \subseteq Steps
            /\ \A k \in DOMAIN e.items : e.items[k] \in Docs
        BY <2>1, <3>2 DEF Typed, Steps
      <4>3. "array" \in Containers /\ n - 2 + 2 = n
        BY DEF Containers
      <4>4. v.text \in Seq(Tokens) /\ Len(v.text) = n
        BY <4>1, <4>2, <4>3, ContainerText
      <4>5. v.tree = Glue("array", e.items) /\ v = [text |-> v.text, tree |-> v.tree]
        BY <4>1 DEF Container
      <4>6. v.tree \in Docs
        BY <4>2, <4>3, <4>5, GlueIs DEF Glued
      <4> QED
        BY <4>4, <4>5, <4>6
    <3>3. CASE n > 1 /\ \E l \in Of(n - 2).members : v = Container("object", l)
      <4>1. PICK l \in Of(n - 2).members : v = Container("object", l)
        BY <3>3
      <4>2. /\ l.text \in Seq(Tokens) /\ Len(l.text) = n - 2
            /\ DOMAIN l.items \subseteq Steps
            /\ \A k \in DOMAIN l.items : l.items[k] \in Docs
        BY <2>1, <3>3 DEF Typed, Steps
      <4>3. "object" \in Containers /\ n - 2 + 2 = n
        BY DEF Containers
      <4>4. v.text \in Seq(Tokens) /\ Len(v.text) = n
        BY <4>1, <4>2, <4>3, ContainerText
      <4>5. v.tree = Glue("object", l.items) /\ v = [text |-> v.text, tree |-> v.tree]
        BY <4>1 DEF Container
      <4>6. v.tree \in Docs
        BY <4>2, <4>3, <4>5, GlueIs DEF Glued
      <4> QED
        BY <4>4, <4>5, <4>6
    <3> QED
      BY <3>1, <3>2, <3>3, ValuesAre
  <2>3. ASSUME NEW e \in Of(n).elements
        PROVE  e.text \in Seq(Tokens) /\ Len(e.text) = n /\ e.items \in Seq(Docs)
    <3>1. CASE n = 0 /\ e = [text |-> <<>>, items |-> <<>>]
      BY <3>1
    <3>2. CASE \E v \in Of(n).values : e = Element(v)
      <4>1. PICK v \in Of(n).values : e = Element(v)
        BY <3>2
      <4>2. e.text = v.text /\ e.items = <<v.tree>>
        BY <4>1 DEF Element
      <4> QED
        BY <2>2, <4>2
    <3>3. CASE \E i \in 1..n - 2 : \E a \in Of(i).elements, v \in Of(n - 1 - i).values :
                 e = AndElement(a, v)
      <4>1. PICK i \in 1..n - 2 : \E a \in Of(i).elements, v \in Of(n - 1 - i).values :
                 e = AndElement(a, v)
        BY <3>3
      <4>2. PICK a \in Of(i).elements, v \in Of(n - 1 - i).values : e = AndElement(a, v)
        BY <4>1
      <4>3. e.text = Further(a, v.text) /\ e.items = Append(a.items, v.tree)
        BY <4>2 DEF AndElement
      <4>4. i \in Nat /\ i < n /\ n - 1 - i \in Nat /\ n - 1 - i < n
        OBVIOUS
      <4>5. /\ a.text \in Seq(Tokens) /\ Len(a.text) = i /\ a.items \in Seq(Docs)
            /\ v.text \in Seq(Tokens) /\ Len(v.text) = n - 1 - i /\ v.tree \in Docs
        BY <2>1, <4>4 DEF Typed
      <4>6. e.text \in Seq(Tokens) /\ Len(e.text) = i + 1 + (n - 1 - i)
        BY <4>3, <4>5, FurtherText
      <4> QED
        BY <4>3, <4>4, <4>5, <4>6
    <3> QED
      BY <3>1, <3>2, <3>3, ElementsAre
  <2>4. ASSUME NEW l \in Of(n).members
        PROVE  /\ l.text \in Seq(Tokens) /\ Len(l.text) = n
               /\ DOMAIN l.items \subseteq Strings
               /\ \A k \in DOMAIN l.items : l.items[k] \in Docs
    <3>1. CASE n = 0 /\ l = [text |-> <<>>, items |-> <<>>]
      BY <3>1
    <3>2. CASE n > 2 /\ \E k \in Strings, v \in Of(n - 2).values : l = Member(k, v)
      <4>1. PICK k \in Strings, v \in Of(n - 2).values : l = Member(k, v)
        BY <3>2
      <4>2. l.text = Named(k, v.text) /\ l.items = With(<<>>, k, v.tree)
        BY <4>1 DEF Member
      <4>3. v.text \in Seq(Tokens) /\ Len(v.text) = n - 2 /\ v.tree \in Docs
        BY <2>1, <3>2 DEF Typed
      <4>4. l.text \in Seq(Tokens) /\ Len(l.text) = n
        BY <3>2, <4>2, <4>3, NamedText
      <4>5. DOMAIN <<>> = {}
        OBVIOUS
      <4>6. DOMAIN l.items = {k} /\ l.items[k] = v.tree
        <5>1. PICK w : w = With(<<>>, k, v.tree)
          OBVIOUS
        <5>2. DOMAIN w = DOMAIN <<>> \cup {k} /\ w[k] = v.tree
          BY <5>1 DEF With
        <5> QED
          BY <4>2, <4>5, <5>1, <5>2
      <4> QED
        BY <4>3, <4>4, <4>6
    <3>3. CASE \E i \in 1..n - 4 :
                 \E a \in Of(i).members, k \in Strings, v \in Of(n - 3 - i).values :
                   l = AndMember(a, k, v)
      <4>1. PICK i \in 1..n - 4 :
              \E a \in Of(i).members, k \in Strings, v \in Of(n - 3 - i).values :
                l = AndMember(a, k, v)
        BY <3>3
      <4>2. PICK a \in Of(i).members, k \in Strings, v \in Of(n - 3 - i).values :
              l = AndMember(a, k, v)
        BY <4>1
      <4>3. l.text = Further(a, Named(k, v.text)) /\ l.items = With(a.items, k, v.tree)
        BY <4>2 DEF AndMember
      <4>4. i \in Nat /\ i < n /\ n - 3 - i \in Nat /\ n - 3 - i < n
        OBVIOUS
      <4>5. /\ a.text \in Seq(Tokens) /\ Len(a.text) = i
            /\ DOMAIN a.items \subseteq Strings
            /\ \A x \in DOMAIN a.items : a.items[x] \in Docs
            /\ v.text \in Seq(Tokens) /\ Len(v.text) = n - 3 - i /\ v.tree \in Docs
        BY <2>1, <4>4 DEF Typed
      <4>6. Named(k, v.text) \in Seq(Tokens) /\ Len(Named(k, v.text)) = 2 + (n - 3 - i)
        BY <4>5, NamedText
      <4>7. l.text \in Seq(Tokens) /\ Len(l.text) = i + 1 + (2 + (n - 3 - i))
        <5>1. PICK b : b = Named(k, v.text)
          OBVIOUS
        <5>2. /\ Further(a, b) \in Seq(Tokens)
              /\ Len(Further(a, b)) = Len(a.text) + 1 + Len(b)
          BY <4>5, <4>6, <5>1, FurtherText
        <5> QED
          BY <4>3, <4>5, <4>6, <5>1, <5>2
      <4>8. DOMAIN l.items \subseteq Strings /\ \A x \in DOMAIN l.items : l.items[x] \in Docs
        <5>1. /\ DOMAIN l.items = DOMAIN a.items \cup {k}
              /\ l.items[k] = v.tree
              /\ \A x \in DOMAIN a.items \ {k} : l.items[x] = a.items[x]
          <6>1. PICK w : w = With(a.items, k, v.tree)
            OBVIOUS
          <6>2. /\ DOMAIN w = DOMAIN a.items \cup {k}
                /\ w[k] = v.tree
                /\ \A x \in DOMAIN a.items \ {k} : w[x] = a.items[x]
            BY <6>1 DEF With
          <6> QED
            BY <4>3, <6>1, <6>2
        <5> QED
          BY <4>5, <5>1
      <4> QED
        BY <4>4, <4>7, <4>8
    <3> QED
      BY <3>1, <3>2, <3>3, MembersAre
  <2>5. ASSUME NEW p \in Of(n).memberBegun PROVE p \in Seq(Tokens) /\ Len(p) = n
    <3>1. CASE n = 0 /\ p = <<>>
      BY <3>1
    <3>2. CASE n = 1 /\ \E k \in Strings : p = Str(k)
      BY <3>2, StrText
    <3>3. CASE n > 1 /\ \E k \in Strings, r \in Of(n - 2).begun : p = Named(k, r)
      <4>1. PICK k \in Strings, r \in Of(n - 2).begun : p = Named(k, r)
        BY <3>3
      <4>2. n - 2 \in Nat /\ n - 2 < n
        BY <3>3
      <4>3. r \in Seq(Tokens) /\ Len(r) = n - 2
        BY <2>1, <4>2 DEF Typed
      <4>4. p \in Seq(Tokens) /\ Len(p) = 2 + (n - 2)
        BY <4>1, <4>3, NamedText
      <4> QED
        BY <4>4
    <3> QED
      BY <3>1, <3>2, <3>3, MemberBegunAre
  <2>6. ASSUME NEW m \in Nat, m < n, NEW p, BeginsInArray(m, p) \/ BeginsInObject(m, p)
        PROVE  p \in Seq(Tokens) /\ Len(p) = m
    <3>1. CASE p \in Of(m).begun \/ p \in Of(m).memberBegun
      BY <2>1, <2>6, <3>1 DEF Typed
    <3>2. ASSUME NEW i \in 1..m - 1, NEW l \in Of(i).elements \cup Of(i).members,
                 NEW r \in Of(m - 1 - i).begun \cup Of(m - 1 - i).memberBegun,
                 p = Further(l, r)
          PROVE  p \in Seq(Tokens) /\ Len(p) = m
      <4>1. i \in Nat /\ i < n /\ m - 1 - i \in Nat /\ m - 1 - i < n
        BY <2>6
      <4>2. l.text \in Seq(Tokens) /\ Len(l.text) = i /\ r \in Seq(Tokens) /\ Len(r) = m - 1 - i
        BY <2>1, <4>1 DEF Typed
      <4>3. p \in Seq(Tokens) /\ Len(p) = i + 1 + (m - 1 - i)
        BY <3>2, <4>2, FurtherText
      <4> QED
        BY <4>1, <4>3
    <3> QED
      BY <2>6, <3>1, <3>2 DEF BeginsInArray, BeginsInObject
  <2>7. ASSUME NEW p \in Of(n).begun PROVE p \in Seq(Tokens) /\ Len(p) = n
    <3>1. CASE n = 0 /\ p = <<>>
      BY <3>1
    <3>2. CASE \E v \in Of(n).values : p = v.text
      BY <2>2, <3>2
    <3>3. CASE n > 0 /\ \E r : BeginsInArray(n - 1, r) /\ p = Opened("array", r)
      <4>1. PICK r : BeginsInArray(n - 1, r) /\ p = Opened("array", r)
        BY <3>3
      <4>2. n - 1 \in Nat /\ n - 1 < n /\ 1 + (n - 1) = n
        BY <3>3
      <4>3. r \in Seq(Tokens) /\ Len(r) = n - 1
        BY <2>6, <4>1, <4>2
      <4>4. "array" \in Containers
        BY DEF Containers
      <4>5. p \in Seq(Tokens) /\ Len(p) = 1 + Len(r)
        BY <4>1, <4>3, <4>4, OpenedText
      <4> QED
        BY <4>2, <4>3, <4>5
    <3>4. CASE n > 0 /\ \E r : BeginsInObject(n - 1, r) /\ p = Opened("object", r)
      <4>1. PICK r : BeginsInObject(n - 1, r) /\ p = Opened("object", r)
        BY <3>4
      <4>2. n - 1 \in Nat /\ n - 1 < n /\ 1 + (n - 1) = n
        BY <3>4
      <4>3. r \in Seq(Tokens) /\ Len(r) = n - 1
        BY <2>6, <4>1, <4>2
      <4>4. "object" \in Containers
        BY DEF Containers
      <4>5. p \in Seq(Tokens) /\ Len(p) = 1 + Len(r)
        BY <4>1, <4>3, <4>4, OpenedText
      <4> QED
        BY <4>2, <4>3, <4>5
    <3> QED
      BY <3>1, <3>2, <3>3, <3>4, BegunAre, Zenon
  <2> QED
    BY <2>2, <2>3, <2>4, <2>5, <2>7 DEF Typed
<1>2. S \in SUBSET Nat
  OBVIOUS
<1>3. \A n \in Nat : Typed(n) => n \in S
  OBVIOUS
<1> HIDE DEF S
<1>4. \A n \in Nat : n \in S
  BY <1>1, <1>2, <1>3, Inductively
<1> QED
  BY <1>4 DEF S

-----------------------------------------------------------------------------
(* Places: what may stand where.                                           *)

(* Where a value, or a key, may stand next.                                *)
MayBegin(u, p) ==
  \/ u.role \in {"beginning", "colon"} /\ p = u.path
  \/ u.role = "array" /\ p = Append(u.path, 1)
  \/ u.role = "comma" /\ IsElement(u.path) /\ p = Append(Shorter(u.path), Last(u.path) + 1)

MayKey(u, c) ==
  \/ u.role = "object" /\ c = u.path
  \/ u.role = "comma" /\ IsMember(u.path) /\ c = Shorter(u.path)

(* p is the path of something in the container at c.                       *)
Child(type, p, c) ==
  /\ p # <<>> /\ Shorter(p) = c
  /\ type = "array" => Last(p) \in Nat
  /\ type = "object" => Last(p) \in Strings

LEMMA NoKeyIsElement == \A p : ~(IsElement(p) /\ IsMember(p))
BY ReaderAssumption DEF IsElement, IsMember

LEMMA MarkIs ==
  ASSUME NEW m
  PROVE  Mark(m).kind = m
BY DEF Mark

LEMMA BracketsAre ==
  /\ Opening["array"] = "[" /\ Closing["array"] = "]"
  /\ Opening["object"] = "{" /\ Closing["object"] = "}"
BY DEF Opening, Closing

(* Where a value, or a key, may stand, it is given that place; and so are  *)
(* the tokens behind it.                                                   *)
LEMMA FollowScalar ==
  ASSUME NEW u, NEW p, MayBegin(u, p), NEW t \in Simple
  PROVE  Follow(u, t) = Place(p, "scalar")
<1>1. t.kind \in {"string", "scalar"}
  BY DEF Simple
<1>2. ValueAt(p, t) = Place(p, "scalar")
  BY <1>1 DEF ValueAt
<1>3. t.kind # "]"
  BY <1>1
<1>4. CASE u.role \in {"beginning", "colon"} /\ p = u.path
  BY <1>2, <1>4 DEF Follow
<1>5. CASE u.role = "array" /\ p = Append(u.path, 1)
  BY <1>2, <1>3, <1>5 DEF Follow
<1>6. CASE u.role = "comma" /\ IsElement(u.path) /\ p = Append(Shorter(u.path), Last(u.path) + 1)
  <2>1. BehindComma(u.path, t) = ValueAt(p, t)
    BY <1>6, NoKeyIsElement DEF BehindComma
  <2>2. Follow(u, t) = BehindComma(u.path, t)
    BY <1>6 DEF Follow
  <2> QED
    BY <1>2, <2>1, <2>2
<1> QED
  BY <1>4, <1>5, <1>6 DEF MayBegin

LEMMA FollowOpening ==
  ASSUME NEW u, NEW p, MayBegin(u, p), NEW type \in Containers
  PROVE  Follow(u, Mark(Opening[type])) = Place(p, type)
<1>1. PICK t : t = Mark(Opening[type])
  OBVIOUS
<1>2. \/ type = "array" /\ t.kind = "["
      \/ type = "object" /\ t.kind = "{"
  BY <1>1, BracketsAre, MarkIs, Zenon DEF Containers
<1>3. ValueAt(p, t) = Place(p, type)
  BY <1>2 DEF ValueAt
<1>4. t.kind # "]"
  BY <1>2
<1>5. CASE u.role \in {"beginning", "colon"} /\ p = u.path
  BY <1>1, <1>3, <1>5 DEF Follow
<1>6. CASE u.role = "array" /\ p = Append(u.path, 1)
  BY <1>1, <1>3, <1>4, <1>6 DEF Follow
<1>7. CASE u.role = "comma" /\ IsElement(u.path) /\ p = Append(Shorter(u.path), Last(u.path) + 1)
  <2>1. BehindComma(u.path, t) = ValueAt(p, t)
    BY <1>7, NoKeyIsElement DEF BehindComma
  <2>2. Follow(u, t) = BehindComma(u.path, t)
    BY <1>7 DEF Follow
  <2> QED
    BY <1>1, <1>3, <2>1, <2>2
<1> QED
  BY <1>5, <1>6, <1>7 DEF MayBegin

LEMMA FollowKey ==
  ASSUME NEW u, NEW c, MayKey(u, c), NEW k
  PROVE  Follow(u, KeyToken(k)) = Place(Append(c, k), "key")
<1>1. PICK t : t = KeyToken(k)
  OBVIOUS
<1>2. t.kind = "string" /\ t.says = k
  BY <1>1 DEF KeyToken
<1>3. KeyIn(c, t) = Place(Append(c, k), "key")
  BY <1>2 DEF KeyIn
<1>4. t.kind # "}"
  BY <1>2
<1>5. IsMember(u.path) => ~IsElement(u.path)
  BY NoKeyIsElement
<1>6. CASE u.role = "object" /\ c = u.path
  BY <1>1, <1>3, <1>4, <1>6 DEF Follow
<1>7. CASE u.role = "comma" /\ IsMember(u.path) /\ c = Shorter(u.path)
  <2>1. BehindComma(u.path, t) = KeyIn(c, t)
    BY <1>5, <1>7 DEF BehindComma
  <2>2. Follow(u, t) = BehindComma(u.path, t)
    BY <1>7 DEF Follow
  <2> QED
    BY <1>1, <1>3, <2>1, <2>2
<1> QED
  BY <1>6, <1>7 DEF MayKey

LEMMA FollowColon ==
  ASSUME NEW u, u.role = "key"
  PROVE  Follow(u, Mark(":")) = Place(u.path, "colon")
BY MarkIs DEF Follow

LEMMA FollowComma ==
  ASSUME NEW u, Over(u), u.path # <<>>
  PROVE  Follow(u, Mark(",")) = Place(u.path, "comma")
<1>1. BehindValue(u.path, Mark(",")) = Place(u.path, "comma")
  BY MarkIs DEF BehindValue
<1>2. Follow(u, Mark(",")) = BehindValue(u.path, Mark(","))
  BY DEF Follow, Over
<1> QED
  BY <1>1, <1>2

LEMMA FollowClosing ==
  ASSUME NEW type \in Containers, NEW u, NEW c,
         \/ u.role = type /\ u.path = c
         \/ Over(u) /\ Child(type, u.path, c)
  PROVE  Follow(u, Mark(Closing[type])) = Place(c, "end")
<1>1. PICK t : t = Mark(Closing[type])
  OBVIOUS
<1>2. \/ type = "array" /\ t.kind = "]"
      \/ type = "object" /\ t.kind = "}"
  BY <1>1, BracketsAre, MarkIs, Zenon DEF Containers
<1>3. CASE u.role = type /\ u.path = c
  BY <1>1, <1>2, <1>3 DEF Follow
<1>4. CASE Over(u) /\ Child(type, u.path, c)
  <2>1. Follow(u, t) = BehindValue(u.path, t)
    BY <1>4 DEF Follow, Over
  <2>2. CASE type = "array"
    <3>1. IsElement(u.path) /\ ~IsMember(u.path) /\ t.kind = "]"
      BY <1>2, <1>4, <2>2, NoKeyIsElement DEF Child, IsElement
    <3> QED
      BY <1>1, <1>4, <2>1, <3>1 DEF BehindValue, Child
  <2>3. CASE type = "object"
    <3>1. IsMember(u.path) /\ ~IsElement(u.path) /\ t.kind = "}"
      BY <1>2, <1>4, <2>3, NoKeyIsElement DEF Child, IsMember
    <3> QED
      BY <1>1, <1>4, <2>1, <3>1 DEF BehindValue, Child
  <2> QED
    BY <2>2, <2>3 DEF Containers
<1> QED
  BY <1>3, <1>4

(* What the tokens of a value say of its place.                            *)
LEMMA NodeOf ==
  /\ \A type \in Containers : Node(Mark(Opening[type])) = type
  /\ \A t \in Simple : Node(t) = t.says
<1>1. ASSUME NEW type \in Containers PROVE Node(Mark(Opening[type])) = type
  <2>1. PICK t : t = Mark(Opening[type])
    OBVIOUS
  <2>2. \/ type = "array" /\ t.kind = "["
        \/ type = "object" /\ t.kind = "{"
    BY <2>1, BracketsAre, MarkIs, Zenon DEF Containers
  <2> QED
    BY <2>1, <2>2 DEF Node
<1>2. \A t \in Simple : Node(t) = t.says
  BY DEF Simple, Node
<1> QED
  BY <1>1, <1>2

-----------------------------------------------------------------------------
(* What the tokens of a stretch of text say.                               *)

(* What the tokens behind i and up to j say, and let stand.                *)
What(s, w, i, j) ==
  {<<w[k].path, Node(s[k])>> : k \in {m \in i + 1..j : Stands(w, j, m)}}

(* A document, with its places seen from outside; and those in a           *)
(* container.                                                              *)
PlacedAt(p, d) == {<<p \o q, d[q]>> : q \in DOMAIN d}

PlacedIn(c, inner) == UNION {PlacedAt(Append(c, x), inner[x]) : x \in DOMAIN inner}

(* The tokens behind i and up to j say document d of the place p, and      *)
(* nothing of any other place; or of the places in the container at c, the *)
(* documents inner.                                                        *)
SaysAt(s, w, i, j, p, d) ==
  /\ What(s, w, i, j) = PlacedAt(p, d)
  /\ \A k \in i + 1..j : Said(w, k) => w[k].path \in Paths /\ Within(p, w[k].path)
  /\ \E k \in i + 1..j : Said(w, k) /\ w[k].path = p

SaysIn(s, w, i, j, c, inner) ==
  /\ What(s, w, i, j) = PlacedIn(c, inner)
  /\ \A k \in i + 1..j : Said(w, k) =>
       w[k].path \in Paths /\ \E x \in Steps : Within(Append(c, x), w[k].path)

LEMMA WhatIs ==
  ASSUME NEW s, NEW w, NEW i, NEW j, NEW x
  PROVE  x \in What(s, w, i, j) <=>
           \E k \in i + 1..j : Stands(w, j, k) /\ x = <<w[k].path, Node(s[k])>>
BY DEF What

LEMMA PlacedIs ==
  ASSUME NEW p, NEW d, NEW x
  PROVE  x \in PlacedAt(p, d) <=> \E q \in DOMAIN d : x = <<p \o q, d[q]>>
BY DEF PlacedAt

LEMMA PlacedInIs ==
  ASSUME NEW c, NEW inner, NEW x
  PROVE  x \in PlacedIn(c, inner) <=>
           \E y \in DOMAIN inner : x \in PlacedAt(Append(c, y), inner[y])
BY DEF PlacedIn

(* Of two stretches of tokens, with nothing said between them: of what the *)
(* first one says, all stands that is not said anew by the second.         *)
LEMMA WhatJoined ==
  ASSUME NEW s, NEW w, NEW i \in Nat, NEW m \in Nat, NEW m2 \in Nat, NEW j \in Nat,
         i <= m, m <= m2, m2 <= j, \A k \in m + 1..m2 : ~Said(w, k), NEW x
  PROVE  x \in What(s, w, i, j) <=>
           \/ /\ x \in What(s, w, i, m)
              /\ \A k \in m2 + 1..j : Said(w, k) => ~Within(w[k].path, x[1])
           \/ x \in What(s, w, m2, j)
<1>1. ASSUME NEW k \in i + 1..j, k <= m
      PROVE  /\ k \in i + 1..m
             /\ Stands(w, j, k) <=>
                  /\ Stands(w, m, k)
                  /\ \A l \in m2 + 1..j : Said(w, l) => ~Within(w[l].path, w[k].path)
  <2>1. \A l \in k + 1..j : l \in k + 1..m \/ l \in m + 1..m2 \/ l \in m2 + 1..j
    BY <1>1
  <2>2. \A l \in k + 1..m : l \in k + 1..j
    BY <1>1
  <2>3. \A l \in m2 + 1..j : l \in k + 1..j
    BY <1>1
  <2>4. k \in i + 1..m
    BY <1>1
  <2> QED
    BY <2>1, <2>2, <2>3, <2>4, Zenon DEF Stands
<1>2. \A k \in i + 1..j : Stands(w, j, k) => k <= m \/ k \in m2 + 1..j
  <2>1. ASSUME NEW k \in i + 1..j, Stands(w, j, k), ~(k <= m) PROVE k \in m2 + 1..j
    <3>1. Said(w, k)
      BY <2>1 DEF Stands
    <3>2. k \notin m + 1..m2
      BY <3>1
    <3> QED
      BY <2>1, <3>2
  <2> QED
    BY <2>1
<1>3. \A k \in i + 1..m : k \in i + 1..j /\ k <= m
  OBVIOUS
<1>4. \A k \in m2 + 1..j : k \in i + 1..j
  OBVIOUS
<1>5. ASSUME NEW k \in i + 1..j, Stands(w, j, k), x = <<w[k].path, Node(s[k])>>
      PROVE  \/ /\ x \in What(s, w, i, m)
                /\ \A l \in m2 + 1..j : Said(w, l) => ~Within(w[l].path, x[1])
             \/ x \in What(s, w, m2, j)
  <2>1. CASE k <= m
    <3>1. k \in i + 1..m /\ Stands(w, m, k)
      BY <1>1, <1>5, <2>1
    <3>2. \A l \in m2 + 1..j : Said(w, l) => ~Within(w[l].path, w[k].path)
      BY <1>1, <1>5, <2>1
    <3>3. x[1] = w[k].path
      BY <1>5
    <3> QED
      BY <1>5, <3>1, <3>2, <3>3, WhatIs
  <2>2. CASE k \in m2 + 1..j
    BY <1>5, <2>2, WhatIs
  <2> QED
    BY <1>2, <1>5, <2>1, <2>2
<1>6. ASSUME x \in What(s, w, i, m),
             \A l \in m2 + 1..j : Said(w, l) => ~Within(w[l].path, x[1])
      PROVE  x \in What(s, w, i, j)
  <2>1. PICK k \in i + 1..m : Stands(w, m, k) /\ x = <<w[k].path, Node(s[k])>>
    BY <1>6, WhatIs
  <2>2. x[1] = w[k].path
    BY <2>1
  <2>3. Stands(w, j, k) /\ k \in i + 1..j
    BY <1>1, <1>3, <1>6, <2>1, <2>2
  <2> QED
    BY <2>1, <2>3, WhatIs
<1>7. ASSUME x \in What(s, w, m2, j) PROVE x \in What(s, w, i, j)
  BY <1>4, <1>7, WhatIs
<1>8. x \in What(s, w, i, j) =>
        \E k \in i + 1..j : Stands(w, j, k) /\ x = <<w[k].path, Node(s[k])>>
  BY WhatIs
<1> QED
  BY <1>5, <1>6, <1>7, <1>8

LEMMA WhatNothing ==
  ASSUME NEW s, NEW w, NEW i \in Nat
  PROVE  What(s, w, i, i) = {}
BY WhatIs

LEMMA SaidOnce ==
  ASSUME NEW s, NEW w, NEW i \in Nat, NEW p, Said(w, i + 1), w[i + 1].path = p
  PROVE  \A x : x \in What(s, w, i, i + 1) <=> x = <<p, Node(s[i + 1])>>
<1>1. i + 1..i + 1 = {i + 1}
  OBVIOUS
<1>2. Stands(w, i + 1, i + 1)
  <2>1. \A l \in i + 1 + 1..i + 1 : FALSE
    OBVIOUS
  <2> QED
    BY <2>1 DEF Stands
<1> QED
  BY <1>1, <1>2, WhatIs

LEMMA NoStep ==
  ASSUME NEW p \in Paths
  PROVE  p \o <<>> = p
BY DEF Paths

(* One token says a document of one node.                                  *)
LEMMA SaysLeaf ==
  ASSUME NEW s, NEW w, NEW i \in Nat, NEW p \in Paths, Said(w, i + 1), w[i + 1].path = p,
         NEW node \in Nodes, Node(s[i + 1]) = node
  PROVE  SaysAt(s, w, i, i + 1, p, Leaf(node))
<1>1. \A x : x \in What(s, w, i, i + 1) <=> x = <<p, node>>
  BY SaidOnce
<1>2. \A x : x \in PlacedAt(p, Leaf(node)) <=> x = <<p, node>>
  <2>1. PICK d : d = Leaf(node)
    OBVIOUS
  <2>2. DOMAIN d = {<<>>} /\ d[<<>>] = node
    BY <2>1, LeafIs
  <2>3. \A x : x \in PlacedAt(p, d) <=> \E q \in DOMAIN d : x = <<p \o q, d[q]>>
    BY PlacedIs
  <2>4. \A x : x \in PlacedAt(p, d) <=> x = <<p \o <<>>, node>>
    BY <2>2, <2>3
  <2>5. \A x : x \in PlacedAt(p, d) <=> x = <<p, node>>
    BY <2>4, NoStep
  <2> QED
    BY <2>1, <2>5
<1>3. What(s, w, i, i + 1) = PlacedAt(p, Leaf(node))
  BY <1>1, <1>2
<1>4. \A k \in i + 1..i + 1 : k = i + 1
  OBVIOUS
<1>5. i + 1 \in i + 1..i + 1
  OBVIOUS
<1>6. Within(p, p)
  BY DEF Within, Paths
<1> QED
  BY <1>3, <1>4, <1>5, <1>6 DEF SaysAt

(* Paths: a step more, and two paths one behind the other.                 *)
LEMMA PathSteps ==
  ASSUME NEW c \in Paths, NEW x \in Steps
  PROVE  /\ Append(c, x) \in Paths /\ Append(c, x) # <<>>
         /\ Len(c) \in Nat /\ Len(Append(c, x)) = Len(c) + 1
         /\ Last(Append(c, x)) = x /\ Shorter(Append(c, x)) = c
         /\ Append(c, x)[Len(c) + 1] = x
         /\ \A i \in 1..Len(c) : Append(c, x)[i] = c[i]
<1>1. c \in Seq(Steps)
  BY DEF Paths, Steps
<1>2. /\ Append(c, x) \in Seq(Steps) /\ Append(c, x) # <<>>
      /\ Len(c) \in Nat /\ Len(Append(c, x)) = Len(c) + 1
      /\ Append(c, x)[Len(c) + 1] = x
      /\ \A i \in 1..Len(c) : Append(c, x)[i] = c[i]
  BY <1>1
<1>3. Last(Append(c, x)) = x
  BY <1>2 DEF Last
<1>4. Shorter(Append(c, x)) = c
  BY <1>1, <1>2 DEF Shorter
<1> QED
  BY <1>2, <1>3, <1>4 DEF Paths, Steps

LEMMA PathJoined ==
  ASSUME NEW p \in Paths, NEW q \in Paths
  PROVE  /\ p \o q \in Paths
         /\ Len(p) \in Nat /\ Len(q) \in Nat /\ Len(p \o q) = Len(p) + Len(q)
         /\ \A i \in 1..Len(p) : (p \o q)[i] = p[i]
         /\ \A i \in 1..Len(q) : (p \o q)[Len(p) + i] = q[i]
         /\ Within(p, p \o q)
BY DEF Paths, Within

LEMMA PathSame ==
  ASSUME NEW p \in Paths, NEW q \in Paths, NEW n, n = Len(p), n = Len(q),
         \A i \in 1..n : p[i] = q[i]
  PROVE  p = q
<1>1. p \in Seq(Steps) /\ q \in Seq(Steps)
  BY DEF Paths, Steps
<1>2. n \in Nat
  BY <1>1
<1>3. Len(p) = Len(q) /\ \A i \in 1..Len(p) : p[i] = q[i]
  OBVIOUS
<1> QED
  BY <1>1, <1>3

LEMMA StepsJoined ==
  ASSUME NEW c \in Paths, NEW x \in Steps, NEW q \in Paths
  PROVE  Append(c, x) \o q = c \o (<<x>> \o q)
<1>1. <<x>> \in Paths /\ Len(<<x>>) = 1 /\ <<x>>[1] = x
  BY DEF Paths, Steps
<1>2. PICK b : b = Append(c, x)
  OBVIOUS
<1>3. PICK r : r = <<x>> \o q
  OBVIOUS
<1>4. PICK n \in Nat : n = Len(c)
  BY PathSteps
<1>5. PICK m \in Nat : m = Len(q)
  BY PathJoined
<1>6. b \in Paths /\ Len(b) = n + 1 /\ b[n + 1] = x /\ \A i \in 1..n : b[i] = c[i]
  BY <1>2, <1>4, PathSteps
<1>7. /\ r \in Paths /\ Len(r) = 1 + m /\ r[1] = x
      /\ \A i \in 1..m : r[1 + i] = q[i]
  <2>1. /\ r \in Paths /\ Len(r) = 1 + m
        /\ \A i \in 1..1 : r[i] = <<x>>[i]
        /\ \A i \in 1..m : r[1 + i] = q[i]
    BY <1>1, <1>3, <1>5 DEF Paths
  <2> QED
    BY <1>1, <2>1
<1>71. n + 1 \in Nat /\ 1 + m \in Nat
  OBVIOUS
<1>72. PICK u : u = b \o q
  OBVIOUS
<1>73. PICK v : v = c \o r
  OBVIOUS
<1>8. /\ u \in Paths /\ Len(u) = n + 1 + m
      /\ \A i \in 1..n + 1 : u[i] = b[i]
      /\ \A i \in 1..m : u[n + 1 + i] = q[i]
  <2>1. /\ u \in Paths /\ Len(u) = Len(b) + Len(q)
        /\ \A i \in 1..Len(b) : u[i] = b[i]
        /\ \A i \in 1..Len(q) : u[Len(b) + i] = q[i]
    BY <1>6, <1>72, PathJoined
  <2> QED
    BY <1>5, <1>6, <2>1
<1>9. /\ v \in Paths /\ Len(v) = n + (1 + m)
      /\ \A i \in 1..n : v[i] = c[i]
      /\ \A i \in 1..1 + m : v[n + i] = r[i]
  <2>1. /\ v \in Paths /\ Len(v) = Len(c) + Len(r)
        /\ \A i \in 1..Len(c) : v[i] = c[i]
        /\ \A i \in 1..Len(r) : v[Len(c) + i] = r[i]
    BY <1>7, <1>73, PathJoined
  <2> QED
    BY <1>4, <1>7, <2>1
<1>10. \A i \in 1..n + 1 + m : u[i] = v[i]
  <2>1. ASSUME NEW i \in 1..n PROVE u[i] = v[i]
    BY <1>6, <1>8, <1>9
  <2>2. u[n + 1] = v[n + 1]
    BY <1>6, <1>7, <1>8, <1>9
  <2>3. ASSUME NEW i \in 1..m PROVE u[n + 1 + i] = v[n + 1 + i]
    <3>1. PICK k \in 1..1 + m : k = 1 + i
      OBVIOUS
    <3>2. n + k = n + 1 + i /\ r[k] = q[i]
      BY <1>7, <3>1
    <3>3. v[n + k] = r[k]
      BY <1>9
    <3>4. u[n + 1 + i] = q[i]
      BY <1>8
    <3> QED
      BY <3>2, <3>3, <3>4
  <2>4. ASSUME NEW i \in 1..n + 1 + m
        PROVE  i \in 1..n \/ i = n + 1 \/ \E l \in 1..m : i = n + 1 + l
    <3>1. CASE i > n + 1
      <4>1. i - (n + 1) \in 1..m /\ i = n + 1 + (i - (n + 1))
        BY <3>1
      <4> QED
        BY <4>1
    <3> QED
      BY <3>1
  <2> QED
    BY <2>1, <2>2, <2>3, <2>4
<1>11. u = v
  BY <1>8, <1>9, <1>10, PathSame
<1> QED
  BY <1>2, <1>3, <1>11, <1>72, <1>73

(* What is within a step of c is not c, nor around it; and what is within  *)
(* two different steps is not within one another.                          *)
LEMMA WithinStep ==
  ASSUME NEW c \in Paths, NEW x \in Steps, NEW r \in Paths, Within(Append(c, x), r)
  PROVE  /\ r # c /\ ~Within(r, c) /\ Within(c, r)
         /\ r[Len(c) + 1] = x
<1>1. Len(c) \in Nat /\ Len(r) \in Nat
  BY DEF Paths
<1>2. PICK b : b = Append(c, x)
  OBVIOUS
<1>3. PICK n \in Nat : n = Len(c)
  BY <1>1
<1>4. Len(b) = n + 1 /\ b[n + 1] = x /\ \A i \in 1..n : b[i] = c[i]
  BY <1>2, <1>3, PathSteps
<1>5. Within(b, r)
  BY <1>2
<1> QED
  BY <1>1, <1>3, <1>4, <1>5 DEF Within

LEMMA Apart ==
  ASSUME NEW c \in Paths, NEW x \in Steps, NEW y \in Steps, x # y,
         NEW q \in Paths, NEW r \in Paths,
         Within(Append(c, x), q), Within(Append(c, y), r)
  PROVE  ~Within(q, r)
<1>1. q[Len(c) + 1] = x /\ r[Len(c) + 1] = y
  BY WithinStep
<1>2. Len(c) \in Nat /\ Len(q) \in Nat /\ Len(q) >= Len(c) + 1
  <2>1. Len(Append(c, x)) = Len(c) + 1 /\ Len(c) \in Nat
    BY PathSteps
  <2> QED
    BY <2>1 DEF Within, Paths
<1> QED
  BY <1>1, <1>2 DEF Within

LEMMA PlacedWithin ==
  ASSUME NEW p \in Paths, NEW d \in Docs, NEW x \in PlacedAt(p, d)
  PROVE  x[1] \in Paths /\ Within(p, x[1])
<1>1. PICK q \in DOMAIN d : x = <<p \o q, d[q]>>
  BY PlacedIs
<1>2. q \in Paths
  BY DocIs
<1>3. x[1] = p \o q
  BY <1>1
<1> QED
  BY <1>2, <1>3, PathJoined

(* One document more in the container: it is all that is now said of its   *)
(* place, of what was said of the others all stands, and of what was said  *)
(* of that place before nothing. So the last of several members with the   *)
(* same key counts.                                                        *)
LEMMA SaysMore ==
  ASSUME NEW s, NEW w, NEW i \in Nat, NEW m \in Nat, NEW m2 \in Nat, NEW j \in Nat,
         i <= m, m <= m2, m2 <= j, \A k \in m + 1..m2 : ~Said(w, k),
         NEW c \in Paths, NEW inner, DOMAIN inner \subseteq Steps,
         \A x \in DOMAIN inner : inner[x] \in Docs,
         SaysIn(s, w, i, m, c, inner),
         NEW y \in Steps, NEW d \in Docs, SaysAt(s, w, m2, j, Append(c, y), d)
  PROVE  SaysIn(s, w, i, j, c, With(inner, y, d))
<1>1. PICK b : b = Append(c, y)
  OBVIOUS
<1>2. b \in Paths
  BY <1>1, PathSteps
<1>3. /\ What(s, w, i, m) = PlacedIn(c, inner)
      /\ \A k \in i + 1..m : Said(w, k) =>
           w[k].path \in Paths /\ \E x \in Steps : Within(Append(c, x), w[k].path)
  BY DEF SaysIn
<1>4. /\ What(s, w, m2, j) = PlacedAt(b, d)
      /\ \A k \in m2 + 1..j : Said(w, k) => w[k].path \in Paths /\ Within(b, w[k].path)
      /\ \E k \in m2 + 1..j : Said(w, k) /\ w[k].path = b
  BY <1>1 DEF SaysAt
<1>5. ASSUME NEW x
      PROVE  x \in What(s, w, i, j) <=>
               \/ /\ x \in PlacedIn(c, inner)
                  /\ \A k \in m2 + 1..j : Said(w, k) => ~Within(w[k].path, x[1])
               \/ x \in PlacedAt(b, d)
  BY <1>3, <1>4, WhatJoined
<1>6. ASSUME NEW z \in DOMAIN inner, NEW x \in PlacedAt(Append(c, z), inner[z])
      PROVE  (\A k \in m2 + 1..j : Said(w, k) => ~Within(w[k].path, x[1])) <=> z # y
  <2>1. Append(c, z) \in Paths /\ z \in Steps
    BY PathSteps
  <2>2. x[1] \in Paths /\ Within(Append(c, z), x[1])
    BY <1>6, <2>1, PlacedWithin
  <2>3. CASE z = y
    <3>1. PICK k \in m2 + 1..j : Said(w, k) /\ w[k].path = b
      BY <1>4
    <3>2. Within(w[k].path, x[1])
      BY <1>1, <2>2, <2>3, <3>1
    <3> QED
      BY <2>3, <3>1, <3>2
  <2>4. CASE z # y
    <3>1. ASSUME NEW k \in m2 + 1..j, Said(w, k) PROVE ~Within(w[k].path, x[1])
      <4>1. w[k].path \in Paths /\ Within(Append(c, y), w[k].path)
        BY <1>1, <1>4, <3>1
      <4> QED
        BY <2>1, <2>2, <2>4, <4>1, Apart
    <3> QED
      BY <2>4, <3>1
  <2> QED
    BY <2>3, <2>4
<1>7. PICK more : more = With(inner, y, d)
  OBVIOUS
<1>8. /\ DOMAIN more = DOMAIN inner \cup {y}
      /\ more[y] = d
      /\ \A z \in DOMAIN inner \ {y} : more[z] = inner[z]
  BY <1>7 DEF With
<1>9. ASSUME NEW x PROVE x \in What(s, w, i, j) <=> x \in PlacedIn(c, more)
  <2>1. x \in What(s, w, i, j) <=>
          \/ \E z \in DOMAIN inner \ {y} : x \in PlacedAt(Append(c, z), inner[z])
          \/ x \in PlacedAt(b, d)
    <3>1. x \in PlacedIn(c, inner) <=>
            \E z \in DOMAIN inner : x \in PlacedAt(Append(c, z), inner[z])
      BY PlacedInIs
    <3>2. CASE x \in PlacedAt(b, d)
      BY <1>5, <3>2
    <3>3. CASE x \notin PlacedAt(b, d)
      <4>1. ASSUME x \in What(s, w, i, j)
            PROVE  \E z \in DOMAIN inner \ {y} : x \in PlacedAt(Append(c, z), inner[z])
        <5>1. PICK z \in DOMAIN inner : x \in PlacedAt(Append(c, z), inner[z])
          BY <1>5, <3>1, <3>3, <4>1
        <5>2. \A k \in m2 + 1..j : Said(w, k) => ~Within(w[k].path, x[1])
          BY <1>5, <3>3, <4>1
        <5>3. z # y
          BY <1>6, <5>1, <5>2
        <5> QED
          BY <5>1, <5>3
      <4>2. ASSUME NEW z \in DOMAIN inner \ {y}, x \in PlacedAt(Append(c, z), inner[z])
            PROVE  x \in What(s, w, i, j)
        <5>1. \A k \in m2 + 1..j : Said(w, k) => ~Within(w[k].path, x[1])
          BY <1>6, <4>2
        <5> QED
          BY <1>5, <3>1, <4>2, <5>1
      <4> QED
        BY <3>3, <4>1, <4>2
    <3> QED
      BY <3>2, <3>3
  <2>2. x \in PlacedIn(c, more) <=> \E z \in DOMAIN more : x \in PlacedAt(Append(c, z), more[z])
    BY PlacedInIs
  <2>3. (\E z \in DOMAIN more : x \in PlacedAt(Append(c, z), more[z])) <=>
          \/ \E z \in DOMAIN inner \ {y} : x \in PlacedAt(Append(c, z), inner[z])
          \/ x \in PlacedAt(b, d)
    <3>1. ASSUME NEW z \in DOMAIN inner \ {y}
          PROVE  z \in DOMAIN more /\ more[z] = inner[z]
      BY <1>8
    <3>2. y \in DOMAIN more /\ more[y] = d /\ Append(c, y) = b
      BY <1>1, <1>8
    <3>3. \A z \in DOMAIN more : z = y \/ z \in DOMAIN inner \ {y}
      BY <1>8
    <3>4. ASSUME NEW z \in DOMAIN more, x \in PlacedAt(Append(c, z), more[z])
          PROVE  \/ \E a \in DOMAIN inner \ {y} : x \in PlacedAt(Append(c, a), inner[a])
                 \/ x \in PlacedAt(b, d)
      BY <3>1, <3>2, <3>3, <3>4, Zenon
    <3>5. ASSUME NEW z \in DOMAIN inner \ {y}, x \in PlacedAt(Append(c, z), inner[z])
          PROVE  \E a \in DOMAIN more : x \in PlacedAt(Append(c, a), more[a])
      <4>1. x \in PlacedAt(Append(c, z), more[z])
        BY <3>1, <3>5
      <4> QED
        BY <3>1, <4>1
    <3>6. ASSUME x \in PlacedAt(b, d)
          PROVE  \E a \in DOMAIN more : x \in PlacedAt(Append(c, a), more[a])
      <4>1. x \in PlacedAt(Append(c, y), more[y])
        BY <3>2, <3>6
      <4> QED
        BY <3>2, <4>1
    <3> QED
      BY <3>4, <3>5, <3>6
  <2> QED
    BY <2>1, <2>2, <2>3
<1>10. What(s, w, i, j) = PlacedIn(c, more)
  BY <1>9
<1>11. ASSUME NEW k \in i + 1..j, Said(w, k)
       PROVE  w[k].path \in Paths /\ \E x \in Steps : Within(Append(c, x), w[k].path)
  <2>1. k \in i + 1..m \/ k \in m + 1..m2 \/ k \in m2 + 1..j
    OBVIOUS
  <2>2. CASE k \in i + 1..m
    BY <1>3, <1>11, <2>2
  <2>3. CASE k \in m2 + 1..j
    BY <1>1, <1>4, <1>11, <2>3
  <2> QED
    BY <1>11, <2>1, <2>2, <2>3
<1> QED
  BY <1>7, <1>10, <1>11 DEF SaysIn

LEMMA SaysNothing ==
  ASSUME NEW s, NEW w, NEW i \in Nat, NEW c
  PROVE  SaysIn(s, w, i, i, c, <<>>)
<1>1. DOMAIN <<>> = {}
  OBVIOUS
<1>2. PlacedIn(c, <<>>) = {}
  BY <1>1, PlacedInIs
<1>3. \A k \in i + 1..i : FALSE
  OBVIOUS
<1> QED
  BY <1>2, <1>3, WhatNothing DEF SaysIn

(* The token that opens the container, and what is said in it, say the     *)
(* container that Glue makes.                                              *)
LEMMA SaysContainer ==
  ASSUME NEW s, NEW w, NEW i \in Nat, NEW j \in Nat, i + 1 <= j,
         NEW type \in Containers, NEW c \in Paths,
         Said(w, i + 1), w[i + 1].path = c, Node(s[i + 1]) = type,
         NEW inner, DOMAIN inner \subseteq Steps,
         \A x \in DOMAIN inner : inner[x] \in Docs,
         SaysIn(s, w, i + 1, j, c, inner),
         ~Said(w, j + 1)
  PROVE  SaysAt(s, w, i, j + 1, c, Glue(type, inner))
<1>1. PICK i1 \in Nat : i1 = i + 1
  OBVIOUS
<1>2. PICK j1 \in Nat : j1 = j + 1
  OBVIOUS
<1>3. /\ What(s, w, i1, j) = PlacedIn(c, inner)
      /\ \A k \in i1 + 1..j : Said(w, k) =>
           w[k].path \in Paths /\ \E x \in Steps : Within(Append(c, x), w[k].path)
  BY <1>1 DEF SaysIn
<1>4. \A x : x \in What(s, w, i, i1) <=> x = <<c, type>>
  BY <1>1, SaidOnce
<1>5. ASSUME NEW x
      PROVE  x \in What(s, w, i, j) <=> x = <<c, type>> \/ x \in PlacedIn(c, inner)
  <2>1. x \in What(s, w, i, j) <=>
           \/ /\ x \in What(s, w, i, i1)
              /\ \A k \in i1 + 1..j : Said(w, k) => ~Within(w[k].path, x[1])
           \/ x \in What(s, w, i1, j)
    <3>1. i <= i1 /\ i1 <= i1 /\ i1 <= j /\ \A k \in i1 + 1..i1 : ~Said(w, k)
      BY <1>1
    <3> QED
      BY <3>1, WhatJoined
  <2>2. ASSUME NEW k \in i1 + 1..j, Said(w, k) PROVE ~Within(w[k].path, c)
    BY <1>3, <2>2, WithinStep
  <2> QED
    BY <1>3, <1>4, <2>1, <2>2
<1>6. ASSUME NEW x PROVE x \in What(s, w, i, j1) <=> x \in What(s, w, i, j)
  <2>1. j1 <= j1 /\ j <= j1 /\ i <= j /\ \A k \in j + 1..j1 : k = j1
    BY <1>1, <1>2
  <2>2. \A k \in j + 1..j1 : ~Said(w, k)
    BY <1>2, <2>1
  <2>3. x \in What(s, w, i, j1) <=>
           \/ /\ x \in What(s, w, i, j)
              /\ \A k \in j1 + 1..j1 : Said(w, k) => ~Within(w[k].path, x[1])
           \/ x \in What(s, w, j1, j1)
    BY <2>1, <2>2, WhatJoined
  <2>4. What(s, w, j1, j1) = {}
    BY WhatNothing
  <2> QED
    BY <2>3, <2>4
<1>7. PICK d : d = Glue(type, inner)
  OBVIOUS
<1>8. /\ d \in Docs
      /\ <<>> \in DOMAIN d
      /\ d[<<>>] = type
      /\ \A y \in DOMAIN inner : \A p \in DOMAIN inner[y] :
           <<y>> \o p \in DOMAIN d /\ d[<<y>> \o p] = inner[y][p]
      /\ \A q \in DOMAIN d \ {<<>>} :
           \E y \in DOMAIN inner : \E p \in DOMAIN inner[y] : q = <<y>> \o p
  <2>1. Glued(type, inner, d)
    BY <1>7, GlueIs
  <2> QED
    BY <2>1 DEF Glued
<1>9. ASSUME NEW y \in DOMAIN inner, NEW p \in DOMAIN inner[y]
      PROVE  Append(c, y) \o p = c \o (<<y>> \o p)
  <2>1. y \in Steps /\ p \in Paths
    BY DocIs
  <2> QED
    BY <2>1, StepsJoined
<1>10. ASSUME NEW x
       PROVE  x \in PlacedAt(c, d) <=> x = <<c, type>> \/ x \in PlacedIn(c, inner)
  <2>1. ASSUME x \in PlacedAt(c, d), x # <<c, type>> PROVE x \in PlacedIn(c, inner)
    <3>1. PICK q \in DOMAIN d : x = <<c \o q, d[q]>>
      BY <2>1, PlacedIs
    <3>2. q # <<>>
      BY <1>8, <2>1, <3>1, NoStep
    <3>3. PICK y \in DOMAIN inner : \E p \in DOMAIN inner[y] : q = <<y>> \o p
      BY <1>8, <3>2
    <3>4. PICK p \in DOMAIN inner[y] : q = <<y>> \o p
      BY <3>3
    <3>5. d[q] = inner[y][p]
      BY <1>8, <3>4
    <3>6. Append(c, y) \o p = c \o q
      BY <1>9, <3>4
    <3>7. x = <<Append(c, y) \o p, inner[y][p]>>
      BY <3>1, <3>5, <3>6
    <3> QED
      BY <3>7, PlacedIs, PlacedInIs
  <2>2. ASSUME x = <<c, type>> PROVE x \in PlacedAt(c, d)
    <3>1. x = <<c \o <<>>, d[<<>>]>>
      BY <1>8, <2>2, NoStep
    <3> QED
      BY <1>8, <3>1, PlacedIs
  <2>3. ASSUME x \in PlacedIn(c, inner) PROVE x \in PlacedAt(c, d)
    <3>1. PICK y \in DOMAIN inner : x \in PlacedAt(Append(c, y), inner[y])
      BY <2>3, PlacedInIs
    <3>2. PICK p \in DOMAIN inner[y] : x = <<Append(c, y) \o p, inner[y][p]>>
      <4>1. PICK b, e : b = Append(c, y) /\ e = inner[y]
        OBVIOUS
      <4>2. x \in PlacedAt(b, e)
        BY <3>1, <4>1
      <4>3. \E p \in DOMAIN e : x = <<b \o p, e[p]>>
        BY <4>2, Zenon DEF PlacedAt
      <4> QED
        BY <4>1, <4>3
    <3>3. PICK q : q = <<y>> \o p
      OBVIOUS
    <3>4. q \in DOMAIN d /\ d[q] = inner[y][p]
      BY <1>8, <3>3
    <3>5. x = <<c \o q, d[q]>>
      BY <1>9, <3>2, <3>3, <3>4
    <3> QED
      BY <3>4, <3>5, PlacedIs
  <2> QED
    BY <2>1, <2>2, <2>3
<1>11. What(s, w, i, j1) = PlacedAt(c, d)
  BY <1>5, <1>6, <1>10
<1>12. ASSUME NEW k \in i + 1..j1, Said(w, k)
       PROVE  w[k].path \in Paths /\ Within(c, w[k].path)
  <2>1. k = i1 \/ k \in i1 + 1..j \/ k = j1
    BY <1>1, <1>2
  <2>2. CASE k = i1
    <3>1. Within(c, c)
      BY DEF Within, Paths
    <3> QED
      BY <1>1, <2>2, <3>1
  <2>3. CASE k \in i1 + 1..j
    <3>1. PICK x \in Steps : Within(Append(c, x), w[k].path)
      BY <1>3, <1>12, <2>3
    <3>2. w[k].path \in Paths
      BY <1>3, <1>12, <2>3
    <3> QED
      BY <3>1, <3>2, WithinStep
  <2> QED
    BY <1>2, <1>12, <2>1, <2>2, <2>3
<1>13. i1 \in i + 1..j1 /\ Said(w, i1) /\ w[i1].path = c
  BY <1>1, <1>2
<1>14. SaysAt(s, w, i, j1, c, d)
  BY <1>11, <1>12, <1>13 DEF SaysAt
<1> QED
  BY <1>2, <1>7, <1>14

-----------------------------------------------------------------------------
(* What the grammar makes has its places, and says its document there.     *)

(* The places of N tokens: each follows from the one before it.            *)
Walks(s, w, N) == \A i \in 1..N : w[i] = Follow(w[i - 1], s[i])

LEMMA WalkOn ==
  ASSUME NEW s, NEW w, NEW N \in Nat, Walks(s, w, N), NEW i \in Nat, i + 1 <= N
  PROVE  w[i + 1] = Follow(w[i], s[i + 1])
<1>1. i + 1 \in 1..N /\ i + 1 - 1 = i
  OBVIOUS
<1> QED
  BY <1>1 DEF Walks

LEMMA PlaceIs ==
  ASSUME NEW p, NEW r
  PROVE  Place(p, r).path = p /\ Place(p, r).role = r
BY DEF Place

(* What may stand behind the tokens that open a container, or are between  *)
(* what is in it.                                                          *)
LEMMA NextPlaces ==
  ASSUME NEW c \in Paths
  PROVE  /\ \A u : u = Place(c, "array") => MayBegin(u, Append(c, 1))
         /\ \A u : u = Place(c, "object") => MayKey(u, c)
         /\ \A p \in Paths : \A u : u = Place(p, "colon") => MayBegin(u, p)
         /\ \A L \in Nat :
              /\ Child("array", Append(c, L), c)
              /\ \A u : u = Place(Append(c, L), "comma") => MayBegin(u, Append(c, L + 1))
         /\ \A k \in Strings :
              /\ Child("object", Append(c, k), c)
              /\ \A u : u = Place(Append(c, k), "comma") => MayKey(u, c)
<1>1. ASSUME NEW L \in Nat
      PROVE  /\ Child("array", Append(c, L), c)
             /\ \A u : u = Place(Append(c, L), "comma") => MayBegin(u, Append(c, L + 1))
  <2>1. PICK b : b = Append(c, L)
    OBVIOUS
  <2>2. L \in Steps
    BY DEF Steps
  <2>3. b # <<>> /\ Shorter(b) = c /\ Last(b) = L
    BY <2>1, <2>2, PathSteps
  <2>4. Child("array", b, c)
    BY <2>3 DEF Child
  <2>5. \A u : u = Place(b, "comma") => MayBegin(u, Append(c, L + 1))
    BY <2>3, PlaceIs DEF MayBegin, IsElement
  <2> QED
    BY <2>1, <2>4, <2>5
<1>2. ASSUME NEW k \in Strings
      PROVE  /\ Child("object", Append(c, k), c)
             /\ \A u : u = Place(Append(c, k), "comma") => MayKey(u, c)
  <2>1. PICK b : b = Append(c, k)
    OBVIOUS
  <2>2. k \in Steps
    BY DEF Steps
  <2>3. b # <<>> /\ Shorter(b) = c /\ Last(b) = k
    BY <2>1, <2>2, PathSteps
  <2>4. Child("object", b, c)
    BY <2>3 DEF Child
  <2>5. \A u : u = Place(b, "comma") => MayKey(u, c)
    BY <2>3, PlaceIs DEF MayKey, IsMember
  <2> QED
    BY <2>1, <2>4, <2>5
<1>3. \A u : u = Place(c, "array") => MayBegin(u, Append(c, 1))
  BY PlaceIs DEF MayBegin
<1>4. \A u : u = Place(c, "object") => MayKey(u, c)
  BY PlaceIs DEF MayKey
<1>5. \A p \in Paths : \A u : u = Place(p, "colon") => MayBegin(u, p)
  BY PlaceIs DEF MayBegin
<1> QED
  BY <1>1, <1>2, <1>3, <1>4, <1>5

(* What has been read after n tokens, of each kind of text: wherever it    *)
(* may begin, a value ends at its place and says its document of it;       *)
(* elements and members end behind the last of them; and what only begins  *)
(* has a place.                                                            *)
ValuesPlaced(s, w, N, n) ==
  \A v \in Of(n).values, i \in Nat, p \in Paths :
    i + n <= N /\ MayBegin(w[i], p) /\ Reads(s, i, v.text) =>
      /\ Over(w[i + n]) /\ w[i + n].path = p
      /\ SaysAt(s, w, i, i + n, p, v.tree)

ElementsPlaced(s, w, N, n) ==
  \A e \in Of(n).elements, i \in Nat, c \in Paths :
    i + n <= N /\ w[i] = Place(c, "array") /\ Reads(s, i, e.text) =>
      /\ n # 0 => Over(w[i + n]) /\ w[i + n].path = Append(c, Len(e.items))
      /\ SaysIn(s, w, i, i + n, c, e.items)

MembersPlaced(s, w, N, n) ==
  \A l \in Of(n).members, i \in Nat, c \in Paths :
    i + n <= N /\ w[i] = Place(c, "object") /\ Reads(s, i, l.text) =>
      /\ n # 0 => Over(w[i + n]) /\ \E k \in Strings : w[i + n].path = Append(c, k)
      /\ SaysIn(s, w, i, i + n, c, l.items)

BegunPlaced(s, w, N, n) ==
  \A b \in Of(n).begun, i \in Nat, p \in Paths :
    i + n <= N /\ MayBegin(w[i], p) /\ Reads(s, i, b) => w[i + n] # Nowhere

MemberBegunPlaced(s, w, N, n) ==
  \A b \in Of(n).memberBegun, i \in Nat, c \in Paths :
    i + n <= N /\ MayKey(w[i], c) /\ Reads(s, i, b) => w[i + n] # Nowhere

(* What is in the container is read behind the token that opens it.        *)
Filled(s, w, i, m, p, type, l) ==
  w[i + 1] = Place(p, type) /\ Reads(s, i + 1, l.text) =>
    /\ m # 0 => Over(w[i + 1 + m]) /\ Child(type, w[i + 1 + m].path, p)
    /\ SaysIn(s, w, i + 1, i + 1 + m, p, l.items)

(* A container is placed if what is in it is.                              *)
LEMMA ContainerPlaced ==
  ASSUME NEW s, NEW w, NEW N \in Nat, Walks(s, w, N),
         NEW type \in Containers, NEW l, NEW m \in Nat,
         l.text \in Seq(Tokens), Len(l.text) = m,
         DOMAIN l.items \subseteq Steps, \A x \in DOMAIN l.items : l.items[x] \in Docs,
         NEW i \in Nat, i + m + 2 <= N, NEW p \in Paths, MayBegin(w[i], p),
         NEW v, v = Container(type, l), Reads(s, i, v.text),
         Filled(s, w, i, m, p, type, l)
  PROVE  /\ Over(w[i + m + 2]) /\ w[i + m + 2].path = p
         /\ SaysAt(s, w, i, i + m + 2, p, v.tree)
<1>1. /\ s[i + 1] = Mark(Opening[type])
      /\ Reads(s, i + 1, l.text)
      /\ s[i + m + 2] = Mark(Closing[type])
  <2>1. Reads(s, i, Container(type, l).text) <=>
              /\ s[i + 1] = Mark(Opening[type])
              /\ Reads(s, i + 1, l.text)
              /\ s[i + Len(l.text) + 2] = Mark(Closing[type])
    BY ContainerText
  <2>2. PICK o, x : o = Mark(Opening[type]) /\ x = Mark(Closing[type])
    OBVIOUS
  <2>3. Reads(s, i, v.text) <=> s[i + 1] = o /\ Reads(s, i + 1, l.text) /\ s[i + m + 2] = x
    BY <2>1, <2>2
  <2> QED
    BY <2>2, <2>3
<1>2. w[i + 1] = Place(p, type)
  <2>1. w[i + 1] = Follow(w[i], s[i + 1])
    BY WalkOn
  <2> QED
    BY <1>1, <2>1, FollowOpening
<1>3. PICK j \in Nat : j = i + 1 + m
  OBVIOUS
<1>4. /\ m # 0 => Over(w[j]) /\ Child(type, w[j].path, p)
      /\ SaysIn(s, w, i + 1, j, p, l.items)
  BY <1>1, <1>2, <1>3 DEF Filled
<1>5. j + 1 = i + m + 2 /\ j + 1 <= N /\ i + 1 <= j
  BY <1>3
<1>6. w[j + 1] = Place(p, "end")
  <2>1. w[j + 1] = Follow(w[j], s[j + 1])
    BY <1>5, WalkOn
  <2>2. CASE m = 0
    <3>1. j = i + 1
      BY <1>3, <2>2
    <3>2. w[j].role = type /\ w[j].path = p
      BY <1>2, <3>1, PlaceIs
    <3> QED
      BY <1>1, <1>5, <2>1, <3>2, FollowClosing
  <2>3. CASE Over(w[j]) /\ Child(type, w[j].path, p)
    BY <1>1, <1>5, <2>1, <2>3, FollowClosing
  <2> QED
    BY <1>4, <2>2, <2>3
<1>7. ~Said(w, j + 1) /\ Over(w[j + 1]) /\ w[j + 1].path = p
  BY <1>6, PlaceIs DEF Said, Over
<1>8. Said(w, i + 1) /\ w[i + 1].path = p
  BY <1>2, PlaceIs DEF Said, Containers
<1>9. Node(s[i + 1]) = type
  BY <1>1, NodeOf
<1>10. v.tree = Glue(type, l.items)
  BY DEF Container
<1>11. SaysAt(s, w, i, j + 1, p, v.tree)
  <2>1. PICK inner : inner = l.items
    OBVIOUS
  <2>2. SaysAt(s, w, i, j + 1, p, Glue(type, inner))
    BY <1>4, <1>5, <1>7, <1>8, <1>9, <2>1, SaysContainer
  <2> QED
    BY <1>10, <2>1, <2>2
<1> QED
  BY <1>5, <1>7, <1>11

(* By induction over the number of tokens: values, from what is in them.   *)
LEMMA ValuesStep ==
  ASSUME NEW s, NEW w, NEW N \in Nat, Walks(s, w, N), NEW n \in Nat,
         \A m \in Nat : m < n => ElementsPlaced(s, w, N, m) /\ MembersPlaced(s, w, N, m)
  PROVE  ValuesPlaced(s, w, N, n)
<1>1. SUFFICES ASSUME NEW v \in Of(n).values, NEW i \in Nat, NEW p \in Paths,
                      i + n <= N, MayBegin(w[i], p), Reads(s, i, v.text)
               PROVE  /\ Over(w[i + n]) /\ w[i + n].path = p
                      /\ SaysAt(s, w, i, i + n, p, v.tree)
  BY DEF ValuesPlaced
<1>2. CASE n = 1 /\ \E t \in Simple : v = Single(t)
  <2>1. PICK t \in Simple : v = Single(t)
    BY <1>2
  <2>2. v.text = <<t>> /\ v.tree = Leaf(t.says)
    BY <2>1 DEF Single
  <2>3. t \in Tokens /\ t.says \in Nodes
    BY SingleIs
  <2>4. s[i + 1] = t
    BY <1>1, <2>2, <2>3, OneToken
  <2>5. w[i + 1] = Follow(w[i], t)
    BY <1>1, <1>2, <2>4, WalkOn
  <2>6. w[i + 1] = Place(p, "scalar")
    BY <1>1, <2>5, FollowScalar
  <2>7. Over(w[i + 1]) /\ Said(w, i + 1) /\ w[i + 1].path = p
    BY <2>6, PlaceIs DEF Over, Said
  <2>8. Node(s[i + 1]) = t.says
    BY <2>4, NodeOf
  <2>9. SaysAt(s, w, i, i + 1, p, Leaf(t.says))
    BY <2>3, <2>7, <2>8, SaysLeaf
  <2> QED
    BY <1>2, <2>2, <2>7, <2>9
<1>3. CASE n > 1 /\ \E e \in Of(n - 2).elements : v = Container("array", e)
  <2>1. PICK m \in Nat : m = n - 2
    BY <1>3
  <2>2. PICK e \in Of(m).elements : v = Container("array", e)
    BY <1>3, <2>1
  <2>3. e.text \in Seq(Tokens) /\ Len(e.text) = m /\ e.items \in Seq(Docs)
    BY AllTyped DEF Typed
  <2>4. DOMAIN e.items \subseteq Steps /\ \A x \in DOMAIN e.items : e.items[x] \in Docs
    BY <2>3 DEF Steps
  <2>5. ElementsPlaced(s, w, N, m) /\ i + m + 2 <= N /\ i + 1 + m <= N /\ i + 1 \in Nat
    BY <1>1, <2>1
  <2>6. ASSUME w[i + 1] = Place(p, "array"), Reads(s, i + 1, e.text)
        PROVE  /\ m # 0 => Over(w[i + 1 + m]) /\ Child("array", w[i + 1 + m].path, p)
               /\ SaysIn(s, w, i + 1, i + 1 + m, p, e.items)
    <3>1. /\ m # 0 => Over(w[i + 1 + m]) /\ w[i + 1 + m].path = Append(p, Len(e.items))
          /\ SaysIn(s, w, i + 1, i + 1 + m, p, e.items)
      BY <2>5, <2>6 DEF ElementsPlaced
    <3>2. Len(e.items) \in Nat
      BY <2>3
    <3>3. Child("array", Append(p, Len(e.items)), p)
      BY <3>2, NextPlaces
    <3> QED
      BY <3>1, <3>3
  <2>7. "array" \in Containers
    BY DEF Containers
  <2>8. /\ Over(w[i + m + 2]) /\ w[i + m + 2].path = p
        /\ SaysAt(s, w, i, i + m + 2, p, v.tree)
    <3>1. Filled(s, w, i, m, p, "array", e)
      BY <2>6 DEF Filled
    <3>2. Reads(s, i, v.text) /\ MayBegin(w[i], p)
      BY <1>1
    <3> QED
      BY <2>2, <2>3, <2>4, <2>5, <2>7, <3>1, <3>2, ContainerPlaced
  <2>9. i + m + 2 = i + n
    BY <2>1
  <2> QED
    BY <2>8, <2>9
<1>4. CASE n > 1 /\ \E l \in Of(n - 2).members : v = Container("object", l)
  <2>1. PICK m \in Nat : m = n - 2
    BY <1>4
  <2>2. PICK e \in Of(m).members : v = Container("object", e)
    BY <1>4, <2>1
  <2>3. e.text \in Seq(Tokens) /\ Len(e.text) = m
    BY AllTyped DEF Typed
  <2>4. DOMAIN e.items \subseteq Steps /\ \A x \in DOMAIN e.items : e.items[x] \in Docs
    BY AllTyped DEF Typed, Steps
  <2>5. MembersPlaced(s, w, N, m) /\ i + m + 2 <= N /\ i + 1 + m <= N /\ i + 1 \in Nat
    BY <1>1, <2>1
  <2>6. ASSUME w[i + 1] = Place(p, "object"), Reads(s, i + 1, e.text)
        PROVE  /\ m # 0 => Over(w[i + 1 + m]) /\ Child("object", w[i + 1 + m].path, p)
               /\ SaysIn(s, w, i + 1, i + 1 + m, p, e.items)
    <3>1. /\ m # 0 => Over(w[i + 1 + m]) /\ \E k \in Strings : w[i + 1 + m].path = Append(p, k)
          /\ SaysIn(s, w, i + 1, i + 1 + m, p, e.items)
      BY <2>5, <2>6 DEF MembersPlaced
    <3>2. \A k \in Strings : Child("object", Append(p, k), p)
      BY NextPlaces
    <3> QED
      BY <3>1, <3>2
  <2>7. "object" \in Containers
    BY DEF Containers
  <2>8. /\ Over(w[i + m + 2]) /\ w[i + m + 2].path = p
        /\ SaysAt(s, w, i, i + m + 2, p, v.tree)
    <3>1. Filled(s, w, i, m, p, "object", e)
      BY <2>6 DEF Filled
    <3>2. Reads(s, i, v.text) /\ MayBegin(w[i], p)
      BY <1>1
    <3> QED
      BY <2>2, <2>3, <2>4, <2>5, <2>7, <3>1, <3>2, ContainerPlaced
  <2>9. i + m + 2 = i + n
    BY <2>1
  <2> QED
    BY <2>8, <2>9
<1> QED
  BY <1>2, <1>3, <1>4, ValuesAre

(* A list of elements, one more.                                           *)
LEMMA LastElement ==
  ASSUME NEW items \in Seq(Docs), NEW d \in Docs
  PROVE  /\ Append(items, d) = With(items, Len(items) + 1, d)
         /\ Append(items, d) \in Seq(Docs)
         /\ Len(items) \in Nat /\ Len(Append(items, d)) = Len(items) + 1
         /\ DOMAIN items \subseteq Steps
         /\ \A x \in DOMAIN items : items[x] \in Docs
<1>1. PICK n \in Nat : n = Len(items)
  OBVIOUS
<1>2. PICK a : a = Append(items, d)
  OBVIOUS
<1>3. PICK b : b = With(items, n + 1, d)
  OBVIOUS
<1>4. /\ DOMAIN a = 1..n + 1 /\ Len(a) = n + 1 /\ a \in Seq(Docs)
      /\ a[n + 1] = d /\ \A i \in 1..n : a[i] = items[i]
  BY <1>1, <1>2
<1>5. DOMAIN items = 1..n
  BY <1>1
<1>6. b = [k \in 1..n + 1 |-> IF k = n + 1 THEN d ELSE items[k]]
  <2>1. DOMAIN items \cup {n + 1} = 1..n + 1
    BY <1>5
  <2> QED
    BY <1>3, <2>1 DEF With
<1>7. a = [k \in 1..n + 1 |-> a[k]]
  BY <1>4
<1>8. \A k \in 1..n + 1 : a[k] = IF k = n + 1 THEN d ELSE items[k]
  BY <1>4
<1>9. a = b
  BY <1>6, <1>7, <1>8
<1>10. DOMAIN items \subseteq Steps /\ \A x \in DOMAIN items : items[x] \in Docs
  BY <1>5 DEF Steps
<1> QED
  BY <1>1, <1>2, <1>3, <1>4, <1>9, <1>10

LEMMA OneElement ==
  ASSUME NEW d \in Docs
  PROVE  <<d>> = With(<<>>, 1, d) /\ <<d>> \in Seq(Docs) /\ Len(<<d>>) = 1
<1>1. <<>> \in Seq(Docs) /\ Len(<<>>) = 0 /\ Append(<<>>, d) = <<d>> /\ 0 + 1 = 1
  OBVIOUS
<1>2. Append(<<>>, d) = With(<<>>, 0 + 1, d)
  BY <1>1, LastElement
<1> QED
  BY <1>1, <1>2

LEMMA ElementsCases ==
  ASSUME NEW n \in Nat, NEW e \in Of(n).elements
  PROVE  \/ n = 0 /\ e = [text |-> <<>>, items |-> <<>>]
         \/ \E v \in Of(n).values : e = Element(v)
         \/ \E m \in 1..n - 2 : \E a \in Of(m).elements, v \in Of(n - 1 - m).values :
              e = AndElement(a, v)
BY ElementsAre

(* The induction, for the elements of an array.                            *)
LEMMA ElementsStep ==
  ASSUME NEW s, NEW w, NEW N \in Nat, Walks(s, w, N), NEW n \in Nat,
         \A m \in Nat : m < n => ElementsPlaced(s, w, N, m),
         \A m \in Nat : m <= n => ValuesPlaced(s, w, N, m)
  PROVE  ElementsPlaced(s, w, N, n)
<1>1. SUFFICES ASSUME NEW e \in Of(n).elements, NEW i \in Nat, NEW c \in Paths,
                      i + n <= N, w[i] = Place(c, "array"), Reads(s, i, e.text)
               PROVE  /\ n # 0 => Over(w[i + n]) /\ w[i + n].path = Append(c, Len(e.items))
                      /\ SaysIn(s, w, i, i + n, c, e.items)
  BY DEF ElementsPlaced
<1>2. CASE n = 0 /\ e = [text |-> <<>>, items |-> <<>>]
  <2>1. n = 0 /\ i + n = i /\ e.items = <<>>
    BY <1>2
  <2>2. SaysIn(s, w, i, i, c, <<>>)
    BY SaysNothing
  <2>3. SaysIn(s, w, i, i + n, c, e.items)
    BY <2>1, <2>2
  <2>4. n = 0
    BY <1>2
  <2> QED
    BY <2>3, <2>4, Zenon
<1>3. CASE \E v \in Of(n).values : e = Element(v)
  <2>1. PICK v \in Of(n).values : e = Element(v)
    BY <1>3
  <2>2. PICK d \in Docs : d = v.tree
    BY AllTyped DEF Typed
  <2>3. e.text = v.text /\ e.items = <<d>>
    BY <2>1, <2>2 DEF Element
  <2>4. 1 \in Steps
    BY DEF Steps
  <2>5. PICK p \in Paths : p = Append(c, 1)
    BY <2>4, PathSteps
  <2>6. MayBegin(w[i], p)
    BY <1>1, <2>5, NextPlaces
  <2>7. /\ Over(w[i + n]) /\ w[i + n].path = p
        /\ SaysAt(s, w, i, i + n, p, d)
    BY <1>1, <2>2, <2>3, <2>6 DEF ValuesPlaced
  <2>8. i <= i /\ i <= i + n /\ i + n \in Nat /\ \A k \in i + 1..i : FALSE
    OBVIOUS
  <2>9. DOMAIN <<>> \subseteq Steps /\ \A x \in DOMAIN <<>> : <<>>[x] \in Docs
    OBVIOUS
  <2>10. SaysIn(s, w, i, i, c, <<>>)
    BY SaysNothing
  <2>11. \A k \in i + 1..i : ~Said(w, k)
    BY <2>8
  <2>12. SaysAt(s, w, i, i + n, Append(c, 1), d)
    BY <2>5, <2>7
  <2>13. SaysIn(s, w, i, i + n, c, With(<<>>, 1, d))
    BY <2>4, <2>8, <2>9, <2>10, <2>11, <2>12, SaysMore
  <2>14. e.items = With(<<>>, 1, d) /\ Len(e.items) = 1
    BY <2>3, OneElement
  <2> QED
    BY <2>5, <2>7, <2>13, <2>14
<1>4. CASE \E m \in 1..n - 2 : \E a \in Of(m).elements, v \in Of(n - 1 - m).values :
             e = AndElement(a, v)
  <2>1. PICK m \in 1..n - 2 : \E a \in Of(m).elements, v \in Of(n - 1 - m).values :
             e = AndElement(a, v)
    BY <1>4
  <2>2. PICK r \in Nat : r = n - 1 - m
    BY <2>1
  <2>3. PICK a \in Of(m).elements, v \in Of(r).values : e = AndElement(a, v)
    BY <2>1, <2>2
  <2>4. PICK d \in Docs : d = v.tree
    BY AllTyped DEF Typed
  <2>5. PICK items \in Seq(Docs) : items = a.items
    BY AllTyped DEF Typed
  <2>6. e.text = Further(a, v.text) /\ e.items = Append(items, d)
    BY <2>3, <2>4, <2>5 DEF AndElement
  <2>7. a.text \in Seq(Tokens) /\ Len(a.text) = m /\ v.text \in Seq(Tokens)
    BY AllTyped DEF Typed
  <2>8. /\ Reads(s, i, a.text) /\ s[i + m + 1] = Mark(",")
        /\ Reads(s, i + m + 1, v.text)
    <3>1. PICK t : t = v.text
      OBVIOUS
    <3>2. t \in Seq(Tokens) /\ Reads(s, i, Further(a, t))
      BY <1>1, <2>6, <2>7, <3>1
    <3>3. /\ Reads(s, i, a.text) /\ s[i + Len(a.text) + 1] = Mark(",")
          /\ Reads(s, i + Len(a.text) + 1, t)
      <4>1. Reads(s, i, Further(a, t)) <=>
              /\ Reads(s, i, a.text)
              /\ s[i + Len(a.text) + 1] = Mark(",")
              /\ Reads(s, i + Len(a.text) + 1, t)
        BY <2>7, <3>2, FurtherText
      <4> QED
        BY <3>2, <4>1
    <3> QED
      BY <2>7, <3>1, <3>3
  <2>9. PICK L \in Nat : L = Len(items)
    OBVIOUS
  <2>10. PICK j \in Nat : j = i + m
    OBVIOUS
  <2>11. m < n /\ m # 0 /\ r <= n /\ j <= N /\ j + 1 <= N /\ j + 1 + r <= N /\ j + 1 + r = i + n
    <3>1. i + n <= N
      BY <1>1
    <3>2. m \in Nat /\ m >= 1 /\ m <= n - 2
      BY <2>1
    <3>3. m < n /\ m # 0 /\ r <= n
      BY <2>2, <3>2
    <3>4. j <= N /\ j + 1 <= N
      BY <2>2, <2>10, <3>1, <3>2
    <3>5. j + 1 + r <= N
      BY <2>2, <2>10, <3>1, <3>2
    <3>6. j + 1 + r = i + n
      BY <2>2, <2>10, <3>1, <3>2
    <3> QED
      BY <3>3, <3>4, <3>5, <3>6
  <2>12. Over(w[j]) /\ w[j].path = Append(c, L) /\ SaysIn(s, w, i, j, c, items)
    <3>1. m \in Nat /\ a \in Of(m).elements
      BY <2>1
    <3>2. ElementsPlaced(s, w, N, m)
      BY <2>11, <3>1
    <3>3. j <= N /\ w[i] = Place(c, "array") /\ Reads(s, i, a.text)
      BY <1>1, <2>8, <2>11
    <3>4. /\ m # 0 => Over(w[i + m]) /\ w[i + m].path = Append(c, Len(a.items))
          /\ SaysIn(s, w, i, i + m, c, a.items)
      BY <2>10, <3>1, <3>2, <3>3 DEF ElementsPlaced
    <3> QED
      BY <2>5, <2>9, <2>10, <2>11, <3>4
  <2>13. L \in Steps /\ L + 1 \in Steps
    BY DEF Steps
  <2>14. PICK p \in Paths : p = Append(c, L + 1)
    BY <2>13, PathSteps
  <2>15. w[j + 1] = Place(Append(c, L), "comma")
    <3>1. w[j + 1] = Follow(w[j], Mark(","))
      <4>1. s[j + 1] = Mark(",")
        BY <2>8, <2>10
      <4>2. w[j + 1] = Follow(w[j], s[j + 1])
        BY <2>11, WalkOn
      <4> QED
        BY <4>1, <4>2
    <3>2. w[j].path # <<>>
      <4>1. Append(c, L) # <<>>
        BY <2>13, PathSteps
      <4> QED
        BY <2>12, <4>1
    <3> QED
      BY <2>12, <3>1, <3>2, FollowComma
  <2>16. MayBegin(w[j + 1], p)
    BY <2>14, <2>15, NextPlaces
  <2>17. /\ Over(w[j + 1 + r]) /\ w[j + 1 + r].path = p
         /\ SaysAt(s, w, j + 1, j + 1 + r, p, d)
    <3>1. ValuesPlaced(s, w, N, r)
      BY <2>11
    <3>2. v \in Of(r).values /\ j + 1 \in Nat /\ Reads(s, j + 1, v.text)
      <4>1. i + m + 1 = j + 1 /\ j + 1 \in Nat
        BY <2>10
      <4>2. Reads(s, j + 1, v.text)
        BY <2>8, <4>1
      <4> QED
        BY <4>1, <4>2
    <3> QED
      BY <2>4, <2>11, <2>16, <3>1, <3>2 DEF ValuesPlaced
  <2>18. \A k \in j + 1..j + 1 : ~Said(w, k)
    BY <2>15, PlaceIs DEF Said
  <2>19. PICK j1, j2 \in Nat : j1 = j + 1 /\ j2 = j + 1 + r
    OBVIOUS
  <2>20. /\ i <= j /\ j <= j1 /\ j1 <= j2
         /\ \A k \in j + 1..j1 : ~Said(w, k)
         /\ SaysAt(s, w, j1, j2, Append(c, L + 1), d)
    BY <2>10, <2>14, <2>17, <2>18, <2>19
  <2>21. DOMAIN items \subseteq Steps /\ \A x \in DOMAIN items : items[x] \in Docs
    BY LastElement
  <2>22. SaysIn(s, w, i, j2, c, With(items, L + 1, d))
    BY <2>12, <2>13, <2>20, <2>21, SaysMore
  <2>23. e.items = With(items, L + 1, d) /\ Len(e.items) = L + 1
    BY <2>6, <2>9, LastElement
  <2> QED
    BY <2>11, <2>14, <2>17, <2>19, <2>22, <2>23
<1>5. \/ n = 0 /\ e = [text |-> <<>>, items |-> <<>>]
      \/ \E v \in Of(n).values : e = Element(v)
      \/ \E m \in 1..n - 2 : \E a \in Of(m).elements, v \in Of(n - 1 - m).values :
           e = AndElement(a, v)
  BY ElementsCases
<1> QED
  BY <1>2, <1>3, <1>4, <1>5

(* Behind an entry, the comma has the place of that entry.                 *)
LEMMA CommaPlace ==
  ASSUME NEW c \in Paths, NEW x \in Steps, NEW u, Over(u), u.path = Append(c, x),
         NEW v, v = Follow(u, Mark(","))
  PROVE  v = Place(Append(c, x), "comma") /\ v.role = "comma"
<1>1. PICK p : p = Append(c, x)
  OBVIOUS
<1>2. p # <<>>
  BY <1>1, PathSteps
<1>3. v = Place(p, "comma")
  BY <1>1, <1>2, FollowComma
<1>4. Place(p, "comma").role = "comma"
  BY PlaceIs, Zenon
<1>5. v.role = "comma"
  BY <1>3, <1>4
<1> QED
  BY <1>1, <1>3, <1>5

(* The key and the colon say nothing, and lead to the place of the value.  *)
LEMMA NameRead ==
  ASSUME NEW s, NEW w, NEW N \in Nat, Walks(s, w, N), NEW i \in Nat, i + 2 <= N,
         NEW c \in Paths, NEW k \in Strings, MayKey(w[i], c),
         s[i + 1] = KeyToken(k), s[i + 2] = Mark(":")
  PROVE  /\ w[i + 1] = Place(Append(c, k), "key")
         /\ w[i + 2] = Place(Append(c, k), "colon")
         /\ ~Said(w, i + 1) /\ ~Said(w, i + 2)
         /\ MayBegin(w[i + 2], Append(c, k)) /\ Append(c, k) \in Paths
<1>1. w[i + 1] = Place(Append(c, k), "key")
  <2>1. i + 1 <= N
    OBVIOUS
  <2>2. w[i + 1] = Follow(w[i], s[i + 1])
    BY <2>1, WalkOn
  <2> QED
    BY <2>2, FollowKey
<1>2. w[i + 2] = Place(Append(c, k), "colon")
  <2>1. PICK j \in Nat : j = i + 1
    OBVIOUS
  <2>2. j + 1 = i + 2 /\ j + 1 <= N
    BY <2>1
  <2>3. w[j + 1] = Follow(w[j], s[j + 1])
    BY <2>2, WalkOn
  <2>4. w[j].role = "key" /\ w[j].path = Append(c, k)
    BY <1>1, <2>1 DEF Place
  <2>5. s[j + 1] = Mark(":")
    BY <2>2
  <2>6. w[j + 1] = Place(Append(c, k), "colon")
    BY <2>3, <2>4, <2>5, FollowColon
  <2> QED
    BY <2>2, <2>6
<1>3. ~Said(w, i + 1) /\ ~Said(w, i + 2)
  BY <1>1, <1>2, PlaceIs DEF Said
<1>4. Append(c, k) \in Paths
  BY PathSteps DEF Steps
<1>5. MayBegin(w[i + 2], Append(c, k))
  BY <1>2, <1>4, NextPlaces
<1> QED
  BY <1>1, <1>2, <1>3, <1>4, <1>5

LEMMA MembersCases ==
  ASSUME NEW n \in Nat, NEW l \in Of(n).members
  PROVE  \/ n = 0 /\ l = [text |-> <<>>, items |-> <<>>]
         \/ n > 2 /\ \E k \in Strings, v \in Of(n - 2).values : l = Member(k, v)
         \/ \E m \in 1..n - 4 :
              \E a \in Of(m).members, k \in Strings, v \in Of(n - 3 - m).values :
                l = AndMember(a, k, v)
BY MembersAre

(* A member more, of r tokens behind the key and the colon.                *)
LEMMA MemberRead ==
  ASSUME NEW s, NEW w, NEW N \in Nat, Walks(s, w, N),
         NEW i \in Nat, NEW m \in Nat, NEW h \in Nat, NEW r \in Nat,
         i <= m, m <= h, h + 2 + r <= N, \A x \in m + 1..h : ~Said(w, x),
         NEW c \in Paths, MayKey(w[h], c),
         NEW inner, DOMAIN inner \subseteq Steps,
         \A x \in DOMAIN inner : inner[x] \in Docs, SaysIn(s, w, i, m, c, inner),
         NEW k \in Strings, NEW v \in Of(r).values, Reads(s, h, Named(k, v.text)),
         ValuesPlaced(s, w, N, r)
  PROVE  /\ Over(w[h + 2 + r]) /\ w[h + 2 + r].path = Append(c, k)
         /\ SaysIn(s, w, i, h + 2 + r, c, With(inner, k, v.tree))
<1>1. /\ v.text \in Seq(Tokens) /\ v.tree \in Docs
  BY AllTyped DEF Typed
<1>2. s[h + 1] = KeyToken(k) /\ s[h + 2] = Mark(":") /\ Reads(s, h + 2, v.text)
  <2>1. PICK t \in Seq(Tokens) : t = v.text
    BY <1>1
  <2>2. Reads(s, h, Named(k, t))
    BY <2>1
  <2>3. Reads(s, h, Named(k, t)) <=>
           s[h + 1] = KeyToken(k) /\ s[h + 2] = Mark(":") /\ Reads(s, h + 2, t)
    BY NamedText
  <2> QED
    BY <2>1, <2>2, <2>3
<1>3. PICK p \in Paths : p = Append(c, k)
  BY PathSteps DEF Steps
<1>4. h + 2 <= N
  OBVIOUS
<1>5. /\ ~Said(w, h + 1) /\ ~Said(w, h + 2)
      /\ MayBegin(w[h + 2], p)
  BY <1>2, <1>3, <1>4, NameRead
<1>6. PICK j \in Nat : j = h + 2
  OBVIOUS
<1>7. /\ Over(w[j + r]) /\ w[j + r].path = p
      /\ SaysAt(s, w, j, j + r, p, v.tree)
  <2>1. j + r <= N /\ MayBegin(w[j], p) /\ Reads(s, j, v.text)
    BY <1>2, <1>5, <1>6
  <2> QED
    BY <2>1 DEF ValuesPlaced
<1>8. PICK e \in Nat : e = j + r
  OBVIOUS
<1>9. i <= m /\ m <= j /\ j <= e
  BY <1>6, <1>8
<1>10. \A x \in m + 1..j : ~Said(w, x)
  <2>1. \A x \in m + 1..j : x \in m + 1..h \/ x = h + 1 \/ x = h + 2
    BY <1>6
  <2> QED
    BY <1>5, <2>1
<1>11. SaysAt(s, w, j, e, Append(c, k), v.tree)
  BY <1>3, <1>7, <1>8
<1>12. k \in Steps
  BY DEF Steps
<1>13. SaysIn(s, w, i, e, c, With(inner, k, v.tree))
  BY <1>1, <1>9, <1>10, <1>11, <1>12, SaysMore
<1>14. e = h + 2 + r
  BY <1>6, <1>8
<1> QED
  BY <1>3, <1>7, <1>8, <1>13, <1>14

(* The induction, for the members of an object.                            *)
LEMMA MembersStep ==
  ASSUME NEW s, NEW w, NEW N \in Nat, Walks(s, w, N), NEW n \in Nat,
         \A m \in Nat : m < n => MembersPlaced(s, w, N, m),
         \A m \in Nat : m <= n => ValuesPlaced(s, w, N, m)
  PROVE  MembersPlaced(s, w, N, n)
<1>1. SUFFICES ASSUME NEW l \in Of(n).members, NEW i \in Nat, NEW c \in Paths,
                      i + n <= N, w[i] = Place(c, "object"), Reads(s, i, l.text)
               PROVE  /\ n # 0 => Over(w[i + n]) /\ \E k \in Strings : w[i + n].path = Append(c, k)
                      /\ SaysIn(s, w, i, i + n, c, l.items)
  BY DEF MembersPlaced
<1>2. CASE n = 0 /\ l = [text |-> <<>>, items |-> <<>>]
  <2>1. n = 0 /\ i + n = i /\ l.items = <<>>
    BY <1>2
  <2>2. SaysIn(s, w, i, i, c, <<>>)
    BY SaysNothing
  <2> QED
    BY <2>1, <2>2
<1>3. CASE n > 2 /\ \E k \in Strings, v \in Of(n - 2).values : l = Member(k, v)
  <2>1. PICK r \in Nat : r = n - 2
    BY <1>3
  <2>2. PICK k \in Strings, v \in Of(r).values : l = Member(k, v)
    BY <1>3, <2>1
  <2>3. l.text = Named(k, v.text) /\ l.items = With(<<>>, k, v.tree)
    BY <2>2 DEF Member
  <2>4. MayKey(w[i], c)
    BY <1>1, NextPlaces
  <2>5. DOMAIN <<>> \subseteq Steps /\ \A x \in DOMAIN <<>> : <<>>[x] \in Docs
    OBVIOUS
  <2>6. SaysIn(s, w, i, i, c, <<>>)
    BY SaysNothing
  <2>7. i <= i /\ (\A x \in i + 1..i : FALSE) /\ i + 2 + r <= N /\ i + 2 + r = i + n
    BY <1>1, <2>1
  <2>8. ValuesPlaced(s, w, N, r)
    BY <2>1
  <2>9. Reads(s, i, Named(k, v.text)) /\ \A x \in i + 1..i : ~Said(w, x)
    BY <1>1, <2>3, <2>7
  <2>10. /\ Over(w[i + 2 + r]) /\ w[i + 2 + r].path = Append(c, k)
         /\ SaysIn(s, w, i, i + 2 + r, c, With(<<>>, k, v.tree))
    BY <2>4, <2>5, <2>6, <2>7, <2>8, <2>9, MemberRead
  <2> QED
    BY <2>3, <2>7, <2>10
<1>4. CASE \E m \in 1..n - 4 :
              \E a \in Of(m).members, k \in Strings, v \in Of(n - 3 - m).values :
                l = AndMember(a, k, v)
  <2>1. PICK m \in 1..n - 4 :
              \E a \in Of(m).members, k \in Strings, v \in Of(n - 3 - m).values :
                l = AndMember(a, k, v)
    BY <1>4
  <2>2. PICK r \in Nat : r = n - 3 - m
    BY <2>1
  <2>3. PICK a \in Of(m).members, k \in Strings, v \in Of(r).values : l = AndMember(a, k, v)
    BY <2>1, <2>2
  <2>4. PICK b : b = Named(k, v.text)
    OBVIOUS
  <2>5. PICK items : items = a.items
    OBVIOUS
  <2>6. l.text = Further(a, b) /\ l.items = With(items, k, v.tree)
    BY <2>3, <2>4, <2>5 DEF AndMember
  <2>7. a.text \in Seq(Tokens) /\ Len(a.text) = m /\ v.text \in Seq(Tokens)
    BY AllTyped DEF Typed
  <2>8. b \in Seq(Tokens)
    BY <2>4, <2>7, NamedText
  <2>9. DOMAIN items \subseteq Steps /\ \A x \in DOMAIN items : items[x] \in Docs
    <3>1. /\ DOMAIN a.items \subseteq Strings
          /\ \A x \in DOMAIN a.items : a.items[x] \in Docs
      BY AllTyped DEF Typed
    <3> QED
      BY <2>5, <3>1 DEF Steps
  <2>10. /\ Reads(s, i, a.text) /\ s[i + m + 1] = Mark(",")
         /\ Reads(s, i + m + 1, b)
    <3>1. Reads(s, i, Further(a, b)) <=>
              /\ Reads(s, i, a.text)
              /\ s[i + Len(a.text) + 1] = Mark(",")
              /\ Reads(s, i + Len(a.text) + 1, b)
      BY <2>7, <2>8, FurtherText
    <3> QED
      BY <1>1, <2>6, <2>7, <3>1
  <2>11. PICK j \in Nat : j = i + m
    OBVIOUS
  <2>12. PICK h \in Nat : h = j + 1
    OBVIOUS
  <2>13. m \in Nat /\ m # 0 /\ m < n /\ r <= n
    BY <2>1, <2>2
  <2>14. j <= N /\ h <= N
    BY <1>1, <2>1, <2>11, <2>12
  <2>15. h + 2 + r <= N /\ h + 2 + r = i + n
    BY <1>1, <2>1, <2>2, <2>11, <2>12
  <2>16. /\ Over(w[j]) /\ \E x \in Strings : w[j].path = Append(c, x)
         /\ SaysIn(s, w, i, j, c, items)
    <3>1. MembersPlaced(s, w, N, m)
      BY <2>13
    <3>2. /\ m # 0 => Over(w[i + m]) /\ \E x \in Strings : w[i + m].path = Append(c, x)
          /\ SaysIn(s, w, i, i + m, c, a.items)
      BY <1>1, <2>10, <2>11, <2>14, <3>1, <2>13 DEF MembersPlaced
    <3> QED
      BY <2>5, <2>11, <2>13, <3>2
  <2>17. PICK x \in Strings : w[j].path = Append(c, x)
    BY <2>16
  <2>18. w[h] = Place(Append(c, x), "comma") /\ ~Said(w, h)
    <3>1. s[j + 1] = Mark(",") /\ j + 1 <= N /\ x \in Steps
      BY <2>10, <2>11, <2>12, <2>14 DEF Steps
    <3>2. w[j + 1] = Follow(w[j], s[j + 1])
      BY <3>1, WalkOn
    <3>3. w[h] = Follow(w[j], Mark(","))
      BY <2>12, <3>1, <3>2
    <3>4. w[h] = Place(Append(c, x), "comma") /\ w[h].role = "comma"
      <4>1. PICK u, y : u = w[j] /\ y = w[h]
        OBVIOUS
      <4>2. y = Follow(u, Mark(",")) /\ Over(u) /\ u.path = Append(c, x)
        BY <2>16, <2>17, <3>3, <4>1
      <4>3. y = Place(Append(c, x), "comma") /\ y.role = "comma"
        BY <3>1, <4>2, CommaPlace
      <4> QED
        BY <4>1, <4>3
    <3> QED
      BY <3>4 DEF Said
  <2>19. MayKey(w[h], c)
    BY <2>18, NextPlaces
  <2>20. i <= j /\ j <= h /\ \A y \in j + 1..h : y = h
    BY <2>11, <2>12
  <2>21. Reads(s, h, Named(k, v.text))
    BY <2>4, <2>10, <2>11, <2>12
  <2>22. \A y \in j + 1..h : ~Said(w, y)
    BY <2>18, <2>20
  <2>23. ValuesPlaced(s, w, N, r)
    BY <2>13
  <2>24. /\ Over(w[h + 2 + r]) /\ w[h + 2 + r].path = Append(c, k)
         /\ SaysIn(s, w, i, h + 2 + r, c, With(items, k, v.tree))
    BY <2>9, <2>15, <2>16, <2>19, <2>20, <2>21, <2>22, <2>23, MemberRead
  <2> QED
    BY <2>6, <2>15, <2>24
<1> QED
  BY <1>2, <1>3, <1>4, MembersCases

(* Where something may stand next, the last token has a place.             *)
LEMMA SomewherePlaces ==
  ASSUME NEW u, NEW p, MayBegin(u, p) \/ MayKey(u, p) \/ Over(u) \/ u.role \in {"key", "colon"}
  PROVE  u # Nowhere
<1>1. Nowhere.role = "none"
  BY DEF Nowhere, Place
<1> QED
  BY <1>1 DEF MayBegin, MayKey, Over

LEMMA BegunCases ==
  ASSUME NEW n \in Nat, NEW b \in Of(n).begun
  PROVE  \/ n = 0 /\ b = <<>>
         \/ \E v \in Of(n).values : b = v.text
         \/ n > 0 /\ \E r : BeginsInArray(n - 1, r) /\ b = Opened("array", r)
         \/ n > 0 /\ \E r : BeginsInObject(n - 1, r) /\ b = Opened("object", r)
BY BegunAre

LEMMA MemberBegunCases ==
  ASSUME NEW n \in Nat, NEW b \in Of(n).memberBegun
  PROVE  \/ n = 0 /\ b = <<>>
         \/ n = 1 /\ \E k \in Strings : b = Str(k)
         \/ n > 1 /\ \E k \in Strings, r \in Of(n - 2).begun : b = Named(k, r)
BY MemberBegunAre

(* What begins the inside of a container has a place.                      *)
LEMMA InArrayPlaced ==
  ASSUME NEW s, NEW w, NEW N \in Nat, Walks(s, w, N), NEW n \in Nat,
         \A x \in Nat : x <= n => BegunPlaced(s, w, N, x) /\ ElementsPlaced(s, w, N, x),
         NEW b, BeginsInArray(n, b),
         NEW i \in Nat, i + n <= N, NEW c \in Paths, w[i] = Place(c, "array"), Reads(s, i, b)
  PROVE  w[i + n] # Nowhere /\ b \in Seq(Tokens)
<1>1. CASE b \in Of(n).begun
  <2>1. 1 \in Steps
    BY DEF Steps
  <2>2. PICK p \in Paths : p = Append(c, 1)
    BY <2>1, PathSteps
  <2>3. MayBegin(w[i], p)
    BY <2>2, NextPlaces
  <2>4. BegunPlaced(s, w, N, n)
    OBVIOUS
  <2>5. w[i + n] # Nowhere
    BY <1>1, <2>3, <2>4 DEF BegunPlaced
  <2>6. b \in Seq(Tokens)
    BY <1>1, AllTyped DEF Typed
  <2> QED
    BY <2>5, <2>6
<1>2. CASE \E m \in 1..n - 1 : \E e \in Of(m).elements, r \in Of(n - 1 - m).begun :
             b = Further(e, r)
  <2>1. PICK m \in 1..n - 1 : \E e \in Of(m).elements, r \in Of(n - 1 - m).begun :
             b = Further(e, r)
    BY <1>2
  <2>2. PICK o \in Nat : o = n - 1 - m
    BY <2>1
  <2>3. PICK e \in Of(m).elements, r \in Of(o).begun : b = Further(e, r)
    BY <2>1, <2>2
  <2>4. /\ e.text \in Seq(Tokens) /\ Len(e.text) = m /\ r \in Seq(Tokens)
        /\ e.items \in Seq(Docs)
    BY AllTyped DEF Typed
  <2>5. Reads(s, i, Further(e, r)) <=>
              /\ Reads(s, i, e.text)
              /\ s[i + Len(e.text) + 1] = Mark(",")
              /\ Reads(s, i + Len(e.text) + 1, r)
    BY <2>4, FurtherText
  <2>6. Further(e, r) \in Seq(Tokens)
    BY <2>4, FurtherText
  <2>7. Reads(s, i, e.text) /\ s[i + m + 1] = Mark(",") /\ Reads(s, i + m + 1, r)
    BY <2>3, <2>4, <2>5
  <2>8. PICK j \in Nat : j = i + m
    OBVIOUS
  <2>9. PICK h \in Nat : h = j + 1
    OBVIOUS
  <2>10. m \in Nat /\ m # 0 /\ m <= n /\ o <= n
    BY <2>1, <2>2
  <2>11. j <= N /\ h <= N
    BY <2>1, <2>8, <2>9
  <2>12. h + o = i + n
    BY <2>1, <2>2, <2>8, <2>9
  <2>13. PICK L \in Nat : L = Len(e.items)
    BY <2>4
  <2>14. Over(w[j]) /\ w[j].path = Append(c, L)
    <3>1. ElementsPlaced(s, w, N, m)
      BY <2>10
    <3>2. m # 0 => Over(w[i + m]) /\ w[i + m].path = Append(c, Len(e.items))
      BY <2>7, <2>8, <2>10, <2>11, <3>1 DEF ElementsPlaced
    <3> QED
      BY <2>8, <2>10, <2>13, <3>2
  <2>15. L \in Steps /\ L + 1 \in Steps
    BY DEF Steps
  <2>16. PICK u, y : u = w[j] /\ y = w[h]
    OBVIOUS
  <2>17. y = Follow(u, Mark(","))
    <3>1. w[j + 1] = Follow(w[j], s[j + 1])
      BY <2>9, <2>11, WalkOn
    <3>2. s[j + 1] = Mark(",")
      BY <2>7, <2>8
    <3> QED
      BY <2>9, <2>16, <3>1, <3>2
  <2>18. Over(u) /\ u.path = Append(c, L)
    BY <2>14, <2>16
  <2>19. y = Place(Append(c, L), "comma")
    BY <2>15, <2>17, <2>18, CommaPlace
  <2>20. PICK p \in Paths : p = Append(c, L + 1)
    BY <2>15, PathSteps
  <2>21. MayBegin(y, p)
    BY <2>19, <2>20, NextPlaces
  <2>22. Reads(s, h, r) /\ h + o <= N
    BY <2>7, <2>8, <2>9, <2>12
  <2>23. BegunPlaced(s, w, N, o)
    BY <2>10
  <2>24. w[h + o] # Nowhere
    BY <2>16, <2>21, <2>22, <2>23 DEF BegunPlaced
  <2> QED
    BY <2>3, <2>6, <2>12, <2>24
<1> QED
  BY <1>1, <1>2 DEF BeginsInArray

LEMMA InObjectPlaced ==
  ASSUME NEW s, NEW w, NEW N \in Nat, Walks(s, w, N), NEW n \in Nat,
         \A x \in Nat : x <= n => MemberBegunPlaced(s, w, N, x) /\ MembersPlaced(s, w, N, x),
         NEW b, BeginsInObject(n, b),
         NEW i \in Nat, i + n <= N, NEW c \in Paths, w[i] = Place(c, "object"), Reads(s, i, b)
  PROVE  w[i + n] # Nowhere /\ b \in Seq(Tokens)
<1>1. CASE b \in Of(n).memberBegun
  <2>1. MayKey(w[i], c)
    BY NextPlaces
  <2>2. MemberBegunPlaced(s, w, N, n)
    OBVIOUS
  <2>3. w[i + n] # Nowhere
    BY <1>1, <2>1, <2>2 DEF MemberBegunPlaced
  <2>4. b \in Seq(Tokens)
    BY <1>1, AllTyped DEF Typed
  <2> QED
    BY <2>3, <2>4
<1>2. CASE \E m \in 1..n - 1 : \E e \in Of(m).members, r \in Of(n - 1 - m).memberBegun :
             b = Further(e, r)
  <2>1. PICK m \in 1..n - 1 : \E e \in Of(m).members, r \in Of(n - 1 - m).memberBegun :
             b = Further(e, r)
    BY <1>2
  <2>2. PICK o \in Nat : o = n - 1 - m
    BY <2>1
  <2>3. PICK e \in Of(m).members, r \in Of(o).memberBegun : b = Further(e, r)
    BY <2>1, <2>2
  <2>4. e.text \in Seq(Tokens) /\ Len(e.text) = m /\ r \in Seq(Tokens)
    BY AllTyped DEF Typed
  <2>5. Reads(s, i, Further(e, r)) <=>
              /\ Reads(s, i, e.text)
              /\ s[i + Len(e.text) + 1] = Mark(",")
              /\ Reads(s, i + Len(e.text) + 1, r)
    BY <2>4, FurtherText
  <2>6. Further(e, r) \in Seq(Tokens)
    BY <2>4, FurtherText
  <2>7. Reads(s, i, e.text) /\ s[i + m + 1] = Mark(",") /\ Reads(s, i + m + 1, r)
    BY <2>3, <2>4, <2>5
  <2>8. PICK j \in Nat : j = i + m
    OBVIOUS
  <2>9. PICK h \in Nat : h = j + 1
    OBVIOUS
  <2>10. m \in Nat /\ m # 0 /\ m <= n /\ o <= n
    BY <2>1, <2>2
  <2>11. j <= N /\ h <= N
    BY <2>1, <2>8, <2>9
  <2>12. h + o = i + n
    BY <2>1, <2>2, <2>8, <2>9
  <2>13. Over(w[j]) /\ \E k \in Strings : w[j].path = Append(c, k)
    <3>1. MembersPlaced(s, w, N, m)
      BY <2>10
    <3>2. m # 0 => Over(w[i + m]) /\ \E k \in Strings : w[i + m].path = Append(c, k)
      BY <2>7, <2>8, <2>10, <2>11, <3>1 DEF MembersPlaced
    <3> QED
      BY <2>8, <2>10, <3>2
  <2>14. PICK k \in Strings : w[j].path = Append(c, k)
    BY <2>13
  <2>15. k \in Steps
    BY DEF Steps
  <2>16. PICK u, y : u = w[j] /\ y = w[h]
    OBVIOUS
  <2>17. y = Follow(u, Mark(","))
    <3>1. w[j + 1] = Follow(w[j], s[j + 1])
      BY <2>9, <2>11, WalkOn
    <3>2. s[j + 1] = Mark(",")
      BY <2>7, <2>8
    <3> QED
      BY <2>9, <2>16, <3>1, <3>2
  <2>18. Over(u) /\ u.path = Append(c, k)
    BY <2>13, <2>14, <2>16
  <2>19. y = Place(Append(c, k), "comma")
    BY <2>15, <2>17, <2>18, CommaPlace
  <2>21. MayKey(y, c)
    BY <2>19, NextPlaces
  <2>22. Reads(s, h, r) /\ h + o <= N
    BY <2>7, <2>8, <2>9, <2>12
  <2>23. MemberBegunPlaced(s, w, N, o)
    BY <2>10
  <2>24. w[h + o] # Nowhere
    BY <2>16, <2>21, <2>22, <2>23 DEF MemberBegunPlaced
  <2> QED
    BY <2>3, <2>6, <2>12, <2>24
<1> QED
  BY <1>1, <1>2 DEF BeginsInObject

(* The induction, for what begins a member.                                *)
LEMMA MemberBegunStep ==
  ASSUME NEW s, NEW w, NEW N \in Nat, Walks(s, w, N), NEW n \in Nat,
         \A m \in Nat : m < n => BegunPlaced(s, w, N, m)
  PROVE  MemberBegunPlaced(s, w, N, n)
<1>1. SUFFICES ASSUME NEW b \in Of(n).memberBegun, NEW i \in Nat, NEW c \in Paths,
                      i + n <= N, MayKey(w[i], c), Reads(s, i, b)
               PROVE  w[i + n] # Nowhere
  BY DEF MemberBegunPlaced
<1>2. CASE n = 0 /\ b = <<>>
  <2>1. i + n = i
    BY <1>2
  <2> QED
    BY <1>1, <2>1, SomewherePlaces
<1>3. CASE n = 1 /\ \E k \in Strings : b = Str(k)
  <2>1. PICK k \in Strings : b = Str(k)
    BY <1>3
  <2>2. s[i + 1] = KeyToken(k)
    BY <1>1, <2>1, StrText
  <2>3. w[i + 1] = Follow(w[i], s[i + 1])
    BY <1>1, <1>3, WalkOn
  <2>4. PICK u : u = w[i + 1]
    OBVIOUS
  <2>5. u = Place(Append(c, k), "key")
    BY <1>1, <2>2, <2>3, <2>4, FollowKey
  <2>6. u.role = "key"
    BY <2>5, PlaceIs
  <2> QED
    BY <1>3, <2>4, <2>6, SomewherePlaces
<1>4. CASE n > 1 /\ \E k \in Strings, r \in Of(n - 2).begun : b = Named(k, r)
  <2>1. PICK m \in Nat : m = n - 2
    BY <1>4
  <2>2. PICK k \in Strings, r \in Of(m).begun : b = Named(k, r)
    BY <1>4, <2>1
  <2>3. r \in Seq(Tokens)
    BY AllTyped DEF Typed
  <2>4. Reads(s, i, Named(k, r)) <=>
           s[i + 1] = KeyToken(k) /\ s[i + 2] = Mark(":") /\ Reads(s, i + 2, r)
    BY <2>3, NamedText
  <2>5. s[i + 1] = KeyToken(k) /\ s[i + 2] = Mark(":") /\ Reads(s, i + 2, r)
    BY <1>1, <2>2, <2>4
  <2>6. PICK j \in Nat : j = i + 2
    OBVIOUS
  <2>7. j <= N /\ j + m <= N /\ j + m = i + n /\ m < n
    BY <1>1, <1>4, <2>1, <2>6
  <2>8. PICK p \in Paths : p = Append(c, k)
    BY PathSteps DEF Steps
  <2>9. MayBegin(w[j], p)
    BY <1>1, <2>5, <2>6, <2>7, <2>8, NameRead
  <2>10. BegunPlaced(s, w, N, m)
    BY <2>7
  <2>11. w[j + m] # Nowhere
    BY <2>5, <2>6, <2>7, <2>9, <2>10 DEF BegunPlaced
  <2> QED
    BY <2>7, <2>11
<1> QED
  BY <1>2, <1>3, <1>4, MemberBegunCases

(* What begins a container begins with the token that opens it.            *)
LEMMA OpenedPlaced ==
  ASSUME NEW s, NEW w, NEW N \in Nat, Walks(s, w, N), NEW type \in Containers,
         NEW r \in Seq(Tokens), NEW i \in Nat, i + 1 <= N, NEW p, MayBegin(w[i], p),
         Reads(s, i, Opened(type, r))
  PROVE  w[i + 1] = Place(p, type) /\ Reads(s, i + 1, r)
<1>1. s[i + 1] = Mark(Opening[type]) /\ Reads(s, i + 1, r)
  BY OpenedText
<1>2. w[i + 1] = Follow(w[i], s[i + 1])
  BY WalkOn
<1> QED
  BY <1>1, <1>2, FollowOpening

(* What begins the inside of a container is as long as it says.            *)
LEMMA BeginsTyped ==
  ASSUME NEW n \in Nat, NEW b, BeginsInArray(n, b) \/ BeginsInObject(n, b)
  PROVE  b \in Seq(Tokens) /\ Len(b) = n
<1>1. CASE b \in Of(n).begun \cup Of(n).memberBegun
  BY <1>1, AllTyped DEF Typed
<1>2. ASSUME NEW m \in 1..n - 1, NEW o \in Nat, o = n - 1 - m,
             NEW e \in Of(m).elements \cup Of(m).members,
             NEW r \in Of(o).begun \cup Of(o).memberBegun, b = Further(e, r)
      PROVE  b \in Seq(Tokens) /\ Len(b) = n
  <2>1. e.text \in Seq(Tokens) /\ Len(e.text) = m /\ r \in Seq(Tokens) /\ Len(r) = o
    BY AllTyped DEF Typed
  <2>2. /\ Further(e, r) \in Seq(Tokens)
        /\ Len(Further(e, r)) = Len(e.text) + 1 + Len(r)
    BY <2>1, FurtherText
  <2>3. Len(b) = m + 1 + o /\ b \in Seq(Tokens)
    BY <1>2, <2>1, <2>2
  <2>4. m + 1 + o = n
    BY <1>2
  <2> QED
    BY <2>3, <2>4
<1>3. \A m \in 1..n - 1 : n - 1 - m \in Nat
  OBVIOUS
<1>4. CASE \E m \in 1..n - 1 : \E e \in Of(m).elements, r \in Of(n - 1 - m).begun :
             b = Further(e, r)
  <2>1. PICK m \in 1..n - 1 : \E e \in Of(m).elements, r \in Of(n - 1 - m).begun :
             b = Further(e, r)
    BY <1>4
  <2>2. PICK o \in Nat : o = n - 1 - m
    BY <1>3
  <2> QED
    BY <1>2, <2>1, <2>2
<1>5. CASE \E m \in 1..n - 1 : \E e \in Of(m).members, r \in Of(n - 1 - m).memberBegun :
             b = Further(e, r)
  <2>1. PICK m \in 1..n - 1 : \E e \in Of(m).members, r \in Of(n - 1 - m).memberBegun :
             b = Further(e, r)
    BY <1>5
  <2>2. PICK o \in Nat : o = n - 1 - m
    BY <1>3
  <2> QED
    BY <1>2, <2>1, <2>2
<1> QED
  BY <1>1, <1>4, <1>5 DEF BeginsInArray, BeginsInObject

(* The induction, for what begins a value.                                 *)
LEMMA BegunStep ==
  ASSUME NEW s, NEW w, NEW N \in Nat, Walks(s, w, N), NEW n \in Nat,
         \A m \in Nat : m < n =>
           /\ BegunPlaced(s, w, N, m) /\ MemberBegunPlaced(s, w, N, m)
           /\ ElementsPlaced(s, w, N, m) /\ MembersPlaced(s, w, N, m),
         ValuesPlaced(s, w, N, n)
  PROVE  BegunPlaced(s, w, N, n)
<1>1. SUFFICES ASSUME NEW b \in Of(n).begun, NEW i \in Nat, NEW p \in Paths,
                      i + n <= N, MayBegin(w[i], p), Reads(s, i, b)
               PROVE  w[i + n] # Nowhere
  BY DEF BegunPlaced
<1>2. CASE n = 0 /\ b = <<>>
  <2>1. i + n = i
    BY <1>2
  <2> QED
    BY <1>1, <2>1, SomewherePlaces
<1>3. CASE \E v \in Of(n).values : b = v.text
  <2>1. Over(w[i + n])
    BY <1>1, <1>3 DEF ValuesPlaced
  <2> QED
    BY <2>1, SomewherePlaces
<1>4. CASE n > 0 /\ \E r : BeginsInArray(n - 1, r) /\ b = Opened("array", r)
  <2>1. PICK m \in Nat : m = n - 1
    BY <1>4
  <2>2. PICK r : BeginsInArray(m, r) /\ b = Opened("array", r)
    BY <1>4, <2>1
  <2>3. r \in Seq(Tokens)
    BY <2>2, BeginsTyped
  <2>4. i + 1 <= N
    BY <1>1, <1>4
  <2>5. "array" \in Containers
    BY DEF Containers
  <2>6. PICK j \in Nat : j = i + 1
    OBVIOUS
  <2>7. w[j] = Place(p, "array") /\ Reads(s, j, r)
    BY <1>1, <2>2, <2>3, <2>4, <2>5, <2>6, OpenedPlaced
  <2>8. j + m <= N /\ j + m = i + n
    BY <1>1, <2>1, <2>6
  <2>9. \A x \in Nat : x <= m => BegunPlaced(s, w, N, x) /\ ElementsPlaced(s, w, N, x)
    BY <2>1
  <2>10. w[j + m] # Nowhere
    BY <2>2, <2>7, <2>8, <2>9, InArrayPlaced
  <2> QED
    BY <2>8, <2>10
<1>5. CASE n > 0 /\ \E r : BeginsInObject(n - 1, r) /\ b = Opened("object", r)
  <2>1. PICK m \in Nat : m = n - 1
    BY <1>5
  <2>2. PICK r : BeginsInObject(m, r) /\ b = Opened("object", r)
    BY <1>5, <2>1
  <2>3. r \in Seq(Tokens)
    BY <2>2, BeginsTyped
  <2>4. i + 1 <= N
    BY <1>1, <1>5
  <2>5. "object" \in Containers
    BY DEF Containers
  <2>6. PICK j \in Nat : j = i + 1
    OBVIOUS
  <2>7. w[j] = Place(p, "object") /\ Reads(s, j, r)
    BY <1>1, <2>2, <2>3, <2>4, <2>5, <2>6, OpenedPlaced
  <2>8. j + m <= N /\ j + m = i + n
    BY <1>1, <2>1, <2>6
  <2>9. \A x \in Nat : x <= m => MemberBegunPlaced(s, w, N, x) /\ MembersPlaced(s, w, N, x)
    BY <2>1
  <2>10. w[j + m] # Nowhere
    BY <2>2, <2>7, <2>8, <2>9, InObjectPlaced
  <2> QED
    BY <2>8, <2>10
<1> QED
  BY <1>2, <1>3, <1>4, <1>5, BegunCases

AllPlacedAt(s, w, N, n) ==
  /\ ValuesPlaced(s, w, N, n)
  /\ ElementsPlaced(s, w, N, n) /\ MembersPlaced(s, w, N, n)
  /\ BegunPlaced(s, w, N, n) /\ MemberBegunPlaced(s, w, N, n)

(* Whatever the grammar makes is placed (and the reader accepts it): the   *)
(* grammar allows nothing that the places do not.                          *)
LEMMA AllPlaced ==
  ASSUME NEW s, NEW w, NEW N \in Nat, Walks(s, w, N)
  PROVE  \A n \in Nat : AllPlacedAt(s, w, N, n)
<1> DEFINE S == {n \in Nat : AllPlacedAt(s, w, N, n)}
<1>1. ASSUME NEW n \in Nat, \A m \in Nat : m < n => m \in S
      PROVE  AllPlacedAt(s, w, N, n)
  <2>1. \A m \in Nat : m < n => AllPlacedAt(s, w, N, m)
    BY <1>1
  <2> HIDE DEF S
  <2>2. ValuesPlaced(s, w, N, n)
    BY <2>1, ValuesStep DEF AllPlacedAt
  <2>3. \A m \in Nat : m <= n => ValuesPlaced(s, w, N, m)
    BY <2>1, <2>2 DEF AllPlacedAt
  <2>4. ElementsPlaced(s, w, N, n)
    BY <2>1, <2>3, ElementsStep DEF AllPlacedAt
  <2>5. MembersPlaced(s, w, N, n)
    BY <2>1, <2>3, MembersStep DEF AllPlacedAt
  <2>6. BegunPlaced(s, w, N, n)
    BY <2>1, <2>2, BegunStep DEF AllPlacedAt
  <2>7. MemberBegunPlaced(s, w, N, n)
    BY <2>1, MemberBegunStep DEF AllPlacedAt
  <2> QED
    BY <2>2, <2>4, <2>5, <2>6, <2>7 DEF AllPlacedAt
<1>2. S \in SUBSET Nat
  OBVIOUS
<1>3. \A n \in Nat : AllPlacedAt(s, w, N, n) => n \in S
  OBVIOUS
<1> HIDE DEF S
<1>4. \A n \in Nat : n \in S
  BY <1>1, <1>2, <1>3, Inductively
<1> QED
  BY <1>4 DEF S

-----------------------------------------------------------------------------
(* What has a place is made by the grammar: the rules, by what is read.    *)

Comma == Mark(",")

(* What is read behind i, in n tokens.                                     *)
HasValue(s, i, n) == \E v \in Of(n).values : Reads(s, i, v.text)

HasElements(s, i, n) == \E e \in Of(n).elements : Reads(s, i, e.text)

HasMembers(s, i, n) == \E l \in Of(n).members : Reads(s, i, l.text)

HasBegun(s, i, n) == \E b \in Of(n).begun : Reads(s, i, b)

HasMemberBegun(s, i, n) == \E b \in Of(n).memberBegun : Reads(s, i, b)

(* The rules once more, of what is read: no token, a scalar, a container,  *)
(* an element or a member, and one more.                                   *)
LEMMA ReadNothing ==
  ASSUME NEW s, NEW i \in Nat
  PROVE  /\ HasElements(s, i, 0) /\ HasMembers(s, i, 0)
         /\ HasBegun(s, i, 0) /\ HasMemberBegun(s, i, 0)
         /\ ~HasValue(s, i, 0)
<1>1. Reads(s, i, <<>>)
  BY DEF Reads
<1>2. PICK l : l = [text |-> <<>>, items |-> <<>>]
  OBVIOUS
<1>3. l.text = <<>>
  BY <1>2
<1>4. l \in Of(0).elements /\ l \in Of(0).members /\ <<>> \in Of(0).begun
      /\ <<>> \in Of(0).memberBegun /\ Of(0).values = {}
  BY <1>2, Nothing
<1> QED
  BY <1>1, <1>3, <1>4 DEF HasElements, HasMembers, HasBegun, HasMemberBegun, HasValue

LEMMA MakeScalar ==
  ASSUME NEW s, NEW i \in Nat, s[i + 1] \in Simple
  PROVE  HasValue(s, i, 1)
<1>1. PICK t \in Simple : t = s[i + 1]
  OBVIOUS
<1>2. PICK v : v = Single(t)
  OBVIOUS
<1>3. v \in Of(1).values
  BY <1>2, ValuesAre
<1>4. v.text = <<t>> /\ t \in Tokens
  BY <1>2, SingleIs DEF Single
<1>5. Reads(s, i, v.text)
  BY <1>1, <1>4, OneToken
<1> QED
  BY <1>3, <1>5 DEF HasValue

LEMMA MakeArray ==
  ASSUME NEW s, NEW i \in Nat, NEW m \in Nat, s[i + 1] = Mark(Opening["array"]),
         HasElements(s, i + 1, m), s[i + m + 2] = Mark(Closing["array"])
  PROVE  HasValue(s, i, m + 2)
<1>1. PICK e \in Of(m).elements : Reads(s, i + 1, e.text)
  BY DEF HasElements
<1>2. PICK v : v = Container("array", e)
  OBVIOUS
<1>3. m + 2 - 2 = m /\ m + 2 > 1 /\ m + 2 \in Nat
  OBVIOUS
<1>4. v \in Of(m + 2).values
  BY <1>2, <1>3, ValuesAre
<1>5. e.text \in Seq(Tokens) /\ Len(e.text) = m /\ "array" \in Containers
  BY AllTyped DEF Typed, Containers
<1>6. Reads(s, i, Container("array", e).text) <=>
              /\ s[i + 1] = Mark(Opening["array"])
              /\ Reads(s, i + 1, e.text)
              /\ s[i + Len(e.text) + 2] = Mark(Closing["array"])
  BY <1>5, ContainerText
<1>7. Reads(s, i, v.text)
  BY <1>1, <1>2, <1>5, <1>6
<1> QED
  BY <1>4, <1>7 DEF HasValue

LEMMA MakeObject ==
  ASSUME NEW s, NEW i \in Nat, NEW m \in Nat, s[i + 1] = Mark(Opening["object"]),
         HasMembers(s, i + 1, m), s[i + m + 2] = Mark(Closing["object"])
  PROVE  HasValue(s, i, m + 2)
<1>1. PICK e \in Of(m).members : Reads(s, i + 1, e.text)
  BY DEF HasMembers
<1>2. PICK v : v = Container("object", e)
  OBVIOUS
<1>3. m + 2 - 2 = m /\ m + 2 > 1 /\ m + 2 \in Nat
  OBVIOUS
<1>4. v \in Of(m + 2).values
  BY <1>2, <1>3, ValuesAre
<1>5. e.text \in Seq(Tokens) /\ Len(e.text) = m /\ "object" \in Containers
  BY AllTyped DEF Typed, Containers
<1>6. Reads(s, i, Container("object", e).text) <=>
              /\ s[i + 1] = Mark(Opening["object"])
              /\ Reads(s, i + 1, e.text)
              /\ s[i + Len(e.text) + 2] = Mark(Closing["object"])
  BY <1>5, ContainerText
<1>7. Reads(s, i, v.text)
  BY <1>1, <1>2, <1>5, <1>6
<1> QED
  BY <1>4, <1>7 DEF HasValue

LEMMA MakeElement ==
  ASSUME NEW s, NEW i \in Nat, NEW n \in Nat, HasValue(s, i, n)
  PROVE  HasElements(s, i, n)
<1>1. PICK v \in Of(n).values : Reads(s, i, v.text)
  BY DEF HasValue
<1>2. PICK e : e = Element(v)
  OBVIOUS
<1>3. e \in Of(n).elements
  BY <1>2, ElementsAre
<1>4. e.text = v.text
  BY <1>2 DEF Element
<1> QED
  BY <1>1, <1>3, <1>4 DEF HasElements

LEMMA FurtherRead ==
  ASSUME NEW s, NEW i \in Nat, NEW m \in Nat, NEW l, l.text \in Seq(Tokens), Len(l.text) = m,
         NEW b \in Seq(Tokens), NEW c, c = Further(l, b),
         Reads(s, i, l.text), s[i + m + 1] = Comma, Reads(s, i + m + 1, b)
  PROVE  Reads(s, i, c)
<1>1. Reads(s, i, Further(l, b)) <=>
              /\ Reads(s, i, l.text)
              /\ s[i + Len(l.text) + 1] = Comma
              /\ Reads(s, i + Len(l.text) + 1, b)
  BY FurtherText DEF Comma
<1> QED
  BY <1>1

LEMMA NamedRead ==
  ASSUME NEW s, NEW i \in Nat, NEW k \in Strings, NEW b \in Seq(Tokens),
         NEW c, c = Named(k, b),
         s[i + 1] = KeyToken(k), s[i + 2] = Mark(":"), Reads(s, i + 2, b)
  PROVE  Reads(s, i, c) /\ c \in Seq(Tokens)
<1>1. Reads(s, i, Named(k, b)) <=>
           s[i + 1] = KeyToken(k) /\ s[i + 2] = Mark(":") /\ Reads(s, i + 2, b)
  BY NamedText
<1>2. Named(k, b) \in Seq(Tokens)
  BY NamedText
<1> QED
  BY <1>1, <1>2

LEMMA MakeAndElement ==
  ASSUME NEW s, NEW i \in Nat, NEW m \in Nat, m # 0, NEW r \in Nat,
         HasElements(s, i, m), s[i + m + 1] = Comma, HasValue(s, i + m + 1, r)
  PROVE  HasElements(s, i, m + 1 + r)
<1>1. PICK a \in Of(m).elements : Reads(s, i, a.text)
  BY DEF HasElements
<1>2. PICK v \in Of(r).values : Reads(s, i + m + 1, v.text)
  BY DEF HasValue
<1>3. r # 0
  BY <1>2, Nothing
<1>4. PICK n \in Nat : n = m + 1 + r
  OBVIOUS
<1>5. m \in 1..n - 2 /\ r = n - 1 - m
  BY <1>3, <1>4
<1>6. PICK e : e = AndElement(a, v)
  OBVIOUS
<1>7. \E j \in 1..n - 2 : \E x \in Of(j).elements, y \in Of(n - 1 - j).values :
        e = AndElement(x, y)
  BY <1>5, <1>6
<1>8. e \in Of(n).elements
  BY <1>7, ElementsAre
<1>9. e.text = Further(a, v.text)
  BY <1>6 DEF AndElement
<1>10. a.text \in Seq(Tokens) /\ Len(a.text) = m /\ v.text \in Seq(Tokens)
  BY AllTyped DEF Typed
<1>11. Reads(s, i, e.text)
  BY <1>1, <1>2, <1>9, <1>10, FurtherRead
<1> QED
  BY <1>4, <1>8, <1>11 DEF HasElements

LEMMA MakeMember ==
  ASSUME NEW s, NEW i \in Nat, NEW r \in Nat, NEW k \in Strings,
         s[i + 1] = KeyToken(k), s[i + 2] = Mark(":"), HasValue(s, i + 2, r)
  PROVE  HasMembers(s, i, r + 2)
<1>1. PICK v \in Of(r).values : Reads(s, i + 2, v.text)
  BY DEF HasValue
<1>2. r # 0
  BY <1>1, Nothing
<1>3. PICK n \in Nat : n = r + 2
  OBVIOUS
<1>4. n > 2 /\ n - 2 = r
  BY <1>2, <1>3
<1>5. PICK l : l = Member(k, v)
  OBVIOUS
<1>6. n > 2 /\ \E x \in Strings, y \in Of(n - 2).values : l = Member(x, y)
  BY <1>4, <1>5
<1>7. l \in Of(n).members
  BY <1>6, MembersAre
<1>8. l.text = Named(k, v.text)
  BY <1>5 DEF Member
<1>9. v.text \in Seq(Tokens)
  BY AllTyped DEF Typed
<1>10. Reads(s, i, l.text)
  BY <1>1, <1>8, <1>9, NamedRead
<1> QED
  BY <1>3, <1>7, <1>10 DEF HasMembers

LEMMA MakeAndMember ==
  ASSUME NEW s, NEW i \in Nat, NEW m \in Nat, m # 0, NEW r \in Nat, NEW k \in Strings,
         HasMembers(s, i, m), s[i + m + 1] = Comma, NEW h \in Nat, h = i + m + 1,
         s[h + 1] = KeyToken(k), s[h + 2] = Mark(":"), HasValue(s, h + 2, r)
  PROVE  HasMembers(s, i, m + 3 + r)
<1>1. PICK a \in Of(m).members : Reads(s, i, a.text)
  BY DEF HasMembers
<1>2. PICK v \in Of(r).values : Reads(s, h + 2, v.text)
  BY DEF HasValue
<1>3. r # 0
  BY <1>2, Nothing
<1>4. PICK n \in Nat : n = m + 3 + r
  OBVIOUS
<1>5. m \in 1..n - 4 /\ r = n - 3 - m
  BY <1>3, <1>4
<1>6. PICK l : l = AndMember(a, k, v)
  OBVIOUS
<1>7. \E j \in 1..n - 4 : \E x \in Of(j).members, z \in Strings, y \in Of(n - 3 - j).values :
        l = AndMember(x, z, y)
  BY <1>5, <1>6
<1>8. l \in Of(n).members
  BY <1>7, MembersAre
<1>9. PICK b : b = Named(k, v.text)
  OBVIOUS
<1>10. a.text \in Seq(Tokens) /\ Len(a.text) = m /\ v.text \in Seq(Tokens)
  BY AllTyped DEF Typed
<1>11. Reads(s, h, b) /\ b \in Seq(Tokens)
  BY <1>2, <1>9, <1>10, NamedRead
<1>12. l.text = Further(a, b)
  BY <1>6, <1>9 DEF AndMember
<1>13. Reads(s, i + m + 1, b)
  BY <1>11
<1>14. Reads(s, i, l.text)
  BY <1>1, <1>10, <1>11, <1>12, <1>13, FurtherRead
<1> QED
  BY <1>4, <1>8, <1>14 DEF HasMembers

(* A value begins one, and so does what is in a container, as far as it    *)
(* has come.                                                               *)
LEMMA MakeWhole ==
  ASSUME NEW s, NEW i \in Nat, NEW n \in Nat, HasValue(s, i, n)
  PROVE  HasBegun(s, i, n)
<1>1. PICK v \in Of(n).values : Reads(s, i, v.text)
  BY DEF HasValue
<1>2. v.text \in Of(n).begun
  BY BegunAre
<1> QED
  BY <1>1, <1>2 DEF HasBegun

LEMMA BeginKey ==
  ASSUME NEW s, NEW i \in Nat, NEW k \in Strings, s[i + 1] = KeyToken(k)
  PROVE  HasMemberBegun(s, i, 1)
<1>1. Str(k) \in Of(1).memberBegun
  BY MemberBegunAre
<1>2. Reads(s, i, Str(k))
  BY StrText
<1> QED
  BY <1>1, <1>2 DEF HasMemberBegun

LEMMA BeginNamed ==
  ASSUME NEW s, NEW i \in Nat, NEW k \in Strings, NEW r \in Nat,
         s[i + 1] = KeyToken(k), s[i + 2] = Mark(":"), HasBegun(s, i + 2, r)
  PROVE  HasMemberBegun(s, i, r + 2)
<1>1. PICK b \in Of(r).begun : Reads(s, i + 2, b)
  BY DEF HasBegun
<1>2. b \in Seq(Tokens)
  BY AllTyped DEF Typed
<1>3. PICK c : c = Named(k, b)
  OBVIOUS
<1>4. Reads(s, i, c)
  BY <1>1, <1>2, <1>3, NamedRead
<1>5. PICK n \in Nat : n = r + 2
  OBVIOUS
<1>6. n > 1 /\ n - 2 = r
  BY <1>5
<1>7. n > 1 /\ \E x \in Strings, y \in Of(n - 2).begun : c = Named(x, y)
  BY <1>3, <1>6
<1>8. c \in Of(n).memberBegun
  BY <1>7, MemberBegunAre
<1> QED
  BY <1>4, <1>5, <1>8 DEF HasMemberBegun

LEMMA OpenArray ==
  ASSUME NEW s, NEW i \in Nat, s[i + 1] = Mark(Opening["array"]), NEW n \in Nat,
         NEW b, BeginsInArray(n, b), Reads(s, i + 1, b)
  PROVE  HasBegun(s, i, n + 1)
<1>1. PICK p : p = Opened("array", b)
  OBVIOUS
<1>2. PICK m \in Nat : m = n + 1
  OBVIOUS
<1>3. m > 0 /\ m - 1 = n
  BY <1>2
<1>4. m > 0 /\ \E r : BeginsInArray(m - 1, r) /\ p = Opened("array", r)
  BY <1>1, <1>3
<1>5. p \in Of(m).begun
  BY <1>4, BegunAre
<1>6. b \in Seq(Tokens) /\ "array" \in Containers
  BY BeginsTyped DEF Containers
<1>7. Reads(s, i, Opened("array", b)) <=>
              s[i + 1] = Mark(Opening["array"]) /\ Reads(s, i + 1, b)
  BY <1>6, OpenedText
<1> QED
  BY <1>1, <1>2, <1>5, <1>7 DEF HasBegun

LEMMA BeginArray ==
  ASSUME NEW s, NEW i \in Nat, s[i + 1] = Mark(Opening["array"]), NEW n \in Nat,
         HasBegun(s, i + 1, n)
  PROVE  HasBegun(s, i, n + 1)
<1>1. PICK b \in Of(n).begun : Reads(s, i + 1, b)
  BY DEF HasBegun
<1>2. BeginsInArray(n, b)
  BY DEF BeginsInArray
<1> QED
  BY <1>1, <1>2, OpenArray

LEMMA ContinueArray ==
  ASSUME NEW s, NEW i \in Nat, s[i + 1] = Mark(Opening["array"]),
         NEW m \in Nat, m # 0, NEW r \in Nat,
         HasElements(s, i + 1, m), s[i + m + 2] = Comma, HasBegun(s, i + m + 2, r)
  PROVE  HasBegun(s, i, m + 2 + r)
<1>1. PICK l \in Of(m).elements : Reads(s, i + 1, l.text)
  BY DEF HasElements
<1>2. PICK b \in Of(r).begun : Reads(s, i + m + 2, b)
  BY DEF HasBegun
<1>3. PICK n \in Nat : n = m + 1 + r
  OBVIOUS
<1>4. m \in 1..n - 1 /\ r = n - 1 - m /\ n + 1 = m + 2 + r
  BY <1>3
<1>5. PICK c : c = Further(l, b)
  OBVIOUS
<1>6. \E j \in 1..n - 1 : \E x \in Of(j).elements, y \in Of(n - 1 - j).begun :
        c = Further(x, y)
  BY <1>4, <1>5
<1>7. BeginsInArray(n, c)
  BY <1>6 DEF BeginsInArray
<1>8. l.text \in Seq(Tokens) /\ Len(l.text) = m /\ b \in Seq(Tokens)
  BY AllTyped DEF Typed
<1>9. PICK j \in Nat : j = i + 1
  OBVIOUS
<1>10. j + m + 1 = i + m + 2
  BY <1>9
<1>11. Reads(s, j, l.text) /\ s[j + m + 1] = Comma /\ Reads(s, j + m + 1, b)
  BY <1>1, <1>2, <1>9, <1>10
<1>12. Reads(s, j, c)
  BY <1>5, <1>8, <1>11, FurtherRead
<1>13. HasBegun(s, i, n + 1)
  BY <1>7, <1>9, <1>12, OpenArray
<1> QED
  BY <1>4, <1>13

LEMMA OpenObject ==
  ASSUME NEW s, NEW i \in Nat, s[i + 1] = Mark(Opening["object"]), NEW n \in Nat,
         NEW b, BeginsInObject(n, b), Reads(s, i + 1, b)
  PROVE  HasBegun(s, i, n + 1)
<1>1. PICK p : p = Opened("object", b)
  OBVIOUS
<1>2. PICK m \in Nat : m = n + 1
  OBVIOUS
<1>3. m > 0 /\ m - 1 = n
  BY <1>2
<1>4. m > 0 /\ \E r : BeginsInObject(m - 1, r) /\ p = Opened("object", r)
  BY <1>1, <1>3
<1>5. p \in Of(m).begun
  BY <1>4, BegunAre
<1>6. b \in Seq(Tokens) /\ "object" \in Containers
  BY BeginsTyped DEF Containers
<1>7. Reads(s, i, Opened("object", b)) <=>
              s[i + 1] = Mark(Opening["object"]) /\ Reads(s, i + 1, b)
  BY <1>6, OpenedText
<1> QED
  BY <1>1, <1>2, <1>5, <1>7 DEF HasBegun

LEMMA BeginObject ==
  ASSUME NEW s, NEW i \in Nat, s[i + 1] = Mark(Opening["object"]), NEW n \in Nat,
         HasMemberBegun(s, i + 1, n)
  PROVE  HasBegun(s, i, n + 1)
<1>1. PICK b \in Of(n).memberBegun : Reads(s, i + 1, b)
  BY DEF HasMemberBegun
<1>2. BeginsInObject(n, b)
  BY DEF BeginsInObject
<1> QED
  BY <1>1, <1>2, OpenObject

LEMMA ContinueObject ==
  ASSUME NEW s, NEW i \in Nat, s[i + 1] = Mark(Opening["object"]),
         NEW m \in Nat, m # 0, NEW r \in Nat,
         HasMembers(s, i + 1, m), s[i + m + 2] = Comma, HasMemberBegun(s, i + m + 2, r)
  PROVE  HasBegun(s, i, m + 2 + r)
<1>1. PICK l \in Of(m).members : Reads(s, i + 1, l.text)
  BY DEF HasMembers
<1>2. PICK b \in Of(r).memberBegun : Reads(s, i + m + 2, b)
  BY DEF HasMemberBegun
<1>3. PICK n \in Nat : n = m + 1 + r
  OBVIOUS
<1>4. m \in 1..n - 1 /\ r = n - 1 - m /\ n + 1 = m + 2 + r
  BY <1>3
<1>5. PICK c : c = Further(l, b)
  OBVIOUS
<1>6. \E j \in 1..n - 1 : \E x \in Of(j).members, y \in Of(n - 1 - j).memberBegun :
        c = Further(x, y)
  BY <1>4, <1>5
<1>7. BeginsInObject(n, c)
  BY <1>6 DEF BeginsInObject
<1>8. l.text \in Seq(Tokens) /\ Len(l.text) = m /\ b \in Seq(Tokens)
  BY AllTyped DEF Typed
<1>9. PICK j \in Nat : j = i + 1
  OBVIOUS
<1>10. j + m + 1 = i + m + 2
  BY <1>9
<1>11. Reads(s, j, l.text) /\ s[j + m + 1] = Comma /\ Reads(s, j + m + 1, b)
  BY <1>1, <1>2, <1>9, <1>10
<1>12. Reads(s, j, c)
  BY <1>5, <1>8, <1>11, FurtherRead
<1>13. HasBegun(s, i, n + 1)
  BY <1>7, <1>9, <1>12, OpenObject
<1> QED
  BY <1>4, <1>13

(* What is in a container of that type.                                    *)
HasList(type, s, i, n) ==
  IF type = "array" THEN HasElements(s, i, n) ELSE HasMembers(s, i, n)

(* The container has begun behind a, and at b its next entry may begin.    *)
EntryDue(type, s, a, b) ==
  /\ s[a + 1] = Mark(Opening[type])
  /\ \/ b = a + 1
     \/ \E m \in Nat :
          m # 0 /\ HasList(type, s, a + 1, m) /\ s[a + m + 2] = Comma /\ b = a + m + 2

(* The value of an entry that begins at b begins at e.                     *)
Entry(type, s, b, e) ==
  \/ type = "array" /\ e = b
  \/ /\ type = "object" /\ e = b + 2 /\ s[b + 2] = Mark(":")
     /\ \E k \in Strings : s[b + 1] = KeyToken(k)

(* In the container that begins behind a, the value of an entry begins     *)
(* behind e.                                                               *)
Lead(type, s, a, e) == \E b \in Nat : EntryDue(type, s, a, b) /\ Entry(type, s, b, e)

(* The tokens behind i and up to j begin a value.                          *)
BegunTo(s, i, j) == \E n \in Nat : j = i + n /\ HasBegun(s, i, n)

(* What is in a container makes it one, once it is closed.                 *)
LEMMA MakeContainer ==
  ASSUME NEW s, NEW a \in Nat, NEW m \in Nat, NEW type \in Containers,
         s[a + 1] = Mark(Opening[type]), HasList(type, s, a + 1, m),
         s[a + m + 2] = Mark(Closing[type])
  PROVE  HasValue(s, a, m + 2)
<1>1. CASE type = "array"
  <2>1. HasElements(s, a + 1, m)
    BY <1>1 DEF HasList
  <2> QED
    BY <1>1, <2>1, MakeArray
<1>2. CASE type = "object"
  <2>1. HasMembers(s, a + 1, m)
    BY <1>2 DEF HasList
  <2> QED
    BY <1>2, <2>1, MakeObject
<1> QED
  BY <1>1, <1>2 DEF Containers

(* What is in a container, from i to f.                                    *)
Listed(type, s, i, f) == \E m \in Nat : m # 0 /\ HasList(type, s, i, m) /\ i + m = f

(* What was in a container before, and one entry more.                     *)
LEMMA MakeList ==
  ASSUME NEW s, NEW a \in Nat, NEW b \in Nat, NEW e \in Nat, NEW r \in Nat,
         NEW type \in Containers,
         EntryDue(type, s, a, b), Entry(type, s, b, e), HasValue(s, e, r),
         NEW i \in Nat, i = a + 1, NEW f, f = e + r
  PROVE  Listed(type, s, i, f)
<1>1. i = a + 1
  OBVIOUS
<1>2. \/ b = i
      \/ \E m \in Nat : m # 0 /\ HasList(type, s, i, m) /\ s[a + m + 2] = Comma /\ b = a + m + 2
  BY <1>1 DEF EntryDue
<1>3. r # 0
  BY ReadNothing
<1>4. CASE type = "array"
  <2>1. e = b
    BY <1>4 DEF Entry
  <2>2. CASE b = i
    <3>1. HasElements(s, i, r)
      BY <2>1, <2>2, MakeElement
    <3> QED
      BY <1>3, <1>4, <2>1, <2>2, <3>1 DEF HasList, Listed
  <2>3. ASSUME NEW m \in Nat, m # 0, HasList(type, s, i, m), s[a + m + 2] = Comma, b = a + m + 2
        PROVE  Listed(type, s, i, f)
    <3>1. HasElements(s, i, m)
      BY <1>4, <2>3 DEF HasList
    <3>2. i + m + 1 = b /\ s[i + m + 1] = Comma /\ HasValue(s, i + m + 1, r)
      BY <1>1, <2>1, <2>3
    <3>3. HasElements(s, i, m + 1 + r)
      BY <2>3, <3>1, <3>2, MakeAndElement
    <3>4. PICK x \in Nat : x = m + 1 + r
      OBVIOUS
    <3>5. x # 0 /\ HasList(type, s, i, x) /\ i + x = f
      BY <1>4, <2>1, <3>2, <3>3, <3>4 DEF HasList
    <3> QED
      BY <3>5 DEF Listed
  <2> QED
    BY <1>1, <1>2, <2>2, <2>3
<1>5. CASE type = "object"
  <2>1. e = b + 2 /\ s[b + 2] = Mark(":") /\ HasValue(s, b + 2, r)
    BY <1>5 DEF Entry
  <2>2. PICK k \in Strings : s[b + 1] = KeyToken(k)
    BY <1>5 DEF Entry
  <2>3. CASE b = i
    <3>1. HasMembers(s, i, r + 2)
      BY <2>1, <2>2, <2>3, MakeMember
    <3>2. r + 2 \in Nat /\ r + 2 # 0 /\ i + (r + 2) = f
      BY <1>1, <2>1, <2>3
    <3>3. HasList(type, s, i, r + 2)
      BY <1>1, <1>5, <3>1 DEF HasList
    <3> QED
      BY <3>2, <3>3 DEF Listed
  <2>4. ASSUME NEW m \in Nat, m # 0, HasList(type, s, i, m), s[a + m + 2] = Comma, b = a + m + 2
        PROVE  Listed(type, s, i, f)
    <3>1. HasMembers(s, i, m)
      BY <1>5, <2>4 DEF HasList
    <3>2. b = i + m + 1 /\ s[i + m + 1] = Comma
      BY <1>1, <2>4
    <3>3. HasMembers(s, i, m + 3 + r)
      BY <2>1, <2>2, <2>4, <3>1, <3>2, MakeAndMember
    <3>4. PICK x \in Nat : x = m + 3 + r
      OBVIOUS
    <3>5. x # 0 /\ HasList(type, s, i, x) /\ i + x = f
      BY <1>5, <2>1, <3>2, <3>3, <3>4 DEF HasList
    <3> QED
      BY <3>5 DEF Listed
  <2> QED
    BY <1>1, <1>2, <2>3, <2>4
<1> QED
  BY <1>4, <1>5 DEF Containers

(* What begins an entry of a container that has begun, begins that         *)
(* container.                                                              *)
LEMMA InArrayBegins ==
  ASSUME NEW s, NEW a \in Nat, NEW b \in Nat, NEW n \in Nat,
         EntryDue("array", s, a, b), HasBegun(s, b, n)
  PROVE  BegunTo(s, a, b + n)
<1>1. s[a + 1] = Mark(Opening["array"])
  BY DEF EntryDue
<1>2. CASE b = a + 1
  <2>1. HasBegun(s, a, n + 1)
    BY <1>1, <1>2, BeginArray
  <2>2. n + 1 \in Nat /\ b + n = a + (n + 1)
    BY <1>2
  <2> QED
    BY <2>1, <2>2 DEF BegunTo
<1>3. ASSUME NEW m \in Nat, m # 0, HasList("array", s, a + 1, m), s[a + m + 2] = Comma,
             b = a + m + 2
      PROVE  BegunTo(s, a, b + n)
  <2>1. HasElements(s, a + 1, m)
    BY <1>3 DEF HasList
  <2>2. HasBegun(s, a + m + 2, n)
    BY <1>3
  <2>3. HasBegun(s, a, m + 2 + n)
    BY <1>1, <1>3, <2>1, <2>2, ContinueArray
  <2>4. m + 2 + n \in Nat /\ b + n = a + (m + 2 + n)
    BY <1>3
  <2> QED
    BY <2>3, <2>4 DEF BegunTo
<1> QED
  BY <1>2, <1>3 DEF EntryDue

LEMMA InObjectBegins ==
  ASSUME NEW s, NEW a \in Nat, NEW b \in Nat, NEW n \in Nat,
         EntryDue("object", s, a, b), HasMemberBegun(s, b, n)
  PROVE  BegunTo(s, a, b + n)
<1>1. s[a + 1] = Mark(Opening["object"])
  BY DEF EntryDue
<1>2. CASE b = a + 1
  <2>1. HasBegun(s, a, n + 1)
    BY <1>1, <1>2, BeginObject
  <2>2. n + 1 \in Nat /\ b + n = a + (n + 1)
    BY <1>2
  <2> QED
    BY <2>1, <2>2 DEF BegunTo
<1>3. ASSUME NEW m \in Nat, m # 0, HasList("object", s, a + 1, m), s[a + m + 2] = Comma,
             b = a + m + 2
      PROVE  BegunTo(s, a, b + n)
  <2>1. HasMembers(s, a + 1, m)
    BY <1>3 DEF HasList
  <2>2. HasMemberBegun(s, a + m + 2, n)
    BY <1>3
  <2>3. HasBegun(s, a, m + 2 + n)
    BY <1>1, <1>3, <2>1, <2>2, ContinueObject
  <2>4. m + 2 + n \in Nat /\ b + n = a + (m + 2 + n)
    BY <1>3
  <2> QED
    BY <2>3, <2>4 DEF BegunTo
<1> QED
  BY <1>2, <1>3 DEF EntryDue

LEMMA DueBegins ==
  ASSUME NEW s, NEW a \in Nat, NEW b \in Nat, NEW type \in Containers, EntryDue(type, s, a, b)
  PROVE  BegunTo(s, a, b)
<1>1. HasBegun(s, b, 0) /\ HasMemberBegun(s, b, 0) /\ b + 0 = b
  BY ReadNothing
<1>2. CASE type = "array"
  BY <1>1, <1>2, InArrayBegins
<1>3. CASE type = "object"
  BY <1>1, <1>3, InObjectBegins
<1> QED
  BY <1>2, <1>3 DEF Containers

LEMMA KeyBegins ==
  ASSUME NEW s, NEW a \in Nat, NEW b \in Nat, EntryDue("object", s, a, b),
         NEW k \in Strings, s[b + 1] = KeyToken(k)
  PROVE  BegunTo(s, a, b + 1)
BY BeginKey, InObjectBegins

LEMMA LeadBegins ==
  ASSUME NEW s, NEW a \in Nat, NEW e \in Nat, NEW type \in Containers, Lead(type, s, a, e),
         NEW j \in Nat, BegunTo(s, e, j)
  PROVE  BegunTo(s, a, j)
<1>1. PICK b \in Nat : EntryDue(type, s, a, b) /\ Entry(type, s, b, e)
  BY DEF Lead
<1>2. PICK n \in Nat : j = e + n /\ HasBegun(s, e, n)
  BY DEF BegunTo
<1>3. CASE type = "array"
  <2>1. e = b
    BY <1>1, <1>3 DEF Entry
  <2> QED
    BY <1>1, <1>2, <1>3, <2>1, InArrayBegins
<1>4. CASE type = "object"
  <2>1. e = b + 2 /\ s[b + 2] = Mark(":")
    BY <1>1, <1>4 DEF Entry
  <2>2. PICK k \in Strings : s[b + 1] = KeyToken(k)
    BY <1>1, <1>4 DEF Entry
  <2>3. HasMemberBegun(s, b, n + 2)
    BY <1>2, <2>1, <2>2, BeginNamed
  <2>4. j = b + (n + 2) /\ n + 2 \in Nat
    BY <1>2, <2>1
  <2> QED
    BY <1>1, <1>4, <2>3, <2>4, InObjectBegins
<1> QED
  BY <1>3, <1>4 DEF Containers

-----------------------------------------------------------------------------
(* The containers a token is in.                                           *)

(* x is a step into a container of that type.                              *)
StepOf(type, x) == (type = "array" /\ x \in Nat) \/ (type = "object" /\ x \in Strings)

(* What begins behind a, begins the text.                                  *)
Fits(s, a) == \A j \in Nat : BegunTo(s, a, j) => BegunTo(s, 0, j)

(* The containers around path p have begun, each where d says, and the     *)
(* value at p begins behind a.                                             *)
Around(s, p, a, d) ==
  /\ d \in [0..Len(p) -> Nat] /\ d[0] = 0 /\ d[Len(p)] = a
  /\ \A i \in 0..Len(p) : Fits(s, d[i])
  /\ \A i \in 1..Len(p) :
       \E type \in Containers : StepOf(type, p[i]) /\ Lead(type, s, d[i - 1], d[i])

Context(s, p, a) == \E d : Around(s, p, a, d)

(* The value at the empty path begins with the text.                       *)
LEMMA ContextEmpty ==
  ASSUME NEW s
  PROVE  /\ Context(s, <<>>, 0)
         /\ \A a : Context(s, <<>>, a) => a = 0
<1>1. Len(<<>>) = 0
  OBVIOUS
<1>2. PICK d : d = [i \in 0..0 |-> 0]
  OBVIOUS
<1>3. d \in [0..0 -> Nat] /\ d[0] = 0
  BY <1>2
<1>4. Fits(s, 0)
  BY DEF Fits
<1>5. Around(s, <<>>, 0, d)
  BY <1>1, <1>3, <1>4 DEF Around
<1> QED
  BY <1>1, <1>5 DEF Context, Around

(* One container further in, where the value of an entry begins.           *)
LEMMA ContextPush ==
  ASSUME NEW s, NEW p \in Paths, NEW a \in Nat, Context(s, p, a),
         NEW type \in Containers, NEW x \in Steps, StepOf(type, x),
         NEW e \in Nat, Lead(type, s, a, e)
  PROVE  Context(s, Append(p, x), e)
<1>1. PICK d : Around(s, p, a, d)
  BY DEF Context
<1>2. PICK n \in Nat : n = Len(p)
  BY PathSteps
<1>3. PICK q : q = Append(p, x)
  OBVIOUS
<1>4. Len(q) = n + 1 /\ q[n + 1] = x /\ \A i \in 1..n : q[i] = p[i]
  BY <1>2, <1>3, PathSteps
<1>5. /\ d \in [0..n -> Nat] /\ d[0] = 0 /\ d[n] = a
      /\ \A i \in 0..n : Fits(s, d[i])
      /\ \A i \in 1..n :
           \E t \in Containers : StepOf(t, p[i]) /\ Lead(t, s, d[i - 1], d[i])
  BY <1>1, <1>2 DEF Around
<1>6. PICK f : f = [i \in 0..n + 1 |-> IF i = n + 1 THEN e ELSE d[i]]
  OBVIOUS
<1>7. /\ f \in [0..n + 1 -> Nat]
      /\ f[n + 1] = e /\ \A i \in 0..n : f[i] = d[i]
  BY <1>5, <1>6
<1>8. f[0] = 0
  BY <1>5, <1>7
<1>9. Fits(s, e)
  <2>1. Fits(s, a)
    BY <1>5
  <2>2. ASSUME NEW j \in Nat, BegunTo(s, e, j) PROVE BegunTo(s, 0, j)
    <3>1. BegunTo(s, a, j)
      BY <2>2, LeadBegins
    <3> QED
      BY <2>1, <3>1 DEF Fits
  <2> QED
    BY <2>2 DEF Fits
<1>10. \A i \in 0..n + 1 : Fits(s, f[i])
  BY <1>5, <1>7, <1>9
<1>11. ASSUME NEW i \in 1..n + 1
       PROVE  \E t \in Containers : StepOf(t, q[i]) /\ Lead(t, s, f[i - 1], f[i])
  <2>1. CASE i = n + 1
    <3>1. i - 1 = n /\ n \in 0..n /\ f[i - 1] = a
      BY <1>5, <1>7, <2>1
    <3> QED
      BY <1>4, <1>7, <2>1, <3>1
  <2>2. CASE i \in 1..n
    <3>1. i - 1 \in 0..n /\ i \in 0..n
      BY <2>2
    <3>2. f[i - 1] = d[i - 1] /\ f[i] = d[i] /\ q[i] = p[i]
      BY <1>4, <1>7, <2>2, <3>1
    <3> QED
      BY <1>5, <2>2, <3>2
  <2> QED
    BY <2>1, <2>2
<1>12. Around(s, q, e, f)
  BY <1>4, <1>7, <1>8, <1>10, <1>11 DEF Around
<1> QED
  BY <1>3, <1>12 DEF Context

(* Out of the innermost container again.                                   *)
LEMMA ContextPop ==
  ASSUME NEW s, NEW p \in Paths, p # <<>>, NEW e \in Nat, Context(s, p, e)
  PROVE  /\ Shorter(p) \in Paths
         /\ \E a \in Nat, type \in Containers :
              Context(s, Shorter(p), a) /\ StepOf(type, Last(p)) /\ Lead(type, s, a, e)
<1>1. PICK d : Around(s, p, e, d)
  BY DEF Context
<1>2. PICK n \in Nat : n + 1 = Len(p)
  <2>1. Len(p) \in Nat /\ Len(p) # 0
    BY DEF Paths
  <2>2. Len(p) - 1 \in Nat /\ Len(p) - 1 + 1 = Len(p)
    BY <2>1
  <2> QED
    BY <2>2
<1>3. PICK q : q = Shorter(p)
  OBVIOUS
<1>4. q \in Paths /\ Len(q) = n /\ \A i \in 1..n : q[i] = p[i]
  <2>1. /\ Shorter(p) \in Paths /\ Len(Shorter(p)) = Len(p) - 1
        /\ \A i \in 1..Len(p) - 1 : Shorter(p)[i] = p[i]
    BY Shortened DEF Paths
  <2>2. Len(p) - 1 = n
    BY <1>2
  <2> QED
    BY <1>3, <2>1, <2>2
<1>5. /\ d \in [0..n + 1 -> Nat] /\ d[0] = 0 /\ d[n + 1] = e
      /\ \A i \in 0..n + 1 : Fits(s, d[i])
      /\ \A i \in 1..n + 1 :
           \E t \in Containers : StepOf(t, p[i]) /\ Lead(t, s, d[i - 1], d[i])
  BY <1>1, <1>2 DEF Around
<1>6. PICK f : f = [i \in 0..n |-> d[i]]
  OBVIOUS
<1>7. f \in [0..n -> Nat] /\ \A i \in 0..n : f[i] = d[i]
  BY <1>5, <1>6
<1>8. f[0] = 0 /\ \A i \in 0..n : Fits(s, f[i])
  BY <1>5, <1>7
<1>9. ASSUME NEW i \in 1..n
      PROVE  \E t \in Containers : StepOf(t, q[i]) /\ Lead(t, s, f[i - 1], f[i])
  <2>1. i - 1 \in 0..n /\ i \in 0..n /\ i \in 1..n + 1
    OBVIOUS
  <2>2. f[i - 1] = d[i - 1] /\ f[i] = d[i] /\ q[i] = p[i]
    BY <1>4, <1>7, <2>1
  <2> QED
    BY <1>5, <2>1, <2>2
<1>10. PICK a \in Nat : a = f[n]
  BY <1>7
<1>11. Around(s, q, a, f)
  BY <1>4, <1>7, <1>8, <1>9, <1>10 DEF Around
<1>12. n + 1 \in 1..n + 1 /\ n + 1 - 1 = n
  OBVIOUS
<1>13. PICK t \in Containers : StepOf(t, p[n + 1]) /\ Lead(t, s, d[n], d[n + 1])
  BY <1>5, <1>12
<1>14. Last(p) = p[n + 1] /\ d[n] = a
  BY <1>2, <1>7, <1>10 DEF Last
<1>15. Context(s, q, a) /\ StepOf(t, Last(p)) /\ Lead(t, s, a, e)
  BY <1>5, <1>11, <1>13, <1>14 DEF Context
<1> QED
  BY <1>3, <1>4, <1>15

(* Whatever begins at the end of such a nest of containers, begins the     *)
(* text.                                                                   *)
LEMMA ContextFits ==
  ASSUME NEW s, NEW p \in Paths, NEW a, Context(s, p, a)
  PROVE  Fits(s, a)
<1>1. PICK d : Around(s, p, a, d)
  BY DEF Context
<1>2. PICK n \in Nat : n = Len(p)
  BY DEF Paths
<1>3. n \in 0..n /\ d[n] = a /\ \A i \in 0..n : Fits(s, d[i])
  BY <1>1, <1>2 DEF Around
<1> QED
  BY <1>3

-----------------------------------------------------------------------------
(* What the place of a token says of the text up to it.                    *)

(* What a token is, by its kind; and from which tokens a place can follow. *)
LEMMA TokenKinds ==
  ASSUME NEW t \in Tokens
  PROVE  /\ t.kind = "string" => t.says \in Strings /\ t = KeyToken(t.says) /\ t \in Simple
         /\ t.kind = "scalar" => t \in Simple
         /\ t.kind \notin {"string", "scalar"} => t = Mark(t.kind)
<1>1. CASE t \in {Mark(m) : m \in Marks}
  <2>1. PICK m \in Marks : t = Mark(m)
    BY <1>1
  <2>2. t.kind = m
    BY <2>1, MarkIs
  <2>3. "string" \notin Marks /\ "scalar" \notin Marks
    BY Zenon DEF Marks
  <2> QED
    BY <2>1, <2>2, <2>3
<1>2. CASE t \in [kind : {"string"}, says : Strings]
  <2>1. t = [kind |-> "string", says |-> t.says] /\ t.says \in Strings
    BY <1>2
  <2> QED
    BY <1>2, <2>1 DEF KeyToken, Simple
<1>3. CASE t \in [kind : {"scalar"}, says : Scalars]
  BY <1>3 DEF Simple
<1> QED
  BY <1>1, <1>2, <1>3 DEF Tokens

LEMMA ValueCases ==
  ASSUME NEW t \in Tokens, NEW p
  PROVE  \/ \E type \in Containers : t = Mark(Opening[type]) /\ ValueAt(p, t) = Place(p, type)
         \/ t \in Simple /\ ValueAt(p, t) = Place(p, "scalar")
         \/ ValueAt(p, t) = Nowhere
<1>1. "array" \in Containers /\ "object" \in Containers
  BY DEF Containers
<1>2. CASE t.kind = "["
  <2>1. t = Mark(Opening["array"])
    BY <1>2, TokenKinds, BracketsAre, Zenon
  <2>2. ValueAt(p, t) = Place(p, "array")
    BY <1>2, Zenon DEF ValueAt
  <2> QED
    BY <1>1, <2>1, <2>2
<1>3. CASE t.kind = "{"
  <2>1. t = Mark(Opening["object"])
    BY <1>3, TokenKinds, BracketsAre, Zenon
  <2>2. ValueAt(p, t) = Place(p, "object")
    BY <1>3, Zenon DEF ValueAt
  <2> QED
    BY <1>1, <2>1, <2>2, Zenon
<1>4. CASE t.kind \in {"string", "scalar"}
  <2>1. ValueAt(p, t) = Place(p, "scalar")
    BY <1>4, Zenon DEF ValueAt
  <2> QED
    BY <1>4, <2>1, TokenKinds
<1>5. CASE t.kind # "[" /\ t.kind # "{" /\ t.kind \notin {"string", "scalar"}
  <2>1. ValueAt(p, t) = Nowhere
    BY <1>5, Zenon DEF ValueAt
  <2> QED
    BY <2>1
<1> QED
  BY <1>2, <1>3, <1>4, <1>5, Zenon

LEMMA KeyCases ==
  ASSUME NEW t \in Tokens, NEW c
  PROVE  \/ \E k \in Strings : t = KeyToken(k) /\ KeyIn(c, t) = Place(Append(c, k), "key")
         \/ KeyIn(c, t) = Nowhere
<1>1. CASE t.kind = "string"
  <2>1. t.says \in Strings /\ t = KeyToken(t.says)
    BY <1>1, TokenKinds
  <2>2. KeyIn(c, t) = Place(Append(c, t.says), "key")
    BY <1>1 DEF KeyIn
  <2> QED
    BY <2>1, <2>2, Zenon
<1>2. CASE t.kind # "string"
  BY <1>2 DEF KeyIn
<1> QED
  BY <1>1, <1>2

LEMMA BehindValueCases ==
  ASSUME NEW t \in Tokens, NEW p
  PROVE  \/ p # <<>> /\ t = Comma /\ BehindValue(p, t) = Place(p, "comma")
         \/ /\ p # <<>>
            /\ \E type \in Containers : StepOf(type, Last(p)) /\ t = Mark(Closing[type])
            /\ BehindValue(p, t) = Place(Shorter(p), "end")
         \/ BehindValue(p, t) = Nowhere
<1>1. "array" \in Containers /\ "object" \in Containers
  BY DEF Containers
<1>2. CASE p # <<>> /\ t.kind = ","
  <2>1. t = Comma
    BY <1>2, TokenKinds, Zenon DEF Comma
  <2>2. IsElement(p) /\ t.kind = "]" => FALSE
    BY <1>2
  <2>3. IsMember(p) /\ t.kind = "}" => FALSE
    BY <1>2
  <2>4. BehindValue(p, t) = Place(p, "comma")
    BY <1>2, <2>2, <2>3, Zenon DEF BehindValue
  <2> QED
    BY <1>2, <2>1, <2>4, Zenon
<1>3. CASE IsElement(p) /\ t.kind = "]"
  <2>1. t = Mark(Closing["array"])
    BY <1>3, TokenKinds, BracketsAre, Zenon
  <2>2. p # <<>> /\ StepOf("array", Last(p))
    BY <1>3, Zenon DEF IsElement, StepOf
  <2>3. t.kind # "," /\ t.kind # "}"
    BY <1>3
  <2>4. BehindValue(p, t) = Place(Shorter(p), "end")
    BY <1>3, <2>3, Zenon DEF BehindValue
  <2> QED
    BY <1>1, <2>1, <2>2, <2>4, Zenon
<1>4. CASE IsMember(p) /\ t.kind = "}"
  <2>1. t = Mark(Closing["object"])
    BY <1>4, TokenKinds, BracketsAre, Zenon
  <2>2. p # <<>> /\ StepOf("object", Last(p))
    BY <1>4, Zenon DEF IsMember, StepOf
  <2>3. t.kind # "," /\ t.kind # "]"
    BY <1>4
  <2>4. BehindValue(p, t) = Place(Shorter(p), "end")
    BY <1>4, <2>3, Zenon DEF BehindValue
  <2> QED
    BY <1>1, <2>1, <2>2, <2>4, Zenon
<1>5. CASE /\ ~(p # <<>> /\ t.kind = ",")
           /\ ~(IsElement(p) /\ t.kind = "]") /\ ~(IsMember(p) /\ t.kind = "}")
  <2>1. BehindValue(p, t) = Nowhere
    BY <1>5, Zenon DEF BehindValue
  <2> QED
    BY <2>1
<1> QED
  BY <1>2, <1>3, <1>4, <1>5, Zenon

LEMMA BehindCommaCases ==
  ASSUME NEW t, NEW p
  PROVE  \/ IsElement(p) /\ BehindComma(p, t) = ValueAt(Append(Shorter(p), Last(p) + 1), t)
         \/ IsMember(p) /\ BehindComma(p, t) = KeyIn(Shorter(p), t)
         \/ BehindComma(p, t) = Nowhere
<1>1. CASE IsElement(p)
  BY <1>1, NoKeyIsElement DEF BehindComma
<1>2. CASE IsMember(p)
  BY <1>2, NoKeyIsElement DEF BehindComma
<1>3. CASE ~IsElement(p) /\ ~IsMember(p)
  BY <1>3 DEF BehindComma
<1> QED
  BY <1>1, <1>2, <1>3

LEMMA FollowCases ==
  ASSUME NEW t \in Tokens, NEW u
  PROVE  /\ u.role \in {"beginning", "colon"} => Follow(u, t) = ValueAt(u.path, t)
         /\ u.role = "array" =>
              \/ t = Mark(Closing["array"]) /\ Follow(u, t) = Place(u.path, "end")
              \/ Follow(u, t) = ValueAt(Append(u.path, 1), t)
         /\ u.role = "object" =>
              \/ t = Mark(Closing["object"]) /\ Follow(u, t) = Place(u.path, "end")
              \/ Follow(u, t) = KeyIn(u.path, t)
         /\ u.role = "key" =>
              \/ t = Mark(":") /\ Follow(u, t) = Place(u.path, "colon")
              \/ Follow(u, t) = Nowhere
         /\ Over(u) => Follow(u, t) = BehindValue(u.path, t)
         /\ u.role = "comma" => Follow(u, t) = BehindComma(u.path, t)
<1>1. t.kind = "]" => t = Mark(Closing["array"])
  BY TokenKinds, BracketsAre, Zenon
<1>2. t.kind = "}" => t = Mark(Closing["object"])
  BY TokenKinds, BracketsAre, Zenon
<1>3. t.kind = ":" => t = Mark(":")
  BY TokenKinds
<1>4. u.role \in {"beginning", "colon"} => Follow(u, t) = ValueAt(u.path, t)
  BY DEF Follow
<1>5. u.role = "array" =>
              \/ t = Mark(Closing["array"]) /\ Follow(u, t) = Place(u.path, "end")
              \/ Follow(u, t) = ValueAt(Append(u.path, 1), t)
  BY <1>1 DEF Follow
<1>6. u.role = "object" =>
              \/ t = Mark(Closing["object"]) /\ Follow(u, t) = Place(u.path, "end")
              \/ Follow(u, t) = KeyIn(u.path, t)
  BY <1>2 DEF Follow
<1>7. u.role = "key" =>
              \/ t = Mark(":") /\ Follow(u, t) = Place(u.path, "colon")
              \/ Follow(u, t) = Nowhere
  BY <1>3 DEF Follow
<1>8. Over(u) => Follow(u, t) = BehindValue(u.path, t)
  BY DEF Follow, Over
<1>9. u.role = "comma" => Follow(u, t) = BehindComma(u.path, t)
  BY DEF Follow
<1> QED
  BY <1>4, <1>5, <1>6, <1>7, <1>8, <1>9

(* What a place u says of the tokens up to i: the container there has just *)
(* been opened, the key of an entry has just been read, the value there    *)
(* has just ended, or the next entry may begin behind a comma.             *)
Opens(s, i, u) ==
  /\ u.role \in Containers
  /\ \E a \in Nat : i = a + 1 /\ Context(s, u.path, a) /\ s[i] = Mark(Opening[u.role])

Names(s, i, u) ==
  /\ u.role = "key"
  /\ \E a, b \in Nat, c \in Paths, k \in Strings :
       /\ u.path = Append(c, k) /\ Context(s, c, a) /\ EntryDue("object", s, a, b)
       /\ i = b + 1 /\ s[i] = KeyToken(k)

Ends(s, i, u) ==
  /\ Over(u)
  /\ \E a, n \in Nat : Context(s, u.path, a) /\ HasValue(s, a, n) /\ i = a + n

Continues(s, i, u) ==
  /\ u.role = "comma" /\ u.path # <<>>
  /\ \E a \in Nat, type \in Containers :
       StepOf(type, Last(u.path)) /\ Context(s, Shorter(u.path), a) /\ EntryDue(type, s, a, i)

(* What the place of token i says of the tokens up to it.                  *)
Understood(s, i, u) ==
  /\ u.path \in Paths
  /\ \/ u = Nowhere
     \/ u.role = "beginning" /\ i = 0 /\ u.path = <<>>
     \/ u.role = "colon" /\ Context(s, u.path, i)
     \/ Opens(s, i, u)
     \/ Names(s, i, u)
     \/ Ends(s, i, u)
     \/ Continues(s, i, u)

LEMMA NowhereUnderstood ==
  ASSUME NEW s, NEW i
  PROVE  Understood(s, i, Nowhere)
<1>1. Nowhere.path = <<>> /\ <<>> \in Paths
  BY DEF Nowhere, Place, Paths
<1> QED
  BY <1>1 DEF Understood

(* One token more: behind the place of each kind, the place that follows   *)
(* is understood if that one was.                                          *)
LEMMA EndUnderstood ==
  ASSUME NEW s, NEW i \in Nat, NEW a \in Nat, NEW n \in Nat, i = a + n,
         NEW p \in Paths, Context(s, p, a), HasValue(s, a, n),
         NEW v, v = Place(p, "end") \/ v = Place(p, "scalar")
  PROVE  Understood(s, i, v)
<1>1. v.path = p /\ Over(v)
  BY PlaceIs DEF Over
<1>2. Ends(s, i, v)
  BY <1>1 DEF Ends
<1> QED
  BY <1>1, <1>2 DEF Understood

LEMMA ValueUnderstood ==
  ASSUME NEW s, NEW i \in Nat, NEW j \in Nat, j = i + 1, NEW t \in Tokens, s[j] = t,
         NEW p \in Paths, Context(s, p, i), NEW v, v = ValueAt(p, t)
  PROVE  Understood(s, j, v)
<1>1. CASE \E type \in Containers : t = Mark(Opening[type]) /\ v = Place(p, type)
  <2>1. PICK type \in Containers : t = Mark(Opening[type]) /\ v = Place(p, type)
    BY <1>1
  <2>2. v.path = p /\ v.role = type
    BY <2>1, PlaceIs
  <2>3. Opens(s, j, v)
    BY <2>1, <2>2 DEF Opens
  <2> QED
    BY <2>2, <2>3 DEF Understood
<1>2. CASE t \in Simple /\ v = Place(p, "scalar")
  <2>1. HasValue(s, i, 1)
    BY <1>2, MakeScalar
  <2> QED
    BY <1>2, <2>1, EndUnderstood
<1>3. CASE v = Nowhere
  BY <1>3, NowhereUnderstood
<1> QED
  BY <1>1, <1>2, <1>3, ValueCases

LEMMA KeyUnderstood ==
  ASSUME NEW s, NEW i \in Nat, NEW j \in Nat, j = i + 1, NEW t \in Tokens, s[j] = t,
         NEW c \in Paths, NEW a \in Nat, Context(s, c, a), EntryDue("object", s, a, i),
         NEW v, v = KeyIn(c, t)
  PROVE  Understood(s, j, v)
<1>1. CASE \E k \in Strings : t = KeyToken(k) /\ v = Place(Append(c, k), "key")
  <2>1. PICK k \in Strings : t = KeyToken(k) /\ v = Place(Append(c, k), "key")
    BY <1>1
  <2>2. PICK p \in Paths : p = Append(c, k)
    BY PathSteps DEF Steps
  <2>3. v = Place(p, "key")
    BY <2>1, <2>2
  <2>4. v.path = p /\ v.role = "key"
    BY <2>3, PlaceIs
  <2>5. Names(s, j, v)
    BY <2>1, <2>2, <2>4 DEF Names
  <2> QED
    BY <2>4, <2>5 DEF Understood
<1>2. CASE v = Nowhere
  BY <1>2, NowhereUnderstood
<1> QED
  BY <1>1, <1>2, KeyCases

(* Behind the end of a value: what it is in has one entry more, and goes   *)
(* on, or is closed.                                                       *)
LEMMA BehindUnderstood ==
  ASSUME NEW s, NEW i \in Nat, NEW j \in Nat, j = i + 1, NEW t \in Tokens, s[j] = t,
         NEW p \in Paths, NEW e \in Nat, NEW r \in Nat, Context(s, p, e), HasValue(s, e, r),
         i = e + r, NEW v, v = BehindValue(p, t)
  PROVE  Understood(s, j, v)
<1>1. CASE v = Nowhere
  BY <1>1, NowhereUnderstood
<1>2. CASE p # <<>>
  <2>1. /\ Shorter(p) \in Paths
        /\ \E a \in Nat, type \in Containers :
             Context(s, Shorter(p), a) /\ StepOf(type, Last(p)) /\ Lead(type, s, a, e)
    BY <1>2, ContextPop
  <2>2. PICK a \in Nat, type \in Containers :
             Context(s, Shorter(p), a) /\ StepOf(type, Last(p)) /\ Lead(type, s, a, e)
    BY <2>1
  <2>3. PICK b \in Nat : EntryDue(type, s, a, b) /\ Entry(type, s, b, e)
    BY <2>2 DEF Lead
  <2>4. PICK m \in Nat : m # 0 /\ HasList(type, s, a + 1, m) /\ a + 1 + m = i
    <3>1. PICK o \in Nat : o = a + 1
      OBVIOUS
    <3>2. Listed(type, s, o, i)
      BY <2>3, <3>1, MakeList
    <3> QED
      BY <3>1, <3>2 DEF Listed
  <2>5. j = a + m + 2 /\ s[a + m + 2] = t
    BY <2>4
  <2>6. s[a + 1] = Mark(Opening[type])
    BY <2>3 DEF EntryDue
  <2>7. CASE t = Comma /\ v = Place(p, "comma")
    <3>1. EntryDue(type, s, a, j)
      BY <2>4, <2>5, <2>6, <2>7 DEF EntryDue
    <3>2. v.path = p /\ v.role = "comma"
      BY <2>7, PlaceIs
    <3>3. Continues(s, j, v)
      BY <1>2, <2>2, <3>1, <3>2 DEF Continues
    <3> QED
      BY <3>2, <3>3 DEF Understood
  <2>8. CASE v = Place(Shorter(p), "end") /\
             \E o \in Containers : StepOf(o, Last(p)) /\ t = Mark(Closing[o])
    <3>1. PICK o \in Containers : StepOf(o, Last(p)) /\ t = Mark(Closing[o])
      BY <2>8
    <3>2. o = type
      BY <2>2, <3>1, ReaderAssumption DEF StepOf
    <3>3. HasValue(s, a, m + 2)
      BY <2>4, <2>5, <2>6, <3>1, <3>2, MakeContainer
    <3>4. j = a + (m + 2) /\ m + 2 \in Nat
      BY <2>5
    <3> QED
      BY <2>1, <2>2, <2>8, <3>3, <3>4, EndUnderstood
  <2> QED
    BY <1>1, <2>7, <2>8, BehindValueCases
<1> QED
  BY <1>1, <1>2, BehindValueCases

LEMMA StepTypes ==
  ASSUME NEW type \in Containers, NEW x, StepOf(type, x)
  PROVE  /\ x \in Nat => type = "array" /\ x + 1 \in Nat
         /\ x \in Strings => type = "object"
BY ReaderAssumption DEF StepOf, Containers

(* Behind the token that opens a container: it is closed, or its first     *)
(* entry begins.                                                           *)
LEMMA OpenUnderstood ==
  ASSUME NEW s, NEW i \in Nat, NEW j \in Nat, j = i + 1, NEW t \in Tokens, s[j] = t,
         NEW u, u.path \in Paths, Opens(s, i, u), NEW v, v = Follow(u, t)
  PROVE  Understood(s, j, v)
<1>1. PICK p \in Paths, type \in Containers : p = u.path /\ type = u.role
  BY DEF Opens
<1>2. PICK a \in Nat : i = a + 1 /\ Context(s, p, a) /\ s[i] = Mark(Opening[type])
  BY <1>1 DEF Opens
<1>3. EntryDue(type, s, a, i)
  BY <1>2 DEF EntryDue
<1>4. ASSUME t = Mark(Closing[type]), v = Place(p, "end")
      PROVE  Understood(s, j, v)
  <2>1. HasList(type, s, a + 1, 0)
    BY ReadNothing DEF HasList
  <2>2. s[a + 1] = Mark(Opening[type]) /\ s[a + 0 + 2] = Mark(Closing[type])
    BY <1>2, <1>4
  <2>3. HasValue(s, a, 0 + 2)
    BY <2>1, <2>2, MakeContainer
  <2>4. j = a + (0 + 2) /\ 0 + 2 \in Nat
    BY <1>2
  <2> QED
    BY <1>2, <1>4, <2>3, <2>4, EndUnderstood
<1>5. CASE type = "array"
  <2>1. \/ t = Mark(Closing["array"]) /\ v = Place(p, "end")
        \/ v = ValueAt(Append(p, 1), t)
    BY <1>1, <1>5, FollowCases
  <2>2. ASSUME v = ValueAt(Append(p, 1), t)
        PROVE  Understood(s, j, v)
    <3>1. Lead(type, s, a, i)
      BY <1>3, <1>5 DEF Lead, Entry
    <3>2. 1 \in Steps /\ StepOf(type, 1)
      BY <1>5 DEF StepOf, Steps
    <3>3. PICK q \in Paths : q = Append(p, 1)
      BY <3>2, PathSteps
    <3>4. Context(s, q, i)
      BY <1>2, <3>1, <3>2, <3>3, ContextPush
    <3> QED
      BY <2>2, <3>3, <3>4, ValueUnderstood
  <2> QED
    BY <1>4, <1>5, <2>1, <2>2
<1>6. CASE type = "object"
  <2>1. \/ t = Mark(Closing["object"]) /\ v = Place(p, "end")
        \/ v = KeyIn(p, t)
    BY <1>1, <1>6, FollowCases
  <2>2. ASSUME v = KeyIn(p, t)
        PROVE  Understood(s, j, v)
    BY <1>2, <1>3, <1>6, <2>2, KeyUnderstood
  <2> QED
    BY <1>4, <1>6, <2>1, <2>2
<1> QED
  BY <1>5, <1>6 DEF Containers

(* Behind a key: the colon.                                                *)
LEMMA NameUnderstood ==
  ASSUME NEW s, NEW i \in Nat, NEW j \in Nat, j = i + 1, NEW t \in Tokens, s[j] = t,
         NEW u, u.path \in Paths, Names(s, i, u), NEW v, v = Follow(u, t)
  PROVE  Understood(s, j, v)
<1>1. u.role = "key"
  BY DEF Names
<1>2. PICK a \in Nat, b \in Nat, c \in Paths, k \in Strings :
       /\ u.path = Append(c, k) /\ Context(s, c, a) /\ EntryDue("object", s, a, b)
       /\ i = b + 1 /\ s[i] = KeyToken(k)
  BY DEF Names
<1>3. CASE v = Nowhere
  BY <1>3, NowhereUnderstood
<1>4. CASE t = Mark(":") /\ v = Place(u.path, "colon")
  <2>1. j = b + 2 /\ s[b + 2] = Mark(":") /\ s[b + 1] = KeyToken(k)
    BY <1>2, <1>4
  <2>2. Entry("object", s, b, j)
    BY <2>1 DEF Entry
  <2>3. Lead("object", s, a, j)
    BY <1>2, <2>2 DEF Lead
  <2>4. k \in Steps /\ StepOf("object", k) /\ "object" \in Containers
    BY DEF StepOf, Steps, Containers
  <2>5. Context(s, u.path, j)
    BY <1>2, <2>3, <2>4, ContextPush
  <2>6. v.path = u.path /\ v.role = "colon"
    BY <1>4, PlaceIs
  <2> QED
    BY <2>5, <2>6 DEF Understood
<1> QED
  BY <1>1, <1>3, <1>4, FollowCases

(* Behind a comma: the next entry begins.                                  *)
LEMMA ContinuesUnderstood ==
  ASSUME NEW s, NEW i \in Nat, NEW j \in Nat, j = i + 1, NEW t \in Tokens, s[j] = t,
         NEW u, u.path \in Paths, Continues(s, i, u), NEW v, v = Follow(u, t)
  PROVE  Understood(s, j, v)
<1>1. u.role = "comma" /\ u.path # <<>>
  BY DEF Continues
<1>2. PICK p \in Paths : p = u.path
  OBVIOUS
<1>3. PICK a \in Nat, type \in Containers :
        StepOf(type, Last(p)) /\ Context(s, Shorter(p), a) /\ EntryDue(type, s, a, i)
  BY <1>2 DEF Continues
<1>4. PICK c \in Paths : c = Shorter(p)
  BY <1>1, <1>2, <1>3, ContextPop, Shortened DEF Paths
<1>5. v = BehindComma(p, t)
  BY <1>1, <1>2, FollowCases
<1>6. PICK x : x = Last(p)
  OBVIOUS
<1>7. CASE v = Nowhere
  BY <1>7, NowhereUnderstood
<1>8. CASE IsElement(p) /\ v = ValueAt(Append(c, x + 1), t)
  <2>1. x \in Nat
    BY <1>6, <1>8 DEF IsElement
  <2>2. type = "array" /\ x + 1 \in Nat
    BY <1>3, <1>6, <2>1, StepTypes
  <2>3. PICK y : y = x + 1
    OBVIOUS
  <2>4. y \in Steps /\ StepOf(type, y)
    BY <2>2, <2>3 DEF Steps, StepOf
  <2>5. Lead(type, s, a, i)
    BY <1>3, <2>2 DEF Lead, Entry
  <2>6. PICK q \in Paths : q = Append(c, y)
    BY <2>4, PathSteps
  <2>7. Context(s, q, i)
    BY <1>3, <1>4, <2>4, <2>5, <2>6, ContextPush
  <2> QED
    BY <1>8, <2>3, <2>6, <2>7, ValueUnderstood
<1>9. CASE IsMember(p) /\ v = KeyIn(c, t)
  <2>1. x \in Strings
    BY <1>6, <1>9 DEF IsMember
  <2>2. type = "object"
    BY <1>3, <1>6, <2>1, StepTypes
  <2> QED
    BY <1>3, <1>4, <1>9, <2>2, KeyUnderstood
<1> QED
  BY <1>4, <1>5, <1>6, <1>7, <1>8, <1>9, BehindCommaCases

(* So each place that follows is understood.                               *)
LEMMA UnderstoodStep ==
  ASSUME NEW s, NEW i \in Nat, NEW j \in Nat, j = i + 1, NEW t \in Tokens, s[j] = t,
         NEW u, Understood(s, i, u), NEW v, v = Follow(u, t)
  PROVE  Understood(s, j, v)
<1>1. u.path \in Paths
  BY DEF Understood
<1>2. CASE u = Nowhere
  <2>1. u.role = "none"
    BY <1>2, PlaceIs DEF Nowhere
  <2>2. v = Nowhere
    BY <2>1 DEF Follow
  <2> QED
    BY <2>2, NowhereUnderstood
<1>3. CASE u.role = "beginning" /\ i = 0 /\ u.path = <<>>
  <2>1. v = ValueAt(u.path, t)
    BY <1>3, FollowCases
  <2>2. Context(s, u.path, i)
    BY <1>3, ContextEmpty
  <2> QED
    BY <1>1, <2>1, <2>2, ValueUnderstood
<1>4. CASE u.role = "colon" /\ Context(s, u.path, i)
  <2>1. v = ValueAt(u.path, t)
    BY <1>4, FollowCases
  <2> QED
    BY <1>1, <1>4, <2>1, ValueUnderstood
<1>5. CASE Opens(s, i, u)
  BY <1>1, <1>5, OpenUnderstood
<1>6. CASE Names(s, i, u)
  BY <1>1, <1>6, NameUnderstood
<1>7. CASE Ends(s, i, u)
  <2>1. v = BehindValue(u.path, t)
    BY <1>7, FollowCases DEF Ends
  <2>2. PICK e \in Nat, r \in Nat : Context(s, u.path, e) /\ HasValue(s, e, r) /\ i = e + r
    BY <1>7 DEF Ends
  <2> QED
    BY <1>1, <2>1, <2>2, BehindUnderstood
<1>8. CASE Continues(s, i, u)
  BY <1>1, <1>8, ContinuesUnderstood
<1> QED
  BY <1>2, <1>3, <1>4, <1>5, <1>6, <1>7, <1>8 DEF Understood

(* Every token that has a place is understood.                             *)
LEMMA AllUnderstood ==
  ASSUME NEW s, NEW w, NEW N \in Nat, Walks(s, w, N), w[0] = Beginning,
         \A i \in 1..N : s[i] \in Tokens
  PROVE  \A i \in 0..N : Understood(s, i, w[i])
<1> DEFINE S == {n \in Nat : n <= N => Understood(s, n, w[n])}
<1>1. ASSUME NEW n \in Nat, \A m \in Nat : m < n => m \in S
      PROVE  n <= N => Understood(s, n, w[n])
  <2>1. SUFFICES ASSUME n <= N PROVE Understood(s, n, w[n])
    OBVIOUS
  <2>2. CASE n = 0
    <3>1. w[n].role = "beginning" /\ w[n].path = <<>>
      BY <2>2, PlaceIs DEF Beginning
    <3>2. <<>> \in Paths
      BY DEF Paths
    <3> QED
      BY <2>2, <3>1, <3>2 DEF Understood
  <2>3. CASE n # 0
    <3>1. PICK i \in Nat : n = i + 1
      <4>1. n - 1 \in Nat /\ n = n - 1 + 1
        BY <2>3
      <4> QED
        BY <4>1
    <3>2. i < n /\ i <= N /\ n \in 1..N
      BY <2>1, <3>1
    <3>3. i \in S
      BY <1>1, <3>2
    <3>4. Understood(s, i, w[i])
      BY <3>2, <3>3
    <3> HIDE DEF S
    <3>5. w[n] = Follow(w[i], s[n])
      BY <2>1, <3>1, WalkOn
    <3>6. s[n] \in Tokens
      BY <3>2
    <3> QED
      BY <3>1, <3>4, <3>5, <3>6, UnderstoodStep
  <2> QED
    BY <2>2, <2>3
<1>2. \A n \in Nat : (\A m \in Nat : m < n => m \in S) => n \in S
  BY <1>1
<1>3. S \in SUBSET Nat
  OBVIOUS
<1>4. \A n \in Nat : n \in S
  <2> HIDE DEF S
  <2> QED
    BY <1>2, <1>3, Inductively
<1> QED
  BY <1>4

-----------------------------------------------------------------------------
(* The places and the grammar allow the same.                              *)

(* A text whose last token has a place begins a value; and if it ends the  *)
(* value at the empty path, it is one. So the places allow nothing that    *)
(* the grammar does not.                                                   *)
LEMMA UnderstoodBegins ==
  ASSUME NEW s, NEW i \in Nat, NEW u, Understood(s, i, u), u # Nowhere
  PROVE  HasBegun(s, 0, i)
<1>1. SUFFICES BegunTo(s, 0, i)
  <2>1. ASSUME NEW n \in Nat, i = 0 + n PROVE i = n
    BY <2>1
  <2> QED
    BY <2>1 DEF BegunTo
<1>2. u.path \in Paths
  BY DEF Understood
<1>3. ASSUME NEW a \in Nat, NEW p \in Paths, Context(s, p, a), BegunTo(s, a, i)
      PROVE  BegunTo(s, 0, i)
  <2>1. Fits(s, a)
    BY <1>3, ContextFits
  <2> QED
    BY <1>3, <2>1 DEF Fits
<1>4. CASE u.role = "beginning" /\ i = 0 /\ u.path = <<>>
  <2>1. HasBegun(s, 0, 0)
    BY ReadNothing
  <2> QED
    BY <1>4, <2>1 DEF BegunTo
<1>5. CASE u.role = "colon" /\ Context(s, u.path, i)
  <2>1. HasBegun(s, i, 0) /\ i = i + 0
    BY ReadNothing
  <2>2. BegunTo(s, i, i)
    BY <2>1 DEF BegunTo
  <2> QED
    BY <1>2, <1>3, <1>5, <2>2
<1>6. CASE Opens(s, i, u)
  <2>1. PICK a \in Nat, type \in Containers :
          type = u.role /\ i = a + 1 /\ Context(s, u.path, a) /\ s[i] = Mark(Opening[type])
    BY <1>6 DEF Opens
  <2>2. EntryDue(type, s, a, i)
    BY <2>1 DEF EntryDue
  <2>3. BegunTo(s, a, i)
    BY <2>2, DueBegins
  <2> QED
    BY <1>2, <1>3, <2>1, <2>3
<1>7. CASE Names(s, i, u)
  <2>1. PICK a \in Nat, b \in Nat, c \in Paths, k \in Strings :
          /\ Context(s, c, a) /\ EntryDue("object", s, a, b)
          /\ i = b + 1 /\ s[i] = KeyToken(k)
    BY <1>7 DEF Names
  <2>2. BegunTo(s, a, i)
    BY <2>1, KeyBegins
  <2> QED
    BY <1>3, <2>1, <2>2
<1>8. CASE Ends(s, i, u)
  <2>1. PICK a \in Nat, n \in Nat : Context(s, u.path, a) /\ HasValue(s, a, n) /\ i = a + n
    BY <1>8 DEF Ends
  <2>2. HasBegun(s, a, n)
    BY <2>1, MakeWhole
  <2>3. BegunTo(s, a, i)
    BY <2>1, <2>2 DEF BegunTo
  <2> QED
    BY <1>2, <1>3, <2>1, <2>3
<1>9. CASE Continues(s, i, u)
  <2>1. u.path # <<>>
    BY <1>9 DEF Continues
  <2>2. PICK a \in Nat, type \in Containers :
          Context(s, Shorter(u.path), a) /\ EntryDue(type, s, a, i)
    BY <1>9 DEF Continues
  <2>3. Shorter(u.path) \in Paths
    BY <1>2, <2>1, Shortened DEF Paths
  <2>4. BegunTo(s, a, i)
    BY <2>2, DueBegins
  <2> QED
    BY <1>3, <2>2, <2>3, <2>4
<1> QED
  BY <1>4, <1>5, <1>6, <1>7, <1>8, <1>9 DEF Understood

LEMMA UnderstoodEnds ==
  ASSUME NEW s, NEW i \in Nat, NEW u, Understood(s, i, u), Over(u), u.path = <<>>
  PROVE  HasValue(s, 0, i)
<1>1. u.role \in {"scalar", "end"}
  BY DEF Over
<1>2. u # Nowhere
  BY <1>1, PlaceIs DEF Nowhere
<1>3. ~Opens(s, i, u) /\ ~Names(s, i, u) /\ ~Continues(s, i, u)
  BY <1>1 DEF Opens, Names, Continues, Containers
<1>4. Ends(s, i, u)
  BY <1>1, <1>2, <1>3 DEF Understood
<1>5. PICK a \in Nat, n \in Nat : Context(s, <<>>, a) /\ HasValue(s, a, n) /\ i = a + n
  BY <1>4 DEF Ends
<1>6. a = 0
  BY <1>5, ContextEmpty
<1>7. i = n
  BY <1>5, <1>6
<1> QED
  BY <1>5, <1>6, <1>7

(* What is read of a whole text is the text.                               *)
LEMMA ReadsWhole ==
  ASSUME NEW s \in Seq(Tokens), NEW b \in Seq(Tokens), Len(b) = Len(s)
  PROVE  Reads(s, 0, b) <=> b = s
<1>1. PICK n \in Nat : n = Len(s)
  OBVIOUS
<1>2. \A x \in 1..n : 0 + x = x
  OBVIOUS
<1>3. Reads(s, 0, b) <=> \A x \in 1..n : s[x] = b[x]
  BY <1>1, <1>2 DEF Reads
<1>4. (\A x \in 1..n : s[x] = b[x]) => b = s
  BY <1>1
<1> QED
  BY <1>3, <1>4

(* The sets of JsonGrammar, by the number of tokens.                       *)
LEMMA ViableIs ==
  ASSUME NEW s \in Seq(Tokens), NEW n \in Nat, n = Len(s)
  PROVE  s \in Viable <=> n <= MaxTokens /\ HasBegun(s, 0, n)
<1>1. \A m \in 0..MaxTokens : JSON[m] = Of(m)
  BY ReaderAssumption, Kept DEF JSON
<1>2. s \in Viable <=> \E m \in 0..MaxTokens : s \in Of(m).begun
  BY <1>1 DEF Viable
<1>3. \A m \in Nat : \A b \in Of(m).begun : b \in Seq(Tokens) /\ Len(b) = m
  BY AllTyped DEF Typed
<1>4. s \in Viable <=> n <= MaxTokens /\ s \in Of(n).begun
  BY <1>2, <1>3, ReaderAssumption
<1>5. s \in Of(n).begun => HasBegun(s, 0, n)
  BY ReadsWhole DEF HasBegun
<1>6. HasBegun(s, 0, n) => s \in Of(n).begun
  BY <1>3, ReadsWhole DEF HasBegun
<1> QED
  BY <1>4, <1>5, <1>6

LEMMA DocumentsAre ==
  ASSUME NEW s \in Seq(Tokens), NEW n \in Nat, n = Len(s)
  PROVE  /\ s \in Texts <=> n <= MaxTokens /\ HasValue(s, 0, n)
         /\ \A v \in Of(n).values : n <= MaxTokens => v \in Documents
<1>1. \A m \in 0..MaxTokens : JSON[m] = Of(m)
  BY ReaderAssumption, Kept DEF JSON
<1>2. \A v : v \in Documents <=> \E m \in 0..MaxTokens : v \in Of(m).values
  BY <1>1 DEF Documents
<1>3. \A m \in Nat : \A v \in Of(m).values : v.text \in Seq(Tokens) /\ Len(v.text) = m
  BY AllTyped DEF Typed
<1>4. n <= MaxTokens => n \in 0..MaxTokens
  BY ReaderAssumption
<1>5. ASSUME s \in Texts PROVE n <= MaxTokens /\ HasValue(s, 0, n)
  <2>1. PICK m \in 0..MaxTokens : \E v \in Of(m).values : s = v.text
    BY <1>2, <1>5 DEF Texts
  <2>2. PICK v \in Of(m).values : s = v.text
    BY <2>1
  <2>3. m \in Nat /\ m <= MaxTokens
    BY ReaderAssumption
  <2>4. m = n
    BY <1>3, <2>2, <2>3
  <2>5. Reads(s, 0, v.text)
    BY <2>2, ReadsWhole
  <2> QED
    BY <2>2, <2>3, <2>4, <2>5 DEF HasValue
<1>6. ASSUME n <= MaxTokens, HasValue(s, 0, n) PROVE s \in Texts
  <2>1. PICK v \in Of(n).values : Reads(s, 0, v.text)
    BY <1>6 DEF HasValue
  <2>2. v.text \in Seq(Tokens) /\ Len(v.text) = Len(s)
    BY <1>3
  <2>3. v.text = s
    BY <2>1, <2>2, ReadsWhole
  <2>4. v \in Documents
    BY <1>2, <1>4, <1>6
  <2> QED
    BY <2>3, <2>4 DEF Texts
<1> QED
  BY <1>2, <1>4, <1>5, <1>6

(* Of any text, read or not: the place of its last token says whether it   *)
(* begins a value and whether it is one, and its document is what its      *)
(* tokens say last.                                                        *)
LEMMA WalkDecides ==
  ASSUME NEW s \in Seq(Tokens), NEW N \in Nat, N = Len(s), NEW w,
         Walks(s, w, N), w[0] = Beginning
  PROVE  /\ w[N] # Nowhere <=> HasBegun(s, 0, N)
         /\ Over(w[N]) /\ w[N].path = <<>> <=> HasValue(s, 0, N)
         /\ \A v \in Of(N).values : Reads(s, 0, v.text) => SaysAt(s, w, 0, N, <<>>, v.tree)
<1>1. \A i \in 1..N : s[i] \in Tokens
  OBVIOUS
<1>2. N \in 0..N /\ 0 + N = N
  OBVIOUS
<1>3. Understood(s, N, w[N])
  BY <1>1, <1>2, AllUnderstood
<1>4. AllPlacedAt(s, w, N, N)
  BY AllPlaced
<1>5. <<>> \in Paths
  BY DEF Paths
<1>6. MayBegin(w[0], <<>>)
  BY PlaceIs DEF MayBegin, Beginning
<1>7. HasBegun(s, 0, N) => w[N] # Nowhere
  BY <1>2, <1>4, <1>5, <1>6 DEF AllPlacedAt, BegunPlaced, HasBegun
<1>8. \A v \in Of(N).values : Reads(s, 0, v.text) =>
         Over(w[N]) /\ w[N].path = <<>> /\ SaysAt(s, w, 0, N, <<>>, v.tree)
  BY <1>2, <1>4, <1>5, <1>6 DEF AllPlacedAt, ValuesPlaced
<1>9. HasValue(s, 0, N) => Over(w[N]) /\ w[N].path = <<>>
  BY <1>8 DEF HasValue
<1>10. w[N] # Nowhere => HasBegun(s, 0, N)
  BY <1>3, UnderstoodBegins
<1>11. Over(w[N]) /\ w[N].path = <<>> => HasValue(s, 0, N)
  BY <1>3, UnderstoodEnds
<1> QED
  BY <1>7, <1>8, <1>9, <1>10, <1>11

(* Two documents of which the same is said are the same.                   *)
LEMMA SameDocument ==
  ASSUME NEW s, NEW w, NEW N \in Nat, N = Len(s), NEW d, NEW doc, doc \in Docs,
         d = [q \in DOMAIN d |-> d[q]], DOMAIN d \subseteq Paths, SaidBy(s, w, d),
         What(s, w, 0, N) = PlacedAt(<<>>, doc)
  PROVE  d = doc
<1>1. doc = [q \in DOMAIN doc |-> doc[q]] /\ DOMAIN doc \subseteq Paths
  BY DocIs
<1>2. \A q \in Paths : <<>> \o q = q
  BY DEF Paths
<1>3. 0 + 1 = 1
  OBVIOUS
<1>4. \A x : x \in What(s, w, 0, N) <=>
               \E k \in 1..N : Stands(w, N, k) /\ x = <<w[k].path, Node(s[k])>>
  BY <1>3, WhatIs
<1>5. /\ DOMAIN d = {w[k].path : k \in {i \in 1..N : Stands(w, N, i)}}
      /\ \A k \in 1..N : Stands(w, N, k) => d[w[k].path] = Node(s[k])
  BY DEF SaidBy
<1>6. \A x : x \in PlacedAt(<<>>, doc) <=> \E q \in DOMAIN doc : x = <<q, doc[q]>>
  <2>1. \A x : x \in PlacedAt(<<>>, doc) <=> \E q \in DOMAIN doc : x = <<(<<>> \o q), doc[q]>>
    BY Zenon DEF PlacedAt
  <2>2. \A q \in DOMAIN doc : <<>> \o q = q
    BY <1>1, <1>2
  <2> QED
    BY <2>1, <2>2, Zenon
<1>7. ASSUME NEW q \in DOMAIN d PROVE q \in DOMAIN doc /\ d[q] = doc[q]
  <2>1. PICK k \in 1..N : Stands(w, N, k) /\ q = w[k].path
    BY <1>5
  <2>2. PICK x : x = <<w[k].path, Node(s[k])>>
    OBVIOUS
  <2>3. x \in What(s, w, 0, N)
    BY <1>4, <2>1, <2>2
  <2>4. PICK r \in DOMAIN doc : x = <<r, doc[r]>>
    BY <1>6, <2>3
  <2>5. r = q /\ doc[r] = Node(s[k])
    BY <2>1, <2>2, <2>4
  <2> QED
    BY <1>5, <2>1, <2>5
<1>8. ASSUME NEW q \in DOMAIN doc PROVE q \in DOMAIN d
  <2>1. <<q, doc[q]>> \in What(s, w, 0, N)
    BY <1>6
  <2>2. PICK k \in 1..N : Stands(w, N, k) /\ <<q, doc[q]>> = <<w[k].path, Node(s[k])>>
    BY <1>4, <2>1
  <2>3. q = w[k].path
    BY <2>2
  <2> QED
    BY <1>5, <2>2, <2>3
<1>9. DOMAIN d = DOMAIN doc
  BY <1>7, <1>8
<1> QED
  BY <1>1, <1>7, <1>9

-----------------------------------------------------------------------------
(* The reader reads JSON.                                                  *)

(* The document is a function, and the tokens are at most as many as the   *)
(* bound, but for the end of the input.                                    *)
BoundedInv ==
  /\ tree = [q \in DOMAIN tree |-> tree[q]]
  /\ Len(read) <= MaxTokens \/ read[Len(read)] = EndOfInput

LEMMA StepTree ==
  ASSUME NEW t, Step(t), tree = [q \in DOMAIN tree |-> tree[q]]
  PROVE  tree' = [q \in DOMAIN tree' |-> tree'[q]]
<1>1. ASSUME NEW p, NEW node, Put(p, node)
      PROVE  tree' = [q \in DOMAIN tree' |-> tree'[q]]
  BY <1>1 DEF Put
<1>2. ASSUME NEW k, Key(k)
      PROVE  tree' = [q \in DOMAIN tree' |-> tree'[q]]
  BY <1>2 DEF Key
<1>3. ASSUME tree' = tree
      PROVE  tree' = [q \in DOMAIN tree' |-> tree'[q]]
  BY <1>3
<1>4. ASSUME NEW st, Value(t, st)
      PROVE  tree' = [q \in DOMAIN tree' |-> tree'[q]]
  BY <1>1, <1>3, <1>4 DEF Value, StartContainer, Scalar, Fail, builderVars
<1>5. ASSUME FirstKey(t) \/ NextKey(t)
      PROVE  tree' = [q \in DOMAIN tree' |-> tree'[q]]
  BY <1>2, <1>3, <1>5 DEF FirstKey, NextKey, EndContainer, Fail, builderVars
<1>6. ASSUME FirstColon(t) \/ Colon(t) \/ After(t)
      PROVE  tree' = [q \in DOMAIN tree' |-> tree'[q]]
  BY <1>3, <1>6 DEF FirstColon, Colon, After, EndContainer, Fail, builderVars
<1>7. ASSUME FirstElement(t)
      PROVE  tree' = [q \in DOMAIN tree' |-> tree'[q]]
  BY <1>3, <1>4, <1>7 DEF FirstElement, EndContainer
<1> QED
  BY <1>4, <1>5, <1>6, <1>7 DEF Step

(* It is an invariant.                                                     *)
LEMMA BoundedInvariance == Spec => []BoundedInv
<1>1. ASSUME Init PROVE BoundedInv
  <2>1. read = <<>> /\ Len(<<>>) = 0 /\ 0 <= MaxTokens
    BY <1>1, ReaderAssumption DEF Init
  <2>2. tree = [q \in DOMAIN tree |-> tree[q]]
    BY <1>1 DEF Init
  <2> QED
    BY <2>1, <2>2 DEF BoundedInv
<1>2. ASSUME ReaderInv, BoundedInv, [Next]_vars PROVE BoundedInv'
  <2>1. PICK text \in Seq(Tokens) : text = read
    BY <1>2 DEF ReaderInv, TypeOK
  <2>2. PICK n \in Nat : n = Len(text)
    OBVIOUS
  <2>3. \A t \in Tokens : Len(Append(text, t)) = n + 1 /\ Append(text, t)[n + 1] = t
    BY <2>2, Appended
  <2>4. ASSUME NEW t \in Tokens, Step(t), n < MaxTokens \/ t = EndOfInput
        PROVE  BoundedInv'
    <3>1. tree' = [q \in DOMAIN tree' |-> tree'[q]]
      BY <1>2, <2>4, StepTree DEF BoundedInv
    <3>2. read' = Append(text, t)
      BY <2>1, <2>4 DEF Step
    <3>3. Len(read') = n + 1 /\ read'[n + 1] = t
      BY <2>3, <3>2
    <3>4. n < MaxTokens => n + 1 <= MaxTokens
      BY ReaderAssumption
    <3>5. Len(read') <= MaxTokens \/ read'[Len(read')] = EndOfInput
      BY <2>4, <3>3, <3>4
    <3> QED
      BY <3>1, <3>5 DEF BoundedInv
  <2>5. CASE Len(read) < MaxTokens /\ \E t \in Tokens : Step(t)
    BY <2>1, <2>2, <2>4, <2>5
  <2>6. CASE Len(read) = MaxTokens /\ Step(EndOfInput)
    <3>1. EndOfInput \in Tokens
      BY DEF EndOfInput, Tokens, Marks
    <3> QED
      BY <2>4, <2>6, <3>1
  <2>7. CASE UNCHANGED vars
    BY <1>2, <2>7 DEF BoundedInv, vars, parserVars, builderVars
  <2> QED
    BY <1>2, <2>5, <2>6, <2>7 DEF Next
<1> QED
  BY <1>1, <1>2, ReaderInvariance, PTL DEF Spec

(* The end of the input has no place in a text.                            *)
LEMMA EndNowhere ==
  ASSUME NEW u
  PROVE  Follow(u, EndOfInput) = Nowhere
<1>1. PICK t : t = EndOfInput
  OBVIOUS
<1>2. t.kind = "end"
  BY <1>1, MarkIs DEF EndOfInput
<1>3. \A p : ValueAt(p, t) = Nowhere /\ KeyIn(p, t) = Nowhere /\ BehindValue(p, t) = Nowhere
  BY <1>2 DEF ValueAt, KeyIn, BehindValue
<1>4. BehindComma(u.path, t) = Nowhere
  BY <1>3 DEF BehindComma
<1>5. Follow(u, t) = Nowhere
  BY <1>2, <1>3, <1>4 DEF Follow
<1> QED
  BY <1>1, <1>5

(* The reader reads JSON and nothing else, whatever the file is: it fails  *)
(* at the first token with which no value can begin any more, it is done   *)
(* as soon as there is a value, and its document is the one that value     *)
(* stands for, in which the last of several members with the same key      *)
(* counts (sax_parse_internal, common/libs/json.hpp:13038, with            *)
(* json_sax_dom_parser, common/libs/json.hpp:8817).                        *)
THEOREM ReaderReadsJson == Spec => []ReadsJson
<1>1. ASSUME WrittenInv, BoundedInv, ReadsAsWritten PROVE ReadsJson
  <2>1. PICK s \in Seq(Tokens) : s = read
    BY <1>1 DEF WrittenInv, ReaderInv, TypeOK
  <2>2. PICK N \in Nat : N = Len(s)
    OBVIOUS
  <2>3. PICK w : IsWhere(read, w)
    BY <1>1 DEF WrittenInv, PlaceInv
  <2>4. Where(read) = w
    BY <2>3, WhereIs
  <2>5. w = [i \in 0..N |-> IF i = 0 THEN Beginning ELSE Follow(w[i - 1], s[i])]
    BY <2>1, <2>2, <2>3 DEF IsWhere, Walk
  <2>6. w[0] = Beginning /\ Walks(s, w, N)
    BY <2>5 DEF Walks
  <2>7. /\ at = "failed" <=> w[N] = Nowhere
        /\ at = "done" <=> Over(w[N]) /\ w[N].path = <<>>
        /\ at = "done" => SaidBy(s, w, tree)
    BY <1>1, <2>1, <2>2, <2>4 DEF ReadsAsWritten, Over
  <2>8. /\ w[N] # Nowhere <=> HasBegun(s, 0, N)
        /\ Over(w[N]) /\ w[N].path = <<>> <=> HasValue(s, 0, N)
        /\ \A v \in Of(N).values : Reads(s, 0, v.text) => SaysAt(s, w, 0, N, <<>>, v.tree)
    BY <2>2, <2>6, WalkDecides
  <2>9. /\ s \in Viable <=> N <= MaxTokens /\ HasBegun(s, 0, N)
        /\ s \in Texts <=> N <= MaxTokens /\ HasValue(s, 0, N)
        /\ \A v \in Of(N).values : N <= MaxTokens => v \in Documents
    BY <2>2, ViableIs, DocumentsAre
  <2>10. ASSUME ~(N <= MaxTokens) PROVE w[N] = Nowhere
    <3>1. N # 0 /\ s[N] = EndOfInput
      BY <1>1, <2>1, <2>2, <2>10, ReaderAssumption DEF BoundedInv
    <3>2. w[N] = Follow(w[N - 1], s[N])
      BY <2>5, <3>1
    <3> QED
      BY <3>1, <3>2, EndNowhere
  <2>11. Over(w[N]) => w[N] # Nowhere
    BY PlaceIs DEF Over, Nowhere
  <2>12. ASSUME at = "done" PROVE [text |-> s, tree |-> tree] \in Documents
    <3>1. N <= MaxTokens /\ HasValue(s, 0, N)
      BY <2>7, <2>8, <2>10, <2>11, <2>12
    <3>2. PICK v \in Of(N).values : Reads(s, 0, v.text)
      BY <3>1 DEF HasValue
    <3>3. /\ v.text \in Seq(Tokens) /\ Len(v.text) = N /\ v.tree \in Docs
          /\ v = [text |-> v.text, tree |-> v.tree]
      BY AllTyped DEF Typed
    <3>4. v.text = s
      BY <2>2, <3>2, <3>3, ReadsWhole
    <3>5. What(s, w, 0, N) = PlacedAt(<<>>, v.tree)
      BY <2>8, <3>2 DEF SaysAt
    <3>6. SaidBy(s, w, tree)
      BY <2>7, <2>12
    <3>7. tree = [q \in DOMAIN tree |-> tree[q]] /\ DOMAIN tree \subseteq Paths
      BY <1>1 DEF BoundedInv, WrittenInv, ReaderInv, TypeOK
    <3>8. tree = v.tree
      BY <2>2, <3>3, <3>5, <3>6, <3>7, SameDocument
    <3>9. v \in Documents
      BY <2>9, <3>1
    <3> QED
      BY <3>3, <3>4, <3>8, <3>9
  <2>13. at = "failed" <=> s \notin Viable
    BY <2>7, <2>8, <2>9, <2>10
  <2>14. at = "done" <=> s \in Texts
    BY <2>7, <2>8, <2>9, <2>10, <2>11
  <2> QED
    BY <2>1, <2>12, <2>13, <2>14 DEF ReadsJson
<1> QED
  BY <1>1, WrittenInvariance, BoundedInvariance, ReaderReadsAsWritten, PTL
=============================================================================
