-------------------------- MODULE JsonReaderProofs --------------------------
(***************************************************************************)
(* Proofs about JsonReader, for files of any length: the assertions of the *)
(* builder hold whatever the file says, and the references it keeps into   *)
(* the document it is building stay good; the document is one at every     *)
(* moment, for what is destroyed is destroyed with all below it, and an    *)
(* array has as many elements as its last position says; and in the end it *)
(* is the document the text stands for, as JsonText defines it.            *)
(***************************************************************************)
EXTENDS JsonText, FiniteSetTheorems, TLAPS

-----------------------------------------------------------------------------
(* Sequences: one element more, and one element less.                      *)

LEMMA Appended ==
  ASSUME NEW S, NEW s \in Seq(S), NEW x \in S
  PROVE  /\ Append(s, x) \in Seq(S)
         /\ Len(s) \in Nat
         /\ Len(Append(s, x)) = Len(s) + 1
         /\ \A i \in 1..Len(s) : Append(s, x)[i] = s[i]
         /\ Append(s, x)[Len(s) + 1] = x
         /\ Append(s, x) # <<>>
         /\ Last(Append(s, x)) = x
         /\ Shorter(Append(s, x)) = s
<1>1. Append(s, x) \in Seq(S) /\ Len(s) \in Nat /\ Len(Append(s, x)) = Len(s) + 1
  OBVIOUS
<1>2. \A i \in 1..Len(s) : Append(s, x)[i] = s[i]
  OBVIOUS
<1>3. Append(s, x)[Len(s) + 1] = x
  OBVIOUS
<1>4. Append(s, x) # <<>>
  BY <1>1
<1>5. Last(Append(s, x)) = x
  BY <1>1, <1>3 DEF Last
<1>6. Shorter(Append(s, x)) = SubSeq(Append(s, x), 1, Len(s))
  <2>1. Len(Append(s, x)) - 1 = Len(s)
    BY <1>1
  <2> QED
    BY <2>1 DEF Shorter
<1>7. SubSeq(Append(s, x), 1, Len(s)) = s
  OBVIOUS
<1> QED
  BY <1>1, <1>2, <1>3, <1>4, <1>5, <1>6, <1>7

LEMMA Shortened ==
  ASSUME NEW S, NEW s \in Seq(S), s # <<>>
  PROVE  /\ Shorter(s) \in Seq(S)
         /\ Len(s) \in Nat \ {0}
         /\ Len(Shorter(s)) = Len(s) - 1
         /\ \A i \in 1..Len(s) - 1 : Shorter(s)[i] = s[i]
         /\ Last(s) \in S
<1>1. Len(s) \in Nat \ {0}
  OBVIOUS
<1>2. Shorter(s) \in Seq(S)
  BY <1>1 DEF Shorter
<1>3. Len(Shorter(s)) = Len(s) - 1
  <2>1. Len(s) - 1 \in Nat
    BY <1>1
  <2>2. \A n \in Nat : n <= Len(s) => Len(SubSeq(s, 1, n)) = n
    OBVIOUS
  <2>3. Len(s) - 1 <= Len(s)
    BY <1>1
  <2> QED
    BY <2>1, <2>2, <2>3 DEF Shorter
<1>4. \A i \in 1..Len(s) - 1 : Shorter(s)[i] = s[i]
  BY <1>1 DEF Shorter
<1>5. Last(s) \in S
  BY <1>1 DEF Last
<1> QED
  BY <1>1, <1>2, <1>3, <1>4, <1>5

-----------------------------------------------------------------------------
(* The inductive invariant.  The references lead down the document, one    *)
(* level each; the stack of the parser says which kind of container each   *)
(* leads to, but for one that has just begun; and object_element is the    *)
(* member whose key was read last.                                         *)
RefsInv ==
  \A i \in 1..Len(refStack) :
    /\ refStack[i] \in DOMAIN tree
    /\ Len(refStack[i]) = i - 1
    /\ tree[refStack[i]] \in Containers
    /\ i > 1 => refStack[i - 1] = Shorter(refStack[i])

Describes(st, refs, doc) ==
  \A i \in 1..Len(st) : doc[refs[i]] = IF st[i] THEN "array" ELSE "object"

StackInv ==
  /\ at \in {"value", "key", "colon", "after"} =>
       Len(refStack) = Len(states) /\ Describes(states, refStack, tree)
  /\ at \in {"first_key", "first_colon", "first_element"} =>
       Len(refStack) = Len(states) + 1 /\ Describes(states, refStack, tree)
  /\ at \in {"first_key", "first_colon", "key", "colon"} => InObject
  /\ at = "first_element" => InArray
  /\ at = "after" => states # <<>>

Awaited(key) ==
  /\ key.kind = "string"
  /\ element \in DOMAIN tree
  /\ element = Append(Top, key.says)

ElementInv ==
  /\ at \in {"first_colon", "colon"} => read # <<>> /\ Awaited(Last(read))
  /\ at = "value" =>
       \/ refStack = <<>>
       \/ InArray
       \/ /\ InObject
          /\ Len(read) > 1 /\ Last(read).kind = ":"
          /\ Awaited(read[Len(read) - 1])

ReaderInv == TypeOK /\ RefsInv /\ StackInv /\ ElementInv

(* A value can be put where it belongs.                                    *)
Ready ==
  \/ refStack = <<>>
  \/ InArray
  \/ InObject /\ \E k \in Strings : element = Append(Top, k)

-----------------------------------------------------------------------------
(* The steps of the builder.                                               *)

LEMMA TopFacts ==
  ASSUME TypeOK, RefsInv, refStack # <<>>
  PROVE  /\ Len(refStack) \in Nat \ {0}
         /\ Top = refStack[Len(refStack)]
         /\ Top \in Paths
         /\ Top \in DOMAIN tree
         /\ Len(Top) = Len(refStack) - 1
<1>1. Len(refStack) \in Nat \ {0}
  BY DEF TypeOK
<1>2. Top = refStack[Len(refStack)]
  BY DEF Top, Last
<1>3. Len(refStack) \in 1..Len(refStack)
  BY <1>1
<1>4. Top \in Paths
  <2>1. refStack \in Seq(Paths)
    BY DEF TypeOK
  <2> QED
    BY <1>2, <1>3, <2>1
<1> QED
  BY <1>1, <1>2, <1>3, <1>4 DEF RefsInv

LEMMA SlotFacts ==
  ASSUME TypeOK, RefsInv, Ready
  PROVE  /\ Slot \in Paths
         /\ Len(Slot) = Len(refStack)
         /\ refStack # <<>> => Shorter(Slot) = Top
<1>1. CASE refStack = <<>>
  BY <1>1 DEF Slot, Paths
<1>2. CASE refStack # <<>> /\ InArray
  <2>1. Slot = Append(Top, Size(Top) + 1)
    BY <1>2 DEF Slot, InArray
  <2>2. {q \in DOMAIN tree : Len(q) = Len(Top) + 1 /\ Within(Top, q)} \in SUBSET DOMAIN tree
    OBVIOUS
  <2>3. Size(Top) \in Nat
    BY <2>2, FS_Subset, FS_CardinalityType DEF Size, TypeOK
  <2>4. Size(Top) + 1 \in Strings \cup Nat
    BY <2>3
  <2>5. Top \in Seq(Strings \cup Nat) /\ Len(Top) = Len(refStack) - 1 /\ Len(refStack) \in Nat
    BY <1>2, TopFacts DEF Paths
  <2>6. Slot \in Seq(Strings \cup Nat) /\ Len(Slot) = Len(Top) + 1 /\ Shorter(Slot) = Top
    BY <2>1, <2>4, <2>5, Appended
  <2> QED
    BY <2>5, <2>6 DEF Paths
<1>3. CASE refStack # <<>> /\ ~InArray
  <2>1. PICK k \in Strings : element = Append(Top, k)
    BY <1>3 DEF Ready
  <2>2. InObject
    BY <1>3 DEF Ready
  <2>3. Slot = Append(Top, k)
    BY <1>3, <2>1, <2>2 DEF Slot, InObject
  <2>4. Top \in Seq(Strings \cup Nat) /\ Len(Top) = Len(refStack) - 1 /\ Len(refStack) \in Nat
    BY <1>3, TopFacts DEF Paths
  <2>5. Slot \in Seq(Strings \cup Nat) /\ Len(Slot) = Len(Top) + 1 /\ Shorter(Slot) = Top
    BY <2>3, <2>4, Appended
  <2> QED
    BY <2>4, <2>5 DEF Paths
<1> QED
  BY <1>1, <1>2, <1>3

(* What a value takes the place of is below all that there are references  *)
(* to, and an assignment leaves them as they are.                          *)
LEMMA PutFacts ==
  ASSUME TypeOK, RefsInv, NEW p \in Paths, Len(p) = Len(refStack),
         NEW node \in Nodes, Put(p, node)
  PROVE  /\ IsFiniteSet(DOMAIN tree')
         /\ DOMAIN tree' \subseteq Paths
         /\ \A q \in DOMAIN tree' : tree'[q] \in Nodes
         /\ p \in DOMAIN tree'
         /\ tree'[p] = node
         /\ \A i \in 1..Len(refStack) :
              refStack[i] \in DOMAIN tree' /\ tree'[refStack[i]] = tree[refStack[i]]
<1> DEFINE kept == {r \in DOMAIN tree : ~Within(p, r)}
<1>1. tree' = [q \in kept \cup {p} |-> IF q = p THEN node ELSE tree[q]]
  BY DEF Put
<1>2. DOMAIN tree' = kept \cup {p}
  BY <1>1
<1>3. kept \in SUBSET DOMAIN tree
  OBVIOUS
<1>4. IsFiniteSet(kept)
  BY <1>3, FS_Subset DEF TypeOK
<1>5. IsFiniteSet(DOMAIN tree')
  BY <1>2, <1>4, FS_AddElement
<1>6. DOMAIN tree' \subseteq Paths
  BY <1>2, <1>3 DEF TypeOK
<1>7. \A q \in DOMAIN tree' : tree'[q] \in Nodes
  BY <1>1, <1>2, <1>3 DEF TypeOK
<1>8. p \in DOMAIN tree' /\ tree'[p] = node
  BY <1>1
<1>9. ASSUME NEW i \in 1..Len(refStack)
      PROVE  refStack[i] \in DOMAIN tree' /\ tree'[refStack[i]] = tree[refStack[i]]
  <2>1. refStack[i] \in DOMAIN tree /\ Len(refStack[i]) = i - 1
    BY DEF RefsInv
  <2>2. Len(refStack) \in Nat
    BY DEF TypeOK
  <2>3. ~(Len(p) <= Len(refStack[i]))
    BY <2>1, <2>2
  <2>4. ~Within(p, refStack[i])
    BY <2>3 DEF Within
  <2>5. refStack[i] # p
    BY <2>1, <2>2
  <2> QED
    BY <1>1, <2>1, <2>4, <2>5
<1> QED
  BY <1>5, <1>6, <1>7, <1>8, <1>9

LEMMA StartFacts ==
  ASSUME TypeOK, RefsInv, Ready, NEW type \in Containers, StartContainer(type),
         NEW st \in Seq(BOOLEAN), Len(refStack) = Len(st), Describes(st, refStack, tree)
  PROVE  /\ IsFiniteSet(DOMAIN tree')
         /\ DOMAIN tree' \subseteq Paths
         /\ \A q \in DOMAIN tree' : tree'[q] \in Nodes
         /\ refStack' \in Seq(Paths)
         /\ element' = element
         /\ RefsInv'
         /\ Len(refStack') = Len(st) + 1
         /\ Describes(st, refStack', tree')
         /\ refStack' # <<>>
         /\ Top' \in DOMAIN tree'
         /\ tree'[Top'] = type
<1>1. Put(Slot, type) /\ refStack' = Append(refStack, Slot) /\ element' = element
  BY DEF StartContainer
<1>2. Slot \in Paths /\ Len(Slot) = Len(refStack) /\ (refStack # <<>> => Shorter(Slot) = Top)
  BY SlotFacts
<1>3. type \in Nodes
  BY DEF Nodes
<1>4. /\ IsFiniteSet(DOMAIN tree')
      /\ DOMAIN tree' \subseteq Paths
      /\ \A q \in DOMAIN tree' : tree'[q] \in Nodes
      /\ Slot \in DOMAIN tree'
      /\ tree'[Slot] = type
      /\ \A i \in 1..Len(refStack) :
           refStack[i] \in DOMAIN tree' /\ tree'[refStack[i]] = tree[refStack[i]]
  BY <1>1, <1>2, <1>3, PutFacts
<1>5. refStack \in Seq(Paths)
  BY DEF TypeOK
<1>6. /\ refStack' \in Seq(Paths)
      /\ Len(refStack) \in Nat
      /\ Len(refStack') = Len(refStack) + 1
      /\ \A i \in 1..Len(refStack) : refStack'[i] = refStack[i]
      /\ refStack'[Len(refStack) + 1] = Slot
      /\ refStack' # <<>>
      /\ Last(refStack') = Slot
  BY <1>1, <1>2, <1>5, Appended
<1>7. Top' = Slot
  BY <1>6 DEF Top, Last
<1>8. Describes(st, refStack', tree')
  BY <1>4, <1>6 DEF Describes
<1>9. ASSUME NEW i \in 1..Len(refStack')
      PROVE  /\ refStack'[i] \in DOMAIN tree'
             /\ Len(refStack'[i]) = i - 1
             /\ tree'[refStack'[i]] \in Containers
             /\ i > 1 => refStack'[i - 1] = Shorter(refStack'[i])
  <2>1. CASE i \in 1..Len(refStack)
    <3>1. refStack'[i] = refStack[i]
      BY <1>6, <2>1
    <3>2. i > 1 => i - 1 \in 1..Len(refStack)
      BY <1>6, <2>1
    <3>3. i > 1 => refStack'[i - 1] = refStack[i - 1]
      BY <1>6, <3>2
    <3> QED
      BY <1>4, <2>1, <3>1, <3>3 DEF RefsInv
  <2>2. CASE i = Len(refStack) + 1
    <3>1. refStack'[i] = Slot
      BY <1>6, <2>2
    <3>2. Len(refStack'[i]) = i - 1
      BY <1>2, <1>6, <2>2, <3>1
    <3>3. ASSUME i > 1 PROVE refStack'[i - 1] = Shorter(refStack'[i])
      <4>1. i - 1 = Len(refStack) /\ Len(refStack) \in 1..Len(refStack)
        BY <1>6, <2>2, <3>3
      <4>2. refStack'[i - 1] = refStack[Len(refStack)]
        BY <1>6, <4>1
      <4>3. refStack # <<>>
        BY <4>1
      <4> QED
        BY <1>2, <3>1, <4>2, <4>3, TopFacts
    <3> QED
      BY <1>4, <3>1, <3>2, <3>3
  <2> QED
    BY <1>6, <2>1, <2>2
<1>10. RefsInv'
  BY <1>9 DEF RefsInv
<1> QED
  BY <1>1, <1>4, <1>6, <1>7, <1>8, <1>10

LEMMA EndFacts ==
  ASSUME TypeOK, RefsInv, refStack # <<>>, EndContainer,
         NEW st \in Seq(BOOLEAN), Len(refStack) = Len(st) + 1, Describes(st, refStack, tree)
  PROVE  /\ refStack' \in Seq(Paths)
         /\ tree' = tree
         /\ element' = element
         /\ RefsInv'
         /\ Len(refStack') = Len(st)
         /\ Describes(st, refStack', tree')
<1>1. refStack' = Shorter(refStack) /\ tree' = tree /\ element' = element
  BY DEF EndContainer
<1>2. refStack \in Seq(Paths) /\ Len(st) \in Nat
  BY DEF TypeOK
<1>3. /\ refStack' \in Seq(Paths)
      /\ Len(refStack') = Len(refStack) - 1
      /\ \A i \in 1..Len(refStack) - 1 : refStack'[i] = refStack[i]
  BY <1>1, <1>2, Shortened
<1>4. Len(refStack) - 1 = Len(st)
  BY <1>2
<1>5. Len(refStack') = Len(st) /\ \A i \in 1..Len(st) : refStack'[i] = refStack[i]
  BY <1>3, <1>4
<1>6. Describes(st, refStack', tree')
  BY <1>1, <1>5 DEF Describes
<1>7. ASSUME NEW i \in 1..Len(st)
      PROVE  /\ refStack'[i] \in DOMAIN tree
             /\ Len(refStack'[i]) = i - 1
             /\ tree[refStack'[i]] \in Containers
             /\ i > 1 => refStack'[i - 1] = Shorter(refStack'[i])
  <2>1. i \in 1..Len(refStack) /\ refStack'[i] = refStack[i]
    BY <1>2, <1>5
  <2>2. i > 1 => i - 1 \in 1..Len(st)
    BY <1>2
  <2>3. i > 1 => refStack'[i - 1] = refStack[i - 1]
    BY <1>5, <2>2
  <2> QED
    BY <2>1, <2>3 DEF RefsInv
<1>8. RefsInv'
  BY <1>1, <1>5, <1>7 DEF RefsInv
<1> QED
  BY <1>1, <1>3, <1>5, <1>6, <1>8

(* A key announces a member of the object on top, and changes nothing else.*)
LEMMA KeyFacts ==
  ASSUME TypeOK, RefsInv, InObject, NEW k \in Strings, Key(k)
  PROVE  /\ IsFiniteSet(DOMAIN tree')
         /\ DOMAIN tree' \subseteq Paths
         /\ \A q \in DOMAIN tree' : tree'[q] \in Nodes
         /\ refStack' = refStack
         /\ element' \in Paths
         /\ element' = Append(Top, k)
         /\ element' \in DOMAIN tree'
         /\ \A q \in DOMAIN tree : q \in DOMAIN tree' /\ tree'[q] = tree[q]
<1> DEFINE member == Append(Top, k)
<1>1. /\ element' = member
      /\ tree' = [q \in DOMAIN tree \cup {member} |-> IF q \in DOMAIN tree THEN tree[q] ELSE Null]
      /\ refStack' = refStack
  BY DEF Key
<1>2. member \in Paths
  <2>1. Top \in Seq(Strings \cup Nat)
    BY TopFacts DEF InObject, Paths
  <2> QED
    BY <2>1 DEF Paths
<1>3. DOMAIN tree' = DOMAIN tree \cup {member}
  BY <1>1
<1>4. IsFiniteSet(DOMAIN tree')
  <2>1. IsFiniteSet(DOMAIN tree)
    BY DEF TypeOK
  <2>2. IsFiniteSet(DOMAIN tree \cup {member})
    BY <2>1, FS_AddElement
  <2> QED
    BY <1>3, <2>2
<1>5. Null \in Nodes
  BY ReaderAssumption DEF Nodes
<1>6. \A q \in DOMAIN tree' : tree'[q] \in Nodes
  BY <1>1, <1>3, <1>5 DEF TypeOK
<1>7. \A q \in DOMAIN tree : q \in DOMAIN tree' /\ tree'[q] = tree[q]
  BY <1>1
<1> QED
  BY <1>1, <1>2, <1>3, <1>4, <1>6, <1>7 DEF TypeOK

-----------------------------------------------------------------------------
(* The steps of the parser.                                                *)

LEMMA TokenFacts ==
  ASSUME NEW t \in Tokens
  PROVE  /\ t.kind = "string" => t.says \in Strings
         /\ t.kind \in {"string", "scalar"} => t.says \in Nodes
<1>1. CASE t \in {Mark(m) : m \in Marks}
  <2>1. PICK m \in Marks : t = Mark(m)
    BY <1>1
  <2>2. t.kind = m
    BY <2>1 DEF Mark
  <2> QED
    BY <2>2 DEF Marks
<1>2. CASE t \in [kind : {"string"}, says : Strings]
  BY <1>2 DEF Nodes
<1>3. CASE t \in [kind : {"scalar"}, says : Scalars]
  BY <1>3 DEF Nodes
<1> QED
  BY <1>1, <1>2, <1>3 DEF Tokens

LEMMA ReadyAtValue ==
  ASSUME TypeOK, RefsInv, ElementInv, at = "value"
  PROVE  Ready
<1>1. CASE refStack = <<>> \/ InArray
  BY <1>1 DEF Ready
<1>2. CASE InObject /\ Len(read) > 1 /\ Awaited(read[Len(read) - 1])
  <2>1. read[Len(read) - 1] \in Tokens
    <3>1. Len(read) \in Nat /\ read \in Seq(Tokens)
      BY DEF TypeOK
    <3>2. Len(read) - 1 \in 1..Len(read)
      BY <1>2, <3>1
    <3> QED
      BY <3>1, <3>2
  <2>2. read[Len(read) - 1].kind = "string"
    BY <1>2 DEF Awaited
  <2>3. read[Len(read) - 1].says \in Strings
    BY <2>1, <2>2, TokenFacts
  <2> QED
    BY <1>2, <2>3 DEF Ready, Awaited
<1> QED
  BY <1>1, <1>2 DEF ElementInv

LEMMA FailStep ==
  ASSUME TypeOK, RefsInv, NEW t \in Tokens, read' = Append(read, t), Fail
  PROVE  ReaderInv'
<1>1. at' = "failed" /\ states' = states /\ tree' = tree /\ refStack' = refStack /\ element' = element
  BY DEF Fail, builderVars
<1>2. TypeOK'
  BY <1>1 DEF TypeOK
<1>3. RefsInv'
  BY <1>1 DEF RefsInv
<1>4. StackInv' /\ ElementInv'
  BY <1>1 DEF StackInv, ElementInv
<1> QED
  BY <1>2, <1>3, <1>4 DEF ReaderInv

(* What the parser is in, as its own stack says, is on top of the other.   *)
LEMMA TopOfStates ==
  ASSUME ReaderInv, at = "after"
  PROVE  /\ states # <<>>
         /\ refStack # <<>>
         /\ Top \in DOMAIN tree
         /\ tree[Top] = IF Last(states) THEN "array" ELSE "object"
<1> USE DEF ReaderInv
<1>1. states # <<>> /\ Len(refStack) = Len(states) /\ Describes(states, refStack, tree)
  BY DEF StackInv
<1>2. Len(states) \in Nat \ {0}
  BY <1>1 DEF TypeOK
<1>3. Len(states) \in 1..Len(states)
  BY <1>2
<1>4. refStack # <<>>
  BY <1>1, <1>2
<1>5. Top = refStack[Len(states)] /\ Top \in DOMAIN tree
  BY <1>1, <1>4, TopFacts
<1>6. tree[Top] = IF Last(states) THEN "array" ELSE "object"
  BY <1>1, <1>3, <1>5 DEF Describes, Last
<1> QED
  BY <1>1, <1>4, <1>5, <1>6

(* A value begins in the containers that the parser knows of.              *)
LEMMA ValueStep ==
  ASSUME TypeOK, RefsInv, Ready, NEW t \in Tokens, read' = Append(read, t),
         NEW st \in Seq(BOOLEAN), Len(refStack) = Len(st), Describes(st, refStack, tree),
         Value(t, st)
  PROVE  ReaderInv'
<1>1. read' \in Seq(Tokens)
  BY DEF TypeOK
<1>2. CASE t.kind \in {"{", "["} /\ at' # "failed"
  <2>1. PICK type \in Containers :
          /\ StartContainer(type)
          /\ at' = IF type = "object" THEN "first_key" ELSE "first_element"
          /\ states' = st
    BY <1>2 DEF Value, Containers, Marks, Fail
  <2>2. /\ IsFiniteSet(DOMAIN tree')
        /\ DOMAIN tree' \subseteq Paths
        /\ \A q \in DOMAIN tree' : tree'[q] \in Nodes
        /\ refStack' \in Seq(Paths)
        /\ element' = element
        /\ RefsInv'
        /\ Len(refStack') = Len(st) + 1
        /\ Describes(st, refStack', tree')
        /\ refStack' # <<>>
        /\ Top' \in DOMAIN tree'
        /\ tree'[Top'] = type
    BY <2>1, StartFacts
  <2>3. TypeOK'
    BY <1>1, <2>1, <2>2 DEF TypeOK, Positions
  <2>4. StackInv'
    BY <2>1, <2>2 DEF StackInv, InObject, InArray, Containers
  <2>5. ElementInv'
    BY <2>1 DEF ElementInv
  <2> QED
    BY <2>2, <2>3, <2>4, <2>5 DEF ReaderInv
<1>3. CASE t.kind \in {"string", "scalar"} /\ at' # "failed"
  <2>1. Put(Slot, t.says) /\ refStack' = refStack /\ element' = element /\ Ended(st)
    BY <1>3 DEF Value, Scalar, Marks, Fail
  <2>2. t.says \in Nodes
    BY <1>3, TokenFacts
  <2>3. Slot \in Paths /\ Len(Slot) = Len(refStack)
    BY SlotFacts
  <2>4. /\ IsFiniteSet(DOMAIN tree')
        /\ DOMAIN tree' \subseteq Paths
        /\ \A q \in DOMAIN tree' : tree'[q] \in Nodes
        /\ \A i \in 1..Len(refStack) :
             refStack[i] \in DOMAIN tree' /\ tree'[refStack[i]] = tree[refStack[i]]
    BY <2>1, <2>2, <2>3, PutFacts
  <2>5. at' \in {"done", "after"} /\ states' = st /\ (at' = "after" => st # <<>>)
    BY <2>1 DEF Ended
  <2>6. TypeOK'
    BY <1>1, <2>1, <2>4, <2>5 DEF TypeOK, Positions
  <2>7. RefsInv'
    BY <2>1, <2>4 DEF RefsInv
  <2>8. Describes(st, refStack', tree')
    BY <2>1, <2>4 DEF Describes
  <2>9. StackInv' /\ ElementInv'
    BY <2>1, <2>5, <2>8 DEF StackInv, ElementInv
  <2> QED
    BY <2>6, <2>7, <2>9 DEF ReaderInv
<1>4. CASE at' = "failed"
  <2>1. Fail
    BY <1>4 DEF Value, Ended
  <2> QED
    BY <2>1, FailStep
<1>5. t.kind \notin {"{", "[", "string", "scalar"} => at' = "failed"
  BY DEF Value, Fail
<1> QED
  BY <1>2, <1>3, <1>4, <1>5

(* A container comes to its end, and with it the value that it is.         *)
LEMMA EndStep ==
  ASSUME TypeOK, RefsInv, refStack # <<>>, NEW t \in Tokens, read' = Append(read, t),
         NEW st \in Seq(BOOLEAN), Len(refStack) = Len(st) + 1, Describes(st, refStack, tree),
         EndContainer, Ended(st)
  PROVE  ReaderInv'
<1>1. at' \in {"done", "after"} /\ states' = st /\ (at' = "after" => st # <<>>)
  BY DEF Ended
<1>2. /\ refStack' \in Seq(Paths)
      /\ tree' = tree
      /\ element' = element
      /\ RefsInv'
      /\ Len(refStack') = Len(st)
      /\ Describes(st, refStack', tree')
  BY EndFacts
<1>3. TypeOK'
  BY <1>1, <1>2 DEF TypeOK, Positions
<1>4. StackInv' /\ ElementInv'
  BY <1>1, <1>2 DEF StackInv, ElementInv
<1> QED
  BY <1>2, <1>3, <1>4 DEF ReaderInv

(* A key is read: next comes the colon.                                    *)
LEMMA KeyStep ==
  ASSUME ReaderInv, InObject, NEW t \in Tokens, read' = Append(read, t),
         t.kind = "string", Key(t.says),
         \/ at = "first_key" /\ Go("first_colon")
         \/ at = "key" /\ Go("colon")
  PROVE  ReaderInv'
<1> USE DEF ReaderInv
<1>1. t.says \in Strings
  BY TokenFacts
<1>2. /\ IsFiniteSet(DOMAIN tree')
      /\ DOMAIN tree' \subseteq Paths
      /\ \A q \in DOMAIN tree' : tree'[q] \in Nodes
      /\ refStack' = refStack
      /\ element' \in Paths
      /\ element' = Append(Top, t.says)
      /\ element' \in DOMAIN tree'
      /\ \A q \in DOMAIN tree : q \in DOMAIN tree' /\ tree'[q] = tree[q]
  BY <1>1, KeyFacts
<1>3. states' = states /\ at' \in {"first_colon", "colon"}
  BY DEF Go
<1>4. read' \in Seq(Tokens) /\ read' # <<>> /\ Last(read') = t
  BY Appended DEF TypeOK
<1>5. TypeOK'
  BY <1>2, <1>3, <1>4 DEF TypeOK, Positions
<1>6. RefsInv'
  BY <1>2 DEF RefsInv
<1>7. ASSUME Describes(states, refStack, tree), Len(states) <= Len(refStack)
      PROVE  Describes(states, refStack', tree')
  <2>1. Len(states) \in Nat /\ Len(refStack) \in Nat
    BY DEF TypeOK
  <2>2. \A i \in 1..Len(states) : i \in 1..Len(refStack)
    BY <1>7, <2>1
  <2>3. \A i \in 1..Len(states) : refStack[i] \in DOMAIN tree
    BY <2>2 DEF RefsInv
  <2> QED
    BY <1>2, <1>7, <2>3 DEF Describes
<1>8. InObject'
  BY <1>2 DEF InObject, Top
<1>9. StackInv'
  <2>1. Len(states) \in Nat /\ Len(refStack) \in Nat
    BY DEF TypeOK
  <2>2. CASE at = "first_key" /\ Go("first_colon")
    <3>1. Len(refStack) = Len(states) + 1 /\ Describes(states, refStack, tree)
      BY <2>2 DEF StackInv
    <3>2. Describes(states, refStack', tree')
      BY <1>7, <2>1, <3>1
    <3> QED
      BY <1>2, <1>3, <1>8, <2>2, <3>1, <3>2 DEF StackInv, Go
  <2>3. CASE at = "key" /\ Go("colon")
    <3>1. Len(refStack) = Len(states) /\ Describes(states, refStack, tree)
      BY <2>3 DEF StackInv
    <3>2. Describes(states, refStack', tree')
      BY <1>7, <2>1, <3>1
    <3> QED
      BY <1>2, <1>3, <1>8, <2>3, <3>1, <3>2 DEF StackInv, Go
  <2> QED
    BY <2>2, <2>3
<1>10. ElementInv'
  BY <1>2, <1>3, <1>4 DEF ElementInv, Awaited, Top
<1> QED
  BY <1>5, <1>6, <1>9, <1>10

(* A colon is read: next comes the value.                                  *)
LEMMA ColonStep ==
  ASSUME ReaderInv, NEW t \in Tokens, read' = Append(read, t), t.kind = ":",
         at' = "value", UNCHANGED builderVars,
         \/ at = "first_colon" /\ states' = Append(states, FALSE)
         \/ at = "colon" /\ states' = states
  PROVE  ReaderInv'
<1> USE DEF ReaderInv
<1>1. tree' = tree /\ refStack' = refStack /\ element' = element
  BY DEF builderVars
<1>2. /\ read' \in Seq(Tokens) /\ read' # <<>> /\ Last(read') = t
      /\ Len(read) \in Nat /\ Len(read') = Len(read) + 1
      /\ \A i \in 1..Len(read) : read'[i] = read[i]
  BY Appended DEF TypeOK
<1>3. InObject /\ read # <<>> /\ Awaited(Last(read))
  BY DEF StackInv, ElementInv
<1>4. states \in Seq(BOOLEAN) /\ refStack \in Seq(Paths) /\ Len(states) \in Nat
  BY DEF TypeOK
<1>5. TypeOK'
  <2>1. states' \in Seq(BOOLEAN)
    <3>1. Append(states, FALSE) \in Seq(BOOLEAN)
      BY <1>4
    <3> QED
      BY <1>4, <3>1
  <2> QED
    BY <1>1, <1>2, <2>1 DEF TypeOK, Positions
<1>6. RefsInv'
  BY <1>1 DEF RefsInv
<1>7. Len(refStack') = Len(states') /\ Describes(states', refStack', tree')
  <2>1. CASE at = "first_colon" /\ states' = Append(states, FALSE)
    <3>1. Len(refStack) = Len(states) + 1 /\ Describes(states, refStack, tree)
      BY <2>1 DEF StackInv
    <3>2. /\ Len(states') = Len(states) + 1
          /\ \A i \in 1..Len(states) : states'[i] = states[i]
          /\ states'[Len(states) + 1] = FALSE
      BY <1>4, <2>1, Appended
    <3>3. tree[refStack[Len(states) + 1]] = "object"
      BY <1>3, <3>1 DEF InObject, Top, Last
    <3>4. \A i \in 1..Len(states) + 1 : i \in 1..Len(states) \/ i = Len(states) + 1
      BY <1>4
    <3>5. \A i \in 1..Len(states') :
            tree[refStack[i]] = IF states'[i] THEN "array" ELSE "object"
      <4> SUFFICES ASSUME NEW i \in 1..Len(states')
                   PROVE  tree[refStack[i]] = IF states'[i] THEN "array" ELSE "object"
        OBVIOUS
      <4>1. CASE i \in 1..Len(states)
        BY <3>1, <3>2, <4>1 DEF Describes
      <4>2. CASE i = Len(states) + 1
        BY <3>2, <3>3, <4>2
      <4> QED
        BY <3>2, <3>4, <4>1, <4>2
    <3> QED
      BY <1>1, <3>1, <3>2, <3>5 DEF Describes
  <2>2. CASE at = "colon" /\ states' = states
    BY <1>1, <2>2 DEF StackInv
  <2> QED
    BY <2>1, <2>2
<1>8. StackInv'
  BY <1>7 DEF StackInv
<1>9. InObject' /\ Top' = Top
  BY <1>1, <1>3 DEF InObject, Top
<1>10. Awaited(read[Len(read) - 1])'
  <2>1. Len(read') - 1 = Len(read) /\ Len(read) \in 1..Len(read)
    BY <1>2, <1>3
  <2>2. read'[Len(read') - 1] = Last(read)
    BY <1>2, <2>1 DEF Last
  <2> QED
    BY <1>1, <1>3, <1>9, <2>2 DEF Awaited
<1>11. Len(read') > 1
  BY <1>2, <1>3
<1>12. ElementInv'
  BY <1>2, <1>9, <1>10, <1>11 DEF ElementInv
<1> QED
  BY <1>5, <1>6, <1>8, <1>12

(* Behind a comma in an array the next value comes; in an object, a key.   *)
LEMMA CommaStep ==
  ASSUME ReaderInv, at = "after", NEW t \in Tokens, read' = Append(read, t),
         Go(IF Last(states) THEN "value" ELSE "key"), UNCHANGED builderVars
  PROVE  ReaderInv'
<1> USE DEF ReaderInv
<1>1. tree' = tree /\ refStack' = refStack /\ element' = element /\ states' = states
  BY DEF builderVars, Go
<1>2. read' \in Seq(Tokens)
  BY DEF TypeOK
<1>3. at' = IF Last(states) THEN "value" ELSE "key"
  BY DEF Go
<1>4. TypeOK'
  BY <1>1, <1>2, <1>3 DEF TypeOK, Positions
<1>5. RefsInv'
  BY <1>1 DEF RefsInv
<1>6. refStack # <<>> /\ Top \in DOMAIN tree /\ tree[Top] = IF Last(states) THEN "array" ELSE "object"
  BY TopOfStates
<1>7. StackInv'
  BY <1>1, <1>3, <1>6 DEF StackInv, InObject, Top
<1>8. ElementInv'
  BY <1>1, <1>3, <1>6 DEF ElementInv, InArray, Top
<1> QED
  BY <1>4, <1>5, <1>7, <1>8

(* Every step of the parser keeps the invariant.                           *)
LEMMA ReaderStep ==
  ASSUME ReaderInv, NEW t \in Tokens, Step(t)
  PROVE  ReaderInv'
<1> USE DEF ReaderInv
<1>1. read' = Append(read, t)
  BY DEF Step
<1>2. CASE Fail
  BY <1>1, <1>2, FailStep
<1>3. CASE at = "value" /\ Value(t, states)
  <2>1. Ready
    BY <1>3, ReadyAtValue
  <2>2. Len(refStack) = Len(states) /\ Describes(states, refStack, tree)
    BY <1>3 DEF StackInv
  <2>3. states \in Seq(BOOLEAN)
    BY DEF TypeOK
  <2> QED
    BY <1>1, <1>3, <2>1, <2>2, <2>3, ValueStep
<1>4. CASE at = "first_key" /\ FirstKey(t) /\ ~Fail
  <2>1. InObject /\ Len(refStack) = Len(states) + 1 /\ Describes(states, refStack, tree)
    BY <1>4 DEF StackInv
  <2>2. CASE t.kind = "}" /\ EndContainer /\ Ended(states)
    <3>1. states \in Seq(BOOLEAN) /\ refStack # <<>>
      BY <2>1 DEF TypeOK, InObject
    <3> QED
      BY <1>1, <2>1, <2>2, <3>1, EndStep
  <2>3. CASE t.kind = "string" /\ Key(t.says) /\ Go("first_colon")
    BY <1>1, <1>4, <2>1, <2>3, KeyStep
  <2> QED
    BY <1>4, <2>2, <2>3 DEF FirstKey
<1>5. CASE at = "first_colon" /\ FirstColon(t) /\ ~Fail
  BY <1>1, <1>5, ColonStep DEF FirstColon
<1>6. CASE at = "key" /\ NextKey(t) /\ ~Fail
  <2>1. InObject
    BY <1>6 DEF StackInv
  <2> QED
    BY <1>1, <1>6, <2>1, KeyStep DEF NextKey
<1>7. CASE at = "colon" /\ Colon(t) /\ ~Fail
  BY <1>1, <1>7, ColonStep DEF Colon, Go
<1>8. CASE at = "first_element" /\ FirstElement(t) /\ ~Fail
  <2>1. InArray /\ Len(refStack) = Len(states) + 1 /\ Describes(states, refStack, tree)
    BY <1>8 DEF StackInv
  <2>2. states \in Seq(BOOLEAN) /\ refStack # <<>>
    BY <2>1 DEF TypeOK, InArray
  <2>3. CASE EndContainer /\ Ended(states)
    BY <1>1, <2>1, <2>2, <2>3, EndStep
  <2>4. CASE Value(t, Append(states, TRUE))
    <3>1. /\ Append(states, TRUE) \in Seq(BOOLEAN)
          /\ Len(states) \in Nat
          /\ Len(Append(states, TRUE)) = Len(states) + 1
          /\ \A i \in 1..Len(states) : Append(states, TRUE)[i] = states[i]
          /\ Append(states, TRUE)[Len(states) + 1] = TRUE
      BY <2>2, Appended
    <3>2. tree[refStack[Len(states) + 1]] = "array"
      BY <2>1 DEF InArray, Top, Last
    <3>3. Describes(Append(states, TRUE), refStack, tree)
      <4> SUFFICES ASSUME NEW i \in 1..Len(Append(states, TRUE))
                   PROVE  tree[refStack[i]] = IF Append(states, TRUE)[i] THEN "array" ELSE "object"
        BY DEF Describes
      <4>1. CASE i \in 1..Len(states)
        BY <2>1, <3>1, <4>1 DEF Describes
      <4>2. CASE i = Len(states) + 1
        BY <3>1, <3>2, <4>2
      <4>3. i \in 1..Len(states) \/ i = Len(states) + 1
        BY <3>1
      <4> QED
        BY <4>1, <4>2, <4>3
    <3>4. Ready
      BY <2>1 DEF Ready
    <3>5. Len(refStack) = Len(Append(states, TRUE))
      BY <2>1, <3>1
    <3> QED
      BY <1>1, <2>4, <3>1, <3>3, <3>4, <3>5, ValueStep
  <2> QED
    BY <1>8, <2>3, <2>4 DEF FirstElement
<1>9. CASE at = "after" /\ After(t) /\ ~Fail
  <2>1. CASE Go(IF Last(states) THEN "value" ELSE "key") /\ UNCHANGED builderVars
    BY <1>1, <1>9, <2>1, CommaStep
  <2>2. CASE EndContainer /\ Ended(Shorter(states))
    <3>1. states # <<>> /\ Len(refStack) = Len(states) /\ Describes(states, refStack, tree)
      BY <1>9 DEF StackInv
    <3>2. states \in Seq(BOOLEAN)
      BY DEF TypeOK
    <3>3. /\ Shorter(states) \in Seq(BOOLEAN)
          /\ Len(states) \in Nat \ {0}
          /\ Len(Shorter(states)) = Len(states) - 1
          /\ \A i \in 1..Len(states) - 1 : Shorter(states)[i] = states[i]
      BY <3>1, <3>2, Shortened
    <3>4. Len(refStack) = Len(Shorter(states)) + 1
      BY <3>1, <3>3
    <3>5. \A i \in 1..Len(Shorter(states)) : i \in 1..Len(states)
      BY <3>3
    <3>6. Describes(Shorter(states), refStack, tree)
      BY <3>1, <3>3, <3>5 DEF Describes
    <3>7. refStack # <<>>
      BY <1>9, TopOfStates
    <3> QED
      BY <1>1, <2>2, <3>3, <3>4, <3>6, <3>7, EndStep
  <2> QED
    BY <1>9, <2>1, <2>2 DEF After
<1> QED
  BY <1>2, <1>3, <1>4, <1>5, <1>6, <1>7, <1>8, <1>9 DEF Step

LEMMA ReaderInit == Init => ReaderInv
<1> SUFFICES ASSUME Init PROVE ReaderInv
  OBVIOUS
<1> USE DEF Init
<1>1. DOMAIN tree = {<<>>} /\ tree[<<>>] = Null
  OBVIOUS
<1>2. IsFiniteSet(DOMAIN tree)
  BY <1>1, FS_Singleton
<1>3. DOMAIN tree \subseteq Paths /\ \A p \in DOMAIN tree : tree[p] \in Nodes
  BY <1>1, ReaderAssumption DEF Paths, Nodes
<1>4. TypeOK
  BY <1>2, <1>3 DEF TypeOK, Positions
<1>5. RefsInv
  BY DEF RefsInv
<1>6. StackInv /\ ElementInv
  BY DEF StackInv, ElementInv, Describes
<1> QED
  BY <1>4, <1>5, <1>6 DEF ReaderInv

LEMMA ReaderInvariance == Spec => []ReaderInv
<1>1. ReaderInv /\ [Next]_vars => ReaderInv'
  <2> SUFFICES ASSUME ReaderInv, [Next]_vars PROVE ReaderInv'
    OBVIOUS
  <2>1. CASE Next
    <3>1. EndOfInput \in Tokens
      BY DEF EndOfInput, Tokens, Marks
    <3>2. PICK t \in Tokens : Step(t)
      BY <2>1, <3>1 DEF Next
    <3> QED
      BY <3>2, ReaderStep
  <2>2. CASE UNCHANGED vars
    BY <2>2 DEF vars, parserVars, builderVars, ReaderInv, TypeOK, RefsInv, StackInv, ElementInv,
                InObject, InArray, Top, Awaited
  <2> QED
    BY <2>1, <2>2
<1> QED
  BY <1>1, ReaderInit, PTL DEF Spec

-----------------------------------------------------------------------------
(* Theorems.                                                               *)

(* Whatever the file says, the reader keeps a well-formed state, and its   *)
(* document is finite and made of what the tokens say (parser and          *)
(* json_sax_dom_parser of common/libs/json.hpp).                           *)
THEOREM ReaderTypeOK == Spec => []TypeOK
<1>1. ReaderInv => TypeOK
  BY DEF ReaderInv
<1> QED
  BY <1>1, ReaderInvariance, PTL

(* No file, of whatever length and nesting, makes one of the builder's     *)
(* assertions fail that a release build does not check                     *)
(* (common/libs/json.hpp:8910, 8920, 8959, 9084, 9097).                    *)
THEOREM ReaderAssertsHold == Spec => []AssertsHold
<1>1. ReaderInv => AssertsHold
  <2> SUFFICES ASSUME ReaderInv PROVE AssertsHold
    OBVIOUS
  <2> USE DEF ReaderInv
  <2>1. at = "after" => states # <<>> /\ (IF Last(states) THEN InArray ELSE InObject)
    BY TopOfStates DEF InArray, InObject, StackInv
  <2>2. at = "value" => (refStack = <<>> \/ InArray \/ (InObject /\ Announced))
    <3> SUFFICES ASSUME InObject, Len(read) > 1, Last(read).kind = ":", Awaited(read[Len(read) - 1])
                 PROVE  Announced
      BY DEF ElementInv
    <3>1. read # <<>>
      BY DEF TypeOK
    <3> QED
      BY <3>1 DEF Announced, Awaited
  <2> QED
    BY <2>1, <2>2 DEF AssertsHold, StackInv
<1> QED
  BY <1>1, ReaderInvariance, PTL

(* The references that the builder keeps lead to containers that are in    *)
(* the document, each in the one below it (ref_stack,                      *)
(* common/libs/json.hpp:9111), at every moment and for every file.         *)
THEOREM ReaderReferencesGood == Spec => []ReferencesGood
<1>1. ReaderInv => ReferencesGood
  <2> SUFFICES ASSUME ReaderInv PROVE ReferencesGood
    OBVIOUS
  <2> USE DEF ReaderInv
  <2>1. ASSUME refStack # <<>> PROVE refStack[1] = <<>>
    <3>1. Len(refStack) \in Nat \ {0} /\ refStack \in Seq(Paths)
      BY <2>1 DEF TypeOK
    <3>2. 1 \in 1..Len(refStack)
      BY <3>1
    <3>3. refStack[1] \in Paths /\ Len(refStack[1]) = 0
      BY <3>1, <3>2 DEF RefsInv
    <3> QED
      BY <3>3 DEF Paths
  <2> QED
    BY <2>1 DEF ReferencesGood, RefsInv
<1> QED
  BY <1>1, ReaderInvariance, PTL

-----------------------------------------------------------------------------
(* Paths.                                                                  *)

(* A path is below another if its parent is, unless it is the other.       *)
LEMMA WithinParent ==
  ASSUME NEW p \in Paths, NEW q \in Paths, q # <<>>, q # p
  PROVE  Within(p, q) <=> Within(p, Shorter(q))
<1>1. /\ Shorter(q) \in Paths
      /\ Len(q) \in Nat \ {0} /\ Len(p) \in Nat
      /\ Len(Shorter(q)) = Len(q) - 1
      /\ \A i \in 1..Len(q) - 1 : Shorter(q)[i] = q[i]
  <2>1. q \in Seq(Strings \cup Nat) /\ p \in Seq(Strings \cup Nat)
    BY DEF Paths
  <2>2. Len(p) \in Nat
    BY <2>1
  <2> QED
    BY <2>1, <2>2, Shortened DEF Paths
<1>2. ASSUME Within(p, Shorter(q)) PROVE Within(p, q)
  <2>1. Len(p) <= Len(q) - 1 /\ \A i \in 1..Len(p) : p[i] = Shorter(q)[i]
    BY <1>1, <1>2 DEF Within
  <2>2. \A i \in 1..Len(p) : i \in 1..Len(q) - 1
    BY <1>1, <2>1
  <2> QED
    BY <1>1, <2>1, <2>2 DEF Within
<1>3. ASSUME Within(p, q) PROVE Within(p, Shorter(q))
  <2>1. Len(p) <= Len(q) /\ \A i \in 1..Len(p) : p[i] = q[i]
    BY <1>3 DEF Within
  <2>2. Len(p) # Len(q)
    <3> SUFFICES ASSUME Len(p) = Len(q) PROVE p = q
      OBVIOUS
    <3> QED
      BY <2>1 DEF Paths
  <2>3. Len(p) <= Len(q) - 1
    BY <1>1, <2>1, <2>2
  <2>4. \A i \in 1..Len(p) : i \in 1..Len(q) - 1
    BY <1>1, <2>3
  <2> QED
    BY <1>1, <2>1, <2>3, <2>4 DEF Within
<1> QED
  BY <1>2, <1>3

(* What is directly in a container has it for its parent.                  *)
LEMMA ParentIs ==
  ASSUME NEW a \in Paths, NEW q \in Paths
  PROVE  Len(q) = Len(a) + 1 /\ Within(a, q) <=> q # <<>> /\ Shorter(q) = a
<1>1. Len(a) \in Nat /\ Len(q) \in Nat
  BY DEF Paths
<1>2. ASSUME Len(q) = Len(a) + 1, Within(a, q) PROVE q # <<>> /\ Shorter(q) = a
  <2>1. q # <<>>
    BY <1>1, <1>2
  <2>2. /\ Shorter(q) \in Paths
        /\ Len(Shorter(q)) = Len(a)
        /\ \A i \in 1..Len(a) : Shorter(q)[i] = q[i]
    <3>1. /\ Shorter(q) \in Paths
          /\ Len(Shorter(q)) = Len(q) - 1
          /\ \A i \in 1..Len(q) - 1 : Shorter(q)[i] = q[i]
      BY <2>1, Shortened DEF Paths
    <3>2. Len(q) - 1 = Len(a)
      BY <1>1, <1>2
    <3> QED
      BY <3>1, <3>2
  <2>3. \A i \in 1..Len(a) : Shorter(q)[i] = a[i]
    BY <1>2, <2>2 DEF Within
  <2> QED
    BY <2>1, <2>2, <2>3 DEF Paths
<1>3. ASSUME q # <<>>, Shorter(q) = a PROVE Len(q) = Len(a) + 1 /\ Within(a, q)
  <2>1. /\ Len(q) \in Nat \ {0}
        /\ Len(a) = Len(q) - 1
        /\ \A i \in 1..Len(q) - 1 : a[i] = q[i]
    BY <1>3, Shortened DEF Paths
  <2> QED
    BY <2>1 DEF Within
<1> QED
  BY <1>2, <1>3

-----------------------------------------------------------------------------
(* The size of an array.                                                   *)

Children(a) == {q \in DOMAIN tree : q # <<>> /\ Shorter(q) = a}

LEMMA SizeCounts ==
  ASSUME TypeOK, NEW a \in Paths
  PROVE  /\ Size(a) = Cardinality(Children(a))
         /\ IsFiniteSet(Children(a))
         /\ Size(a) \in Nat
<1>1. {q \in DOMAIN tree : Len(q) = Len(a) + 1 /\ Within(a, q)} = Children(a)
  BY ParentIs DEF TypeOK, Children
<1>2. Children(a) \in SUBSET DOMAIN tree
  BY DEF Children
<1>3. IsFiniteSet(Children(a))
  BY <1>2, FS_Subset DEF TypeOK
<1> QED
  BY <1>1, <1>3, FS_CardinalityType DEF Size

(* The size in the next state, by the same definition.                     *)
LEMMA SizeCountsNext ==
  ASSUME TypeOK', NEW a \in Paths
  PROVE  /\ Size(a)' = Cardinality(Children(a)')
         /\ IsFiniteSet(Children(a)')
         /\ Size(a)' \in Nat
<1>1. {q \in DOMAIN tree' : Len(q) = Len(a) + 1 /\ Within(a, q)} = Children(a)'
  BY ParentIs DEF TypeOK, Children
<1>2. Children(a)' \in SUBSET DOMAIN tree'
  BY DEF Children
<1>3. IsFiniteSet(Children(a)')
  BY <1>2, FS_Subset DEF TypeOK
<1>4. Size(a)' = Cardinality(Children(a)')
  BY <1>1 DEF Size
<1> QED
  BY <1>3, <1>4, FS_CardinalityType

(* A container that keeps what is in it does not become smaller.           *)
LEMMA SizeGrows ==
  ASSUME TypeOK, TypeOK', NEW a \in Paths, Children(a) \subseteq Children(a)'
  PROVE  Size(a) \in Nat /\ Size(a)' \in Nat /\ Size(a) <= Size(a)'
<1>1. /\ Size(a) = Cardinality(Children(a)) /\ Size(a) \in Nat
      /\ Size(a)' = Cardinality(Children(a)') /\ Size(a)' \in Nat
      /\ IsFiniteSet(Children(a)')
  BY SizeCounts, SizeCountsNext
<1>2. Children(a) \in SUBSET Children(a)'
  OBVIOUS
<1>3. Cardinality(Children(a)) <= Cardinality(Children(a)')
  BY <1>1, <1>2, FS_Subset
<1> QED
  BY <1>1, <1>3

(* And with one element more, it is larger.                                *)
LEMMA SizeGrowsByOne ==
  ASSUME TypeOK, TypeOK', NEW a \in Paths, NEW p, p \notin Children(a),
         Children(a) \cup {p} \subseteq Children(a)'
  PROVE  Size(a) + 1 \in 1..Size(a)'
<1>1. /\ Size(a) = Cardinality(Children(a)) /\ Size(a) \in Nat
      /\ IsFiniteSet(Children(a))
      /\ Size(a)' = Cardinality(Children(a)') /\ Size(a)' \in Nat
      /\ IsFiniteSet(Children(a)')
  BY SizeCounts, SizeCountsNext
<1>2. Cardinality(Children(a) \cup {p}) = Cardinality(Children(a)) + 1
  BY <1>1, FS_AddElement
<1>3. Children(a) \cup {p} \in SUBSET Children(a)'
  OBVIOUS
<1>4. Cardinality(Children(a) \cup {p}) <= Cardinality(Children(a)')
  BY <1>1, <1>3, FS_Subset
<1> QED
  BY <1>1, <1>2, <1>4

-----------------------------------------------------------------------------
(* The steps of the builder.                                               *)

(* Node q is where a document allows one.                                  *)
Placed(q) ==
  /\ Shorter(q) \in DOMAIN tree
  /\ \/ tree[Shorter(q)] = "object" /\ Last(q) \in Strings
     \/ tree[Shorter(q)] = "array" /\ Last(q) \in 1..Size(Shorter(q))

(* A node whose parent stays, and keeps what is in it, stays well placed.  *)
LEMMA StaysPlaced ==
  ASSUME TypeOK, TypeOK', NEW q \in Paths, q # <<>>, Placed(q),
         Shorter(q) \in DOMAIN tree', tree'[Shorter(q)] = tree[Shorter(q)],
         Children(Shorter(q)) \subseteq Children(Shorter(q))'
  PROVE  Placed(q)'
<1> DEFINE a == Shorter(q)
<1>1. a \in Paths
  BY Shortened DEF Paths
<1>2. Size(a) \in Nat /\ Size(a)' \in Nat /\ Size(a) <= Size(a)'
  <2> HIDE DEF a
  <2>1. Children(a) \subseteq Children(a)'
    BY DEF a
  <2> QED
    BY <1>1, <2>1, SizeGrows
<1>3. Last(q) \in 1..Size(a) => Last(q) \in 1..Size(a)'
  BY <1>2
<1> QED
  BY <1>3 DEF Placed

(* Whether a value is a new element of the array on top, or takes the      *)
(* place of a member's, the document stays one.                            *)
LEMMA PutDocument ==
  ASSUME ReaderInv, Ready, DocumentGood, TypeOK',
         NEW p, p = Slot, NEW top, top = Top, NEW node \in Nodes, Put(p, node)
  PROVE  DocumentGood'
<1> DEFINE kept == {r \in DOMAIN tree : ~Within(p, r)}
<1>1. /\ p \in Paths /\ Len(p) = Len(refStack) /\ Len(p) \in Nat
      /\ refStack # <<>> => Shorter(p) = top
  BY SlotFacts DEF ReaderInv, Paths
<1>2. /\ DOMAIN tree' = kept \cup {p}
      /\ \A q \in kept : q # p => tree'[q] = tree[q]
  BY DEF Put
<1>3. DOMAIN tree \subseteq Paths
  BY DEF ReaderInv, TypeOK
<1>4. Within(p, p)
  BY <1>1 DEF Within
<1>5. CASE refStack = <<>>
  <2>1. p = <<>>
    BY <1>5 DEF Slot
  <2>2. \A r \in DOMAIN tree : Within(<<>>, r)
    BY <1>3 DEF Within, Paths
  <2>3. DOMAIN tree' = {<<>>}
    BY <1>2, <2>1, <2>2
  <2> QED
    BY <2>3 DEF DocumentGood
<1>6. CASE refStack # <<>>
  <2>1. /\ Len(p) \in Nat \ {0} /\ p # <<>>
        /\ top \in Paths /\ Shorter(p) = top /\ Len(top) = Len(p) - 1
    BY <1>1, <1>6, TopFacts DEF ReaderInv
  <2>2. <<>> \in DOMAIN tree'
    <3>1. <<>> \in DOMAIN tree
      BY DEF DocumentGood
    <3>2. ~Within(p, <<>>)
      BY <2>1 DEF Within
    <3> QED
      BY <1>2, <3>1, <3>2
  <2>3. ASSUME NEW a \in kept
        PROVE  Children(a) \subseteq Children(a)'
    <3> SUFFICES ASSUME NEW r \in Children(a) PROVE r \in Children(a)'
      OBVIOUS
    <3>1. r \in DOMAIN tree /\ r # <<>> /\ Shorter(r) = a /\ ~Within(p, a)
      BY <2>3 DEF Children
    <3>2. r = p \/ ~Within(p, r)
      BY <1>1, <1>3, <3>1, WithinParent
    <3>3. r \in DOMAIN tree'
      BY <1>2, <3>1, <3>2
    <3> QED
      BY <3>1, <3>3 DEF Children
  <2>4. ASSUME NEW q \in kept, q # <<>>
        PROVE  Placed(q)'
    <3>1. q \in Paths /\ q # p /\ Placed(q) /\ Shorter(q) \in DOMAIN tree /\ ~Within(p, q)
      BY <1>3, <1>4, <2>4 DEF DocumentGood, Placed
    <3>2. ~Within(p, Shorter(q))
      BY <1>1, <2>4, <3>1, WithinParent
    <3>3. Shorter(q) \in kept /\ Shorter(q) # p
      BY <1>4, <3>1, <3>2
    <3>4. Shorter(q) \in DOMAIN tree' /\ tree'[Shorter(q)] = tree[Shorter(q)]
      BY <1>2, <3>3
    <3>5. Children(Shorter(q)) \subseteq Children(Shorter(q))'
      BY <2>3, <3>3
    <3> QED
      BY <2>4, <3>1, <3>4, <3>5, StaysPlaced DEF ReaderInv
  <2>5. Placed(p)'
    <3>1. top \in DOMAIN tree /\ ~Within(p, top)
      BY <1>6, <2>1, TopFacts DEF ReaderInv, Within
    <3>2. top \in kept /\ top # p
      BY <1>4, <3>1
    <3>3. top \in DOMAIN tree' /\ tree'[top] = tree[top]
      BY <1>2, <3>2
    <3>4. CASE InArray
      <4>1. p = Append(top, Size(top) + 1)
        BY <1>6, <3>4 DEF Slot, InArray
      <4>2. Size(top) \in Nat /\ Size(top) + 1 \in Strings \cup Nat
        BY <2>1, SizeCounts DEF ReaderInv
      <4>3. Last(p) = Size(top) + 1
        BY <2>1, <4>1, <4>2, Appended DEF Paths
      <4>4. tree[top] = "array"
        BY <3>4 DEF InArray
      <4>5. p \notin DOMAIN tree
        <5>1. p \in DOMAIN tree => Last(p) \in 1..Size(top)
          BY <2>1, <4>4 DEF DocumentGood
        <5> QED
          BY <4>2, <4>3, <5>1
      <4>6. Children(top) \cup {p} \subseteq Children(top)'
        BY <1>2, <2>1, <2>3, <3>2 DEF Children
      <4>7. p \notin Children(top)
        BY <4>5 DEF Children
      <4>8. Last(p) \in 1..Size(top)'
        BY <2>1, <4>3, <4>6, <4>7, SizeGrowsByOne DEF ReaderInv
      <4> QED
        BY <2>1, <3>3, <4>4, <4>8 DEF Placed
    <3>5. CASE ~InArray
      <4>1. PICK k \in Strings : InObject /\ element = Append(top, k)
        BY <1>6, <3>5 DEF Ready
      <4>2. p = Append(top, k) /\ tree[top] = "object"
        BY <1>6, <4>1 DEF Slot, InObject
      <4>3. Last(p) = k
        BY <2>1, <4>2, Appended DEF Paths
      <4> QED
        BY <2>1, <3>3, <4>1, <4>2, <4>3 DEF Placed
    <3> QED
      BY <3>4, <3>5
  <2> QED
    BY <1>2, <2>2, <2>4, <2>5 DEF DocumentGood, Placed
<1> QED
  BY <1>5, <1>6

(* A member that is new is in an object, and nothing else changes.         *)
LEMMA KeyDocument ==
  ASSUME ReaderInv, InObject, DocumentGood, TypeOK', NEW k \in Strings, Key(k)
  PROVE  DocumentGood'
<1>1. PICK top : top = Top
  OBVIOUS
<1>2. PICK member : member = Append(top, k)
  OBVIOUS
<1>3. /\ DOMAIN tree' = DOMAIN tree \cup {member}
      /\ \A q \in DOMAIN tree : tree'[q] = tree[q]
  BY <1>1, <1>2 DEF Key
<1>4. top \in Paths /\ top \in DOMAIN tree /\ tree[top] = "object"
  BY <1>1, TopFacts DEF InObject, ReaderInv
<1>5. member # <<>> /\ Last(member) = k /\ Shorter(member) = top
  BY <1>2, <1>4, Appended DEF Paths
<1>6. ASSUME NEW q \in DOMAIN tree, q # <<>>
      PROVE  Placed(q)'
  <2>1. q \in Paths /\ Placed(q) /\ Shorter(q) \in DOMAIN tree
    BY <1>6 DEF DocumentGood, Placed, ReaderInv, TypeOK
  <2>2. Children(Shorter(q)) \subseteq Children(Shorter(q))'
    BY <1>3 DEF Children
  <2> QED
    BY <1>3, <1>6, <2>1, <2>2, StaysPlaced DEF ReaderInv
<1>7. Placed(member)'
  BY <1>3, <1>4, <1>5 DEF Placed
<1>8. <<>> \in DOMAIN tree'
  BY <1>3 DEF DocumentGood
<1> QED
  BY <1>3, <1>6, <1>7, <1>8 DEF DocumentGood, Placed

-----------------------------------------------------------------------------
(* The steps of the parser.                                                *)

LEMMA ValueDocument ==
  ASSUME ReaderInv, Ready, DocumentGood, TypeOK', NEW t \in Tokens, NEW st, Value(t, st)
  PROVE  DocumentGood'
<1>1. ASSUME NEW node \in Nodes, Put(Slot, node) PROVE DocumentGood'
  BY <1>1, PutDocument
<1>2. CASE \E type \in Containers : StartContainer(type)
  BY <1>1, <1>2 DEF StartContainer, Nodes
<1>3. CASE t.kind \in {"string", "scalar"} /\ Scalar(t.says)
  BY <1>1, <1>3, TokenFacts DEF Scalar
<1>4. CASE Fail
  BY <1>4 DEF Fail, builderVars, DocumentGood, Size
<1> QED
  BY <1>2, <1>3, <1>4 DEF Value, Containers

LEMMA DocumentStep ==
  ASSUME ReaderInv, ReaderInv', DocumentGood, NEW t \in Tokens, Step(t)
  PROVE  DocumentGood'
<1>1. TypeOK'
  BY DEF ReaderInv
<1>2. CASE tree' = tree
  BY <1>2 DEF DocumentGood, Size
<1>3. CASE at = "value" /\ Value(t, states)
  BY <1>1, <1>3, ReadyAtValue, ValueDocument DEF ReaderInv
<1>4. CASE at = "first_element" /\ Value(t, Append(states, TRUE))
  BY <1>1, <1>4, ValueDocument DEF ReaderInv, StackInv, Ready
<1>5. CASE at \in {"first_key", "key"} /\ t.kind = "string" /\ Key(t.says)
  BY <1>1, <1>5, KeyDocument, TokenFacts DEF ReaderInv, StackInv
<1>6. Fail \/ EndContainer \/ UNCHANGED builderVars => tree' = tree
  BY DEF Fail, EndContainer, builderVars
<1> QED
  BY <1>2, <1>3, <1>4, <1>5, <1>6
  DEF Step, FirstKey, FirstColon, NextKey, Colon, FirstElement, After

(* At every moment of the reading of any file, each node of the document   *)
(* is in an object under a key or in an array at a position without a gap  *)
(* before it, although members may be read anew over what is there         *)
(* (json_sax_dom_parser::handle_value, common/libs/json.hpp:9099).         *)
THEOREM ReaderDocumentGood == Spec => []DocumentGood
<1>1. ASSUME Init PROVE DocumentGood
  <2>1. DOMAIN tree = {<<>>}
    BY <1>1 DEF Init
  <2> QED
    BY <2>1 DEF DocumentGood
<1>2. ASSUME ReaderInv, ReaderInv', DocumentGood, [Next]_vars PROVE DocumentGood'
  <2>1. CASE Next
    <3>1. PICK t \in Tokens : Step(t)
      BY <2>1 DEF Next, EndOfInput, Tokens, Marks
    <3> QED
      BY <1>2, <3>1, DocumentStep
  <2>2. CASE UNCHANGED vars
    BY <1>2, <2>2 DEF vars, builderVars, DocumentGood, Size
  <2> QED
    BY <1>2, <2>1, <2>2
<1> QED
  BY <1>1, <1>2, ReaderInvariance, PTL DEF Spec

-----------------------------------------------------------------------------
(* What the reader has read, place by place.  The invariant says where the *)
(* last token must be for the parser to be where it is, that each          *)
(* container that is being filled is the last thing in the one around it,  *)
(* and that the document is what has been said last.                       *)

(* Node q is an element that no other follows, or a member.                *)
Newest(q) ==
  /\ tree[Shorter(q)] = "array" => Last(q) = Size(Shorter(q))
  /\ tree[Shorter(q)] # "array" => Last(q) \in Strings

NewestInv == \A i \in 2..Len(refStack) : Newest(refStack[i])

Over(w) == w.role \in {"scalar", "end"}

(* The last token is at w.                                                 *)
AtPlace(w) ==
  /\ at = "failed" => w = Nowhere
  /\ at = "done" => Over(w) /\ w.path = <<>>
  /\ at = "after" => Over(w) /\ w.path # <<>> /\ Shorter(w.path) = Top /\ Newest(w.path)
  /\ at = "first_element" => w.role = "array" /\ w.path = Top /\ Size(Top) = 0
  /\ at = "first_key" => w.role = "object" /\ w.path = Top
  /\ at \in {"first_colon", "colon"} => w.role = "key" /\ w.path = element
  /\ at = "key" => w.role = "comma" /\ IsMember(w.path) /\ Shorter(w.path) = Top
  /\ at = "value" =>
       \/ w.role = "beginning" /\ w.path = <<>> /\ refStack = <<>>
       \/ w.role = "colon" /\ InObject /\ w.path = element
       \/ /\ w.role = "comma" /\ InArray /\ IsElement(w.path)
          /\ Shorter(w.path) = Top /\ Last(w.path) = Size(Top)

(* The document is what the tokens up to n have said last, but for a       *)
(* member whose value comes next, and for the document before all.         *)
Awaits(w, q) == w.role \in {"beginning", "key", "colon"} /\ q = w.path

Documented(where, n) ==
  /\ \A i \in 1..n : Stands(where, n, i) =>
       where[i].path \in DOMAIN tree /\ tree[where[i].path] = Node(read[i])
  /\ \A q \in DOMAIN tree :
       \/ Awaits(where[n], q)
       \/ \E i \in 1..n : Stands(where, n, i) /\ where[i].path = q

-----------------------------------------------------------------------------
(* The places of the tokens: one token more.                               *)

Walk(text, where) ==
  where = [i \in 0..Len(text) |->
             IF i = 0 THEN Beginning ELSE Follow(where[i - 1], text[i])]

IsWhere(text, where) == \A other : Walk(text, other) <=> other = where

LEMMA WhereIs ==
  ASSUME NEW text, NEW where, IsWhere(text, where)
  PROVE  Where(text) = where
BY DEF IsWhere, Walk, Where

LEMMA WhereNothing ==
  \E where : IsWhere(<<>>, where) /\ where[0] = Beginning
<1> DEFINE where == [i \in 0..0 |-> Beginning]
<1>1. Len(<<>>) = 0
  OBVIOUS
<1>2. ASSUME NEW other PROVE Walk(<<>>, other) <=> other = where
  BY <1>1 DEF Walk
<1>3. where[0] = Beginning
  OBVIOUS
<1> QED
  BY <1>2, <1>3 DEF IsWhere

LEMMA WhereMore ==
  ASSUME NEW text \in Seq(Tokens), NEW t \in Tokens,
         NEW where, IsWhere(text, where)
  PROVE  \E more :
           /\ IsWhere(Append(text, t), more)
           /\ \A i \in 0..Len(text) : more[i] = where[i]
           /\ more[Len(text) + 1] = Follow(where[Len(text)], t)
<1>1. PICK n \in Nat : n = Len(text)
  OBVIOUS
<1>2. PICK longer : longer = Append(text, t)
  OBVIOUS
<1>3. /\ Len(longer) = n + 1
      /\ \A i \in 1..n : longer[i] = text[i]
      /\ longer[n + 1] = t
  BY <1>1, <1>2, Appended
<1>4. where = [i \in 0..n |-> IF i = 0 THEN Beginning ELSE Follow(where[i - 1], text[i])]
  BY <1>1 DEF IsWhere, Walk
<1> DEFINE more == [i \in 0..n + 1 |-> IF i = n + 1 THEN Follow(where[n], t) ELSE where[i]]
<1>5. \A i \in 0..n : more[i] = where[i]
  OBVIOUS
<1>6. more[n + 1] = Follow(where[n], t)
  OBVIOUS
<1>7. Walk(longer, more)
  <2>1. ASSUME NEW i \in 0..n + 1
        PROVE  more[i] = IF i = 0 THEN Beginning ELSE Follow(more[i - 1], longer[i])
    <3>1. CASE i = 0
      BY <1>4, <3>1
    <3>2. CASE i \in 1..n
      <4>1. more[i] = where[i] /\ more[i - 1] = where[i - 1] /\ longer[i] = text[i]
        BY <1>3, <1>5, <3>2
      <4> HIDE DEF more
      <4>2. i \in 0..n /\ i # 0
        BY <3>2
      <4>3. where[i] = Follow(where[i - 1], text[i])
        BY <1>4, <4>2
      <4> QED
        BY <4>1, <4>2, <4>3
    <3>3. CASE i = n + 1
      <4>1. more[i - 1] = where[n]
        BY <1>5, <3>3
      <4>2. more[i] = Follow(where[n], t)
        BY <3>3
      <4> HIDE DEF more
      <4> QED
        BY <1>3, <3>3, <4>1, <4>2
    <3> QED
      BY <3>1, <3>2, <3>3
  <2> QED
    BY <1>3, <2>1 DEF Walk
<1>8. ASSUME NEW other, Walk(longer, other) PROVE other = more
  <2>1. other = [i \in 0..n + 1 |->
                   IF i = 0 THEN Beginning ELSE Follow(other[i - 1], longer[i])]
    BY <1>3, <1>8 DEF Walk
  <2> DEFINE begun == [i \in 0..n |-> other[i]]
  <2>2. begun = where
    <3>1. ASSUME NEW i \in 0..n
          PROVE  begun[i] = IF i = 0 THEN Beginning ELSE Follow(begun[i - 1], text[i])
      <4>1. CASE i = 0
        BY <2>1, <4>1
      <4>2. CASE i \in 1..n
        <5>1. begun[i] = other[i] /\ begun[i - 1] = other[i - 1] /\ longer[i] = text[i]
          BY <1>3, <4>2
        <5> HIDE DEF begun
        <5>2. other[i] = Follow(other[i - 1], longer[i])
          BY <2>1, <4>2
        <5> QED
          BY <4>2, <5>1, <5>2
      <4> QED
        BY <4>1, <4>2
    <3>2. Walk(text, begun)
      BY <1>1, <3>1 DEF Walk
    <3> QED
      BY <3>2 DEF IsWhere
  <2>3. \A i \in 0..n : other[i] = where[i]
    BY <2>2
  <2>4. other[n + 1] = Follow(where[n], t)
    <3>1. other[n + 1] = Follow(other[n], longer[n + 1])
      BY <2>1
    <3> QED
      BY <1>3, <2>3, <3>1
  <2>5. \A i \in 0..n + 1 : other[i] = more[i]
    <3>1. \A i \in 0..n + 1 : i \in 0..n \/ i = n + 1
      OBVIOUS
    <3> QED
      BY <1>5, <1>6, <2>3, <2>4, <3>1
  <2> QED
    BY <2>1, <2>5
<1>9. IsWhere(longer, more)
  <2> HIDE DEF more
  <2> QED
    BY <1>7, <1>8 DEF IsWhere
<1> QED
  BY <1>1, <1>2, <1>5, <1>6, <1>9

-----------------------------------------------------------------------------
(* What an assignment, or a new member, does to the containers that are    *)
(* being filled.                                                           *)

LEMMA NewestStays ==
  ASSUME TypeOK, TypeOK', NEW q \in Paths, q # <<>>, Newest(q),
         tree'[Shorter(q)] = tree[Shorter(q)],
         Children(Shorter(q))' = Children(Shorter(q))
  PROVE  Newest(q)'
<1>1. PICK a \in Paths : a = Shorter(q)
  BY Shortened DEF Paths
<1>2. Size(a)' = Size(a)
  <2>1. Size(a) = Cardinality(Children(a)) /\ Size(a)' = Cardinality(Children(a)')
    BY <1>1, SizeCounts, SizeCountsNext
  <2> QED
    BY <1>1, <2>1
<1> QED
  BY <1>1, <1>2 DEF Newest

(* Only the container on top gets an element: nothing is in what is put    *)
(* there, and those around keep what they have.                            *)
LEMMA PutSizes ==
  ASSUME ReaderInv, ReaderInv', DocumentGood, Ready, NEW p, p = Slot,
         NEW top, top = Top, NEW node \in Nodes, Put(p, node)
  PROVE  /\ p \in Paths /\ Len(p) = Len(refStack)
         /\ refStack # <<>> => p # <<>> /\ Shorter(p) = top
         /\ \A a \in Paths : Len(a) + 1 < Len(p) => Children(a)' = Children(a)
         /\ Size(p)' = 0
         /\ InArray => Size(top)' = Size(top) + 1 /\ Last(p) = Size(top) + 1
<1> DEFINE kept == {r \in DOMAIN tree : ~Within(p, r)}
<1>1. /\ p \in Paths /\ Len(p) = Len(refStack) /\ Len(p) \in Nat
      /\ refStack # <<>> => Shorter(p) = top
  BY SlotFacts DEF ReaderInv, Paths
<1>2. DOMAIN tree' = kept \cup {p}
  BY DEF Put
<1>3. DOMAIN tree \subseteq Paths
  BY DEF ReaderInv, TypeOK
<1>4. refStack # <<>> => p # <<>>
  BY <1>1 DEF ReaderInv, TypeOK
<1>5. ASSUME NEW a \in Paths, NEW r \in Paths, r # <<>>, Shorter(r) = a
      PROVE  Len(a) \in Nat /\ Len(r) = Len(a) + 1
  BY <1>5, Shortened DEF Paths
<1>6. ASSUME NEW a \in Paths, Len(a) + 1 < Len(p)
      PROVE  Children(a)' = Children(a)
  <2>1. ASSUME NEW r \in Paths, r # <<>>, Shorter(r) = a
        PROVE  r # p /\ ~Within(p, r)
    BY <1>1, <1>5, <1>6, <2>1 DEF Within
  <2>2. ASSUME NEW r \in Children(a) PROVE r \in Children(a)'
    BY <1>2, <1>3, <2>1 DEF Children
  <2>3. ASSUME NEW r \in Children(a)' PROVE r \in Children(a)
    BY <1>1, <1>2, <1>3, <2>1 DEF Children
  <2> QED
    BY <2>2, <2>3
<1>7. Size(p)' = 0
  <2>1. ASSUME NEW r \in Children(p)' PROVE FALSE
    <3>1. r \in DOMAIN tree' /\ r # <<>> /\ Shorter(r) = p
      BY DEF Children
    <3>2. r \in Paths
      BY <1>1, <1>2, <1>3, <3>1
    <3>3. Within(p, r) /\ r # p
      BY <1>1, <1>5, <3>1, <3>2, ParentIs
    <3> QED
      BY <1>2, <3>1, <3>3
  <2>2. Children(p)' = {}
    BY <2>1
  <2> QED
    BY <1>1, <2>2, SizeCountsNext, FS_EmptySet DEF ReaderInv
<1>8. ASSUME InArray PROVE Size(top)' = Size(top) + 1 /\ Last(p) = Size(top) + 1
  <2>1. refStack # <<>> /\ top \in DOMAIN tree /\ tree[top] = "array"
    BY <1>8 DEF InArray
  <2>2. top \in Paths /\ Shorter(p) = top /\ p # <<>>
    BY <1>1, <1>3, <1>4, <2>1
  <2>3. Size(top) \in Nat /\ IsFiniteSet(Children(top))
    BY <2>2, SizeCounts DEF ReaderInv
  <2>4. p = Append(top, Size(top) + 1)
    BY <2>1 DEF Slot
  <2>5. Last(p) = Size(top) + 1
    BY <2>2, <2>3, <2>4, Appended DEF Paths
  <2>6. p \notin DOMAIN tree
    <3>1. p \in DOMAIN tree => Last(p) \in 1..Size(top)
      <4>1. Strings \cap Nat = {}
        BY ReaderAssumption
      <4> QED
        BY <2>1, <2>2 DEF DocumentGood
    <3> QED
      BY <2>3, <2>5, <3>1
  <2>7. Children(top)' = Children(top) \cup {p}
    <3>1. ASSUME NEW r \in Children(top) PROVE r \in Children(top)'
      <4>1. r \in DOMAIN tree /\ r # <<>> /\ Shorter(r) = top /\ r \in Paths
        BY <1>3 DEF Children
      <4>2. r # p
        BY <2>6, <4>1
      <4>3. ~Within(p, top)
        <5>1. Len(p) = Len(top) + 1 /\ Len(top) \in Nat
          BY <1>1, <1>5, <2>2
        <5> QED
          BY <5>1 DEF Within
      <4>4. ~Within(p, r)
        BY <1>1, <4>1, <4>2, <4>3, WithinParent
      <4> QED
        BY <1>2, <4>1, <4>4 DEF Children
    <3>2. p \in Children(top)'
      BY <1>2, <2>2 DEF Children
    <3>3. ASSUME NEW r \in Children(top)' PROVE r \in Children(top) \cup {p}
      BY <1>2 DEF Children
    <3> QED
      BY <3>1, <3>2, <3>3
  <2>8. p \notin Children(top)
    BY <2>6 DEF Children
  <2>9. Cardinality(Children(top)') = Cardinality(Children(top)) + 1
    BY <2>3, <2>7, <2>8, FS_AddElement
  <2> QED
    BY <2>2, <2>5, <2>9, SizeCounts, SizeCountsNext DEF ReaderInv
<1> QED
  BY <1>1, <1>4, <1>6, <1>7, <1>8

(* The container i levels down is the newest in the one around it.         *)
LEMMA RefFacts ==
  ASSUME ReaderInv, NEW i \in 2..Len(refStack)
  PROVE  /\ refStack[i] \in Paths /\ refStack[i] # <<>>
         /\ Shorter(refStack[i]) = refStack[i - 1]
         /\ refStack[i - 1] \in Paths
         /\ refStack[i - 1] \in DOMAIN tree
         /\ Len(refStack[i - 1]) = i - 2
<1>1. i \in 1..Len(refStack) /\ i - 1 \in 1..Len(refStack) /\ i > 1
  BY DEF ReaderInv, TypeOK
<1>2. refStack[i] \in Paths /\ refStack[i - 1] \in Paths
  BY <1>1 DEF ReaderInv, TypeOK
<1>3. Len(refStack[i]) = i - 1 /\ Len(refStack[i - 1]) = i - 2
  BY <1>1 DEF ReaderInv, RefsInv
<1>4. Shorter(refStack[i]) = refStack[i - 1] /\ refStack[i - 1] \in DOMAIN tree
  BY <1>1 DEF ReaderInv, RefsInv
<1>5. refStack[i] # <<>>
  BY <1>1, <1>3
<1> QED
  BY <1>2, <1>3, <1>4, <1>5

LEMMA PutNewest ==
  ASSUME ReaderInv, ReaderInv', DocumentGood, Ready, NewestInv, NEW p, p = Slot,
         NEW node \in Nodes, Put(p, node)
  PROVE  /\ p # <<>> => Newest(p)'
         /\ \A i \in 2..Len(refStack) : \A q : q = refStack[i] => Newest(q)'
<1>1. PICK top : top = Top
  OBVIOUS
<1>2. /\ p \in Paths /\ Len(p) = Len(refStack)
      /\ refStack # <<>> => p # <<>> /\ Shorter(p) = top
      /\ \A a \in Paths : Len(a) + 1 < Len(p) => Children(a)' = Children(a)
      /\ InArray => Size(top)' = Size(top) + 1 /\ Last(p) = Size(top) + 1
  BY <1>1, PutSizes
<1>3. \A i \in 1..Len(refStack) :
        refStack[i] \in DOMAIN tree' /\ tree'[refStack[i]] = tree[refStack[i]]
  BY <1>2, PutFacts DEF ReaderInv
<1>4. ASSUME p # <<>> PROVE Newest(p)'
  <2>1. refStack # <<>>
    BY <1>2, <1>4 DEF Paths, ReaderInv, TypeOK
  <2>2. tree'[top] = tree[top] /\ Shorter(p) = top
    <3>1. Len(refStack) \in 1..Len(refStack) /\ top = refStack[Len(refStack)]
      BY <1>1, <2>1, TopFacts DEF ReaderInv
    <3> QED
      BY <1>2, <1>3, <2>1, <3>1
  <2>3. CASE InArray
    <3>1. tree[top] = "array"
      BY <1>1, <2>3 DEF InArray
    <3> QED
      BY <1>2, <2>2, <2>3, <3>1 DEF Newest
  <2>4. CASE ~InArray
    <3>1. PICK k \in Strings : InObject /\ element = Append(top, k)
      BY <1>1, <2>1, <2>4 DEF Ready
    <3>2. tree[top] = "object" /\ p = Append(top, k) /\ top \in Paths
      BY <1>1, <3>1, TopFacts DEF InObject, Slot, ReaderInv
    <3>3. Last(p) = k
      BY <3>2, Appended DEF Paths
    <3> QED
      BY <2>2, <3>2, <3>3 DEF Newest
  <2> QED
    BY <2>3, <2>4
<1>5. ASSUME NEW i \in 2..Len(refStack), NEW q, q = refStack[i]
      PROVE  Newest(q)'
  <2>1. PICK a : a = refStack[i - 1]
    OBVIOUS
  <2>2. q \in Paths /\ q # <<>> /\ Shorter(q) = a /\ a \in Paths /\ Len(a) = i - 2
    BY <1>5, <2>1, RefFacts
  <2>3. Len(refStack) \in Nat /\ i - 1 \in 1..Len(refStack)
    BY DEF ReaderInv, TypeOK
  <2>4. Children(a)' = Children(a)
    BY <1>2, <2>2, <2>3
  <2>5. tree'[a] = tree[a]
    BY <1>3, <2>1, <2>3
  <2>6. Newest(q)
    BY <1>5 DEF NewestInv
  <2> QED
    BY <2>2, <2>4, <2>5, <2>6, NewestStays DEF ReaderInv
<1> QED
  BY <1>4, <1>5

LEMMA KeyNewest ==
  ASSUME ReaderInv, ReaderInv', NewestInv, InObject, NEW k \in Strings, Key(k)
  PROVE  NewestInv'
<1>1. PICK top : top = Top
  OBVIOUS
<1>2. PICK member : member = Append(top, k)
  OBVIOUS
<1>3. /\ DOMAIN tree' = DOMAIN tree \cup {member}
      /\ \A q \in DOMAIN tree : tree'[q] = tree[q]
      /\ refStack' = refStack
  BY <1>1, <1>2 DEF Key
<1>4. top \in Paths /\ Len(top) = Len(refStack) - 1
  BY <1>1, TopFacts DEF InObject, ReaderInv
<1>5. member # <<>> /\ Shorter(member) = top
  BY <1>2, <1>4, Appended DEF Paths
<1>6. ASSUME NEW i \in 2..Len(refStack), NEW q, q = refStack[i]
      PROVE  Newest(q)'
  <2>1. PICK a : a = refStack[i - 1]
    OBVIOUS
  <2>2. /\ q \in Paths /\ q # <<>> /\ Shorter(q) = a
        /\ a \in Paths /\ a \in DOMAIN tree /\ Len(a) = i - 2
    BY <1>6, <2>1, RefFacts
  <2>3. Len(refStack) \in Nat
    BY DEF ReaderInv, TypeOK
  <2>4. a # top
    BY <1>4, <2>2, <2>3
  <2>5. Children(a)' = Children(a)
    BY <1>3, <1>5, <2>4 DEF Children
  <2>6. tree'[a] = tree[a]
    BY <1>3, <2>2
  <2>7. Newest(q)
    BY <1>6 DEF NewestInv
  <2> QED
    BY <2>2, <2>5, <2>6, <2>7, NewestStays DEF ReaderInv
<1> QED
  BY <1>3, <1>6 DEF NewestInv, Newest, Size

-----------------------------------------------------------------------------
(* The parser is where the place of the last token says.                   *)

LEMMA FailPlace ==
  ASSUME Fail, NewestInv
  PROVE  NewestInv' /\ AtPlace(Nowhere)'
BY DEF Fail, builderVars, NewestInv, Newest, Size, AtPlace

LEMMA ValuePlace ==
  ASSUME ReaderInv, ReaderInv', DocumentGood, Ready, NewestInv,
         NEW t \in Tokens, NEW st, Len(st) = Len(refStack), st \in Seq(BOOLEAN),
         Value(t, st), NEW p, p = Slot
  PROVE  NewestInv' /\ AtPlace(ValueAt(p, t))'
<1>1. PICK top : top = Top
  OBVIOUS
<1>2. PICK v : v = ValueAt(p, t)
  OBVIOUS
<1>3. p \in Paths /\ Len(p) = Len(refStack) /\ (refStack # <<>> => Shorter(p) = top)
  BY <1>1, SlotFacts DEF ReaderInv
<1>4. refStack \in Seq(Paths) /\ Len(refStack) \in Nat
  BY DEF ReaderInv, TypeOK
<1>5. CASE \E type \in Containers :
             /\ StartContainer(type)
             /\ at' = (IF type = "object" THEN "first_key" ELSE "first_element")
             /\ t.kind = (IF type = "object" THEN "{" ELSE "[")
  <2>1. PICK type \in Containers :
             /\ StartContainer(type)
             /\ at' = (IF type = "object" THEN "first_key" ELSE "first_element")
             /\ t.kind = (IF type = "object" THEN "{" ELSE "[")
    BY <1>5
  <2>2. v = Place(p, type)
    BY <1>2, <2>1 DEF ValueAt, Containers
  <2>3. Put(p, type) /\ refStack' = Append(refStack, p) /\ type \in Nodes
    BY <2>1 DEF StartContainer, Nodes
  <2>4. /\ Len(refStack') = Len(refStack) + 1
        /\ \A i \in 1..Len(refStack) : refStack'[i] = refStack[i]
        /\ refStack'[Len(refStack) + 1] = p
        /\ refStack' # <<>>
        /\ Last(refStack') = p
    BY <1>3, <1>4, <2>3, Appended
  <2>5. Top' = p
    BY <2>4 DEF Top, Last
  <2>6. Size(Top)' = 0
    <3>1. Size(p)' = 0
      BY <1>1, <2>3, PutSizes
    <3> QED
      BY <2>5, <3>1 DEF Size
  <2>7. NewestInv'
    <3>1. /\ p # <<>> => Newest(p)'
          /\ \A i \in 2..Len(refStack) : \A q : q = refStack[i] => Newest(q)'
      BY <2>3, PutNewest
    <3>2. ASSUME NEW i \in 2..Len(refStack'), NEW q, q = refStack'[i]
          PROVE  Newest(q)'
      <4>1. CASE i \in 2..Len(refStack)
        <5>1. q = refStack[i]
          BY <1>4, <2>4, <3>2, <4>1
        <5> QED
          BY <3>1, <4>1, <5>1
      <4>2. CASE i = Len(refStack) + 1
        <5>1. p # <<>>
          BY <1>3, <1>4, <4>2
        <5> QED
          BY <2>4, <3>1, <3>2, <4>2, <5>1
      <4> QED
        BY <1>4, <2>4, <4>1, <4>2
    <3> QED
      BY <3>2 DEF NewestInv, Newest, Size
  <2>8. AtPlace(v)'
    BY <2>1, <2>2, <2>5, <2>6 DEF AtPlace, Place, Containers
  <2> QED
    BY <1>2, <2>7, <2>8
<1>6. CASE t.kind \in {"string", "scalar"} /\ Scalar(t.says) /\ Ended(st)
  <2>1. v = Place(p, "scalar")
    BY <1>2, <1>6 DEF ValueAt
  <2>2. Put(p, t.says) /\ refStack' = refStack /\ t.says \in Nodes
    BY <1>6, TokenFacts DEF Scalar
  <2>3. /\ p # <<>> => Newest(p)'
        /\ \A i \in 2..Len(refStack) : \A q : q = refStack[i] => Newest(q)'
    BY <2>2, PutNewest
  <2>4. NewestInv'
    BY <2>2, <2>3 DEF NewestInv, Newest, Size
  <2>5. p = <<>> <=> st = <<>>
    <3>1. p = <<>> <=> Len(p) = 0
      BY <1>3 DEF Paths
    <3>2. st = <<>> <=> Len(st) = 0
      OBVIOUS
    <3> QED
      BY <1>3, <3>1, <3>2
  <2>6. at' = IF p = <<>> THEN "done" ELSE "after"
    BY <1>6, <2>5 DEF Ended
  <2>7. p # <<>> => Shorter(p) = top /\ Top' = top
    <3>1. p # <<>> => refStack # <<>>
      BY <1>3, <2>5, <1>4
    <3> QED
      BY <1>1, <1>3, <2>2, <3>1 DEF Top
  <2>8. AtPlace(v)'
    BY <2>1, <2>3, <2>6, <2>7 DEF AtPlace, Place, Over
  <2> QED
    BY <1>2, <2>4, <2>8
<1>7. CASE t.kind \in Marks \ {"{", "["} /\ Fail
  <2>1. v = Nowhere
    BY <1>2, <1>7 DEF ValueAt, Marks
  <2> QED
    BY <1>2, <1>7, <2>1, FailPlace
<1> QED
  BY <1>5, <1>6, <1>7 DEF Value, Containers

LEMMA EndPlace ==
  ASSUME ReaderInv, ReaderInv', NewestInv, refStack # <<>>, EndContainer,
         NEW st \in Seq(BOOLEAN), Len(refStack) = Len(st) + 1, Ended(st),
         NEW top, top = Top
  PROVE  NewestInv' /\ AtPlace(Place(top, "end"))'
<1>1. PICK v : v = Place(top, "end")
  OBVIOUS
<1>2. refStack' = Shorter(refStack) /\ tree' = tree
  BY DEF EndContainer
<1>3. refStack \in Seq(Paths) /\ Len(st) \in Nat
  BY DEF ReaderInv, TypeOK
<1>4. /\ Len(refStack') = Len(st)
      /\ \A i \in 1..Len(st) : refStack'[i] = refStack[i]
  BY <1>2, <1>3, Shortened
<1>5. top \in Paths /\ Len(top) = Len(st) /\ top = refStack[Len(st) + 1]
  BY <1>3, TopFacts DEF ReaderInv
<1>6. NewestInv'
  <2>1. ASSUME NEW i \in 2..Len(st) PROVE refStack'[i] = refStack[i] /\ Newest(refStack[i])
    <3>1. i \in 1..Len(st) /\ i \in 2..Len(refStack)
      BY <1>3
    <3> QED
      BY <1>4, <3>1 DEF NewestInv
  <2> QED
    BY <1>2, <1>4, <2>1 DEF NewestInv, Newest, Size
<1>7. top = <<>> <=> st = <<>>
  BY <1>3, <1>5 DEF Paths
<1>8. at' = IF top = <<>> THEN "done" ELSE "after"
  BY <1>7 DEF Ended
<1>9. ASSUME top # <<>> PROVE Shorter(top) = Top' /\ Newest(top)'
  <2>1. Len(st) \in Nat \ {0}
    BY <1>3, <1>5, <1>9 DEF Paths
  <2>2. Len(st) + 1 \in 2..Len(refStack)
    BY <2>1
  <2>3. Shorter(top) = refStack[Len(st)]
    <3>1. PICK i \in 2..Len(refStack) : i = Len(st) + 1
      BY <2>2
    <3>2. i - 1 = Len(st)
      BY <1>3, <3>1
    <3>3. Shorter(refStack[i]) = refStack[i - 1]
      BY RefFacts
    <3> QED
      BY <1>5, <3>1, <3>2, <3>3
  <2>4. Top' = refStack[Len(st)]
    BY <1>4, <2>1 DEF Top, Last
  <2>5. Newest(top)
    BY <1>5, <2>2 DEF NewestInv
  <2> QED
    BY <1>2, <2>3, <2>4, <2>5 DEF Newest, Size
<1>10. AtPlace(v)'
  BY <1>1, <1>8, <1>9 DEF AtPlace, Place, Over
<1> QED
  BY <1>1, <1>6, <1>10

(* A value goes to the place where the text has one.                       *)
LEMMA ValueFollows ==
  ASSUME ReaderInv, NEW w, AtPlace(w), NEW t \in Tokens, NEW p, p = Slot,
         at = "value" \/ (at = "first_element" /\ t.kind # "]")
  PROVE  /\ Ready
         /\ Follow(w, t) = ValueAt(p, t)
         /\ \A q : Awaits(w, q) => q = p
<1>1. CASE at = "value"
  <2>1. Ready
    BY <1>1, ReadyAtValue DEF ReaderInv
  <2>2. CASE w.role = "beginning" /\ w.path = <<>> /\ refStack = <<>>
    BY <2>1, <2>2 DEF Follow, Slot, Awaits
  <2>3. CASE w.role = "colon" /\ InObject /\ w.path = element
    BY <2>1, <2>3 DEF Follow, Slot, InObject, Awaits
  <2>4. CASE /\ w.role = "comma" /\ InArray /\ IsElement(w.path)
             /\ Shorter(w.path) = Top /\ Last(w.path) = Size(Top)
    <3>1. ~IsMember(w.path)
      BY <2>4, ReaderAssumption DEF IsElement, IsMember
    <3>2. Follow(w, t) = ValueAt(Append(Shorter(w.path), Last(w.path) + 1), t)
      BY <2>4, <3>1 DEF Follow, BehindComma
    <3>3. p = Append(Top, Size(Top) + 1)
      BY <2>4 DEF Slot, InArray
    <3> QED
      BY <2>1, <2>4, <3>2, <3>3 DEF Awaits
  <2> QED
    BY <1>1, <2>2, <2>3, <2>4 DEF AtPlace
<1>2. CASE at = "first_element" /\ t.kind # "]"
  <2>1. w.role = "array" /\ w.path = Top /\ Size(Top) = 0 /\ InArray
    BY <1>2 DEF AtPlace, ReaderInv, StackInv
  <2>2. Follow(w, t) = ValueAt(Append(Top, 1), t)
    BY <1>2, <2>1 DEF Follow
  <2>3. p = Append(Top, 1)
    BY <2>1 DEF Slot, InArray
  <2> QED
    BY <2>1, <2>2, <2>3 DEF Ready, Awaits
<1> QED
  BY <1>1, <1>2

(* Every step of the parser goes to the place of the token.                *)
LEMMA PlaceStep ==
  ASSUME ReaderInv, ReaderInv', DocumentGood, NewestInv,
         NEW w, AtPlace(w), NEW t \in Tokens, Step(t)
  PROVE  NewestInv' /\ AtPlace(Follow(w, t))'
<1>1. PICK v : v = Follow(w, t)
  OBVIOUS
<1>2. PICK top : top = Top
  OBVIOUS
<1>3. PICK p : p = Slot
  OBVIOUS
<1>4. states \in Seq(BOOLEAN) /\ refStack \in Seq(Paths) /\ Len(states) \in Nat
  BY DEF ReaderInv, TypeOK
<1>5. ASSUME Fail, v = Nowhere PROVE NewestInv' /\ AtPlace(v)'
  BY <1>5, FailPlace
<1>6. CASE at = "value" /\ Value(t, states)
  <2>1. Ready /\ Len(refStack) = Len(states)
    BY <1>6, ReadyAtValue DEF ReaderInv, StackInv
  <2>2. v = ValueAt(p, t)
    BY <1>1, <1>3, <1>6, ValueFollows
  <2>3. NewestInv' /\ AtPlace(ValueAt(p, t))'
    BY <1>3, <1>4, <1>6, <2>1, ValuePlace
  <2> QED
    BY <1>1, <2>2, <2>3
<1>7. CASE at = "first_key" /\ FirstKey(t)
  <2>1. w.role = "object" /\ w.path = top /\ InObject /\ Len(refStack) = Len(states) + 1
    BY <1>2, <1>7 DEF AtPlace, ReaderInv, StackInv
  <2>2. CASE t.kind = "}" /\ EndContainer /\ Ended(states)
    <3>1. v = Place(top, "end")
      BY <1>1, <2>1, <2>2 DEF Follow
    <3> QED
      BY <1>1, <1>2, <1>4, <2>1, <2>2, <3>1, EndPlace DEF InObject
  <2>3. CASE t.kind = "string" /\ Key(t.says) /\ Go("first_colon")
    <3>1. v = Place(Append(top, t.says), "key")
      BY <1>1, <2>1, <2>3 DEF Follow, KeyIn
    <3>2. element' = Append(top, t.says) /\ at' = "first_colon"
      BY <1>2, <2>3 DEF Key, Go
    <3>3. NewestInv'
      BY <2>1, <2>3, KeyNewest, TokenFacts
    <3>4. AtPlace(v)'
      BY <3>1, <3>2 DEF AtPlace, Place
    <3> QED
      BY <1>1, <3>3, <3>4
  <2>4. CASE t.kind \notin {"}", "string"} /\ Fail
    <3>1. v = Nowhere
      BY <1>1, <2>1, <2>4 DEF Follow, KeyIn
    <3> QED
      BY <1>1, <1>5, <2>4, <3>1
  <2> QED
    BY <1>7, <2>2, <2>3, <2>4 DEF FirstKey
<1>8. CASE (at = "first_colon" /\ FirstColon(t)) \/ (at = "colon" /\ Colon(t))
  <2>1. w.role = "key" /\ w.path = element /\ InObject
    BY <1>8 DEF AtPlace, ReaderInv, StackInv
  <2>2. CASE t.kind = ":" /\ at' = "value" /\ UNCHANGED builderVars
    <3>1. v = Place(w.path, "colon")
      BY <1>1, <2>1, <2>2 DEF Follow
    <3>2. tree' = tree /\ refStack' = refStack /\ element' = element
      BY <2>2 DEF builderVars
    <3>3. NewestInv'
      BY <3>2 DEF NewestInv, Newest, Size
    <3>4. InObject'
      BY <2>1, <3>2 DEF InObject, Top
    <3>5. AtPlace(v)'
      BY <2>1, <2>2, <3>1, <3>2, <3>4 DEF AtPlace, Place
    <3> QED
      BY <1>1, <3>3, <3>5
  <2>3. CASE t.kind # ":" /\ Fail
    <3>1. v = Nowhere
      BY <1>1, <2>1, <2>3 DEF Follow
    <3> QED
      BY <1>1, <1>5, <2>3, <3>1
  <2> QED
    BY <1>8, <2>2, <2>3 DEF FirstColon, Colon, Go
<1>9. CASE at = "key" /\ NextKey(t)
  <2>1. w.role = "comma" /\ IsMember(w.path) /\ Shorter(w.path) = top /\ InObject
    BY <1>2, <1>9 DEF AtPlace, ReaderInv, StackInv
  <2>2. ~IsElement(w.path)
    BY <2>1, ReaderAssumption DEF IsElement, IsMember
  <2>3. v = KeyIn(top, t)
    BY <1>1, <2>1, <2>2 DEF Follow, BehindComma
  <2>4. CASE t.kind = "string" /\ Key(t.says) /\ Go("colon")
    <3>1. v = Place(Append(top, t.says), "key")
      BY <2>3, <2>4 DEF KeyIn
    <3>2. element' = Append(top, t.says) /\ at' = "colon"
      BY <1>2, <2>4 DEF Key, Go
    <3>3. NewestInv'
      BY <2>1, <2>4, KeyNewest, TokenFacts
    <3>4. AtPlace(v)'
      BY <3>1, <3>2 DEF AtPlace, Place
    <3> QED
      BY <1>1, <3>3, <3>4
  <2>5. CASE t.kind # "string" /\ Fail
    <3>1. v = Nowhere
      BY <2>3, <2>5 DEF KeyIn
    <3> QED
      BY <1>1, <1>5, <2>5, <3>1
  <2> QED
    BY <1>9, <2>4, <2>5 DEF NextKey
<1>10. CASE at = "first_element" /\ FirstElement(t)
  <2>1. /\ w.role = "array" /\ w.path = top /\ Size(Top) = 0
        /\ InArray /\ Len(refStack) = Len(states) + 1
    BY <1>2, <1>10 DEF AtPlace, ReaderInv, StackInv
  <2>2. CASE t.kind = "]" /\ EndContainer /\ Ended(states)
    <3>1. v = Place(top, "end")
      BY <1>1, <2>1, <2>2 DEF Follow
    <3> QED
      BY <1>1, <1>2, <1>4, <2>1, <2>2, <3>1, EndPlace DEF InArray
  <2>3. CASE t.kind # "]" /\ Value(t, Append(states, TRUE))
    <3>1. Ready /\ v = ValueAt(p, t)
      BY <1>1, <1>3, <1>10, <2>3, ValueFollows
    <3>2. Append(states, TRUE) \in Seq(BOOLEAN) /\ Len(Append(states, TRUE)) = Len(states) + 1
      BY <1>4, Appended
    <3>3. NewestInv' /\ AtPlace(ValueAt(p, t))'
      BY <1>3, <2>1, <2>3, <3>1, <3>2, ValuePlace
    <3> QED
      BY <1>1, <3>1, <3>3
  <2> QED
    BY <1>10, <2>2, <2>3 DEF FirstElement
<1>11. CASE at = "after" /\ After(t)
  <2>1. /\ Over(w) /\ w.path # <<>> /\ Shorter(w.path) = top /\ Newest(w.path)
        /\ states # <<>> /\ Len(refStack) = Len(states)
    BY <1>2, <1>11 DEF AtPlace, ReaderInv, StackInv
  <2>2. refStack # <<>> /\ top \in DOMAIN tree /\ tree[top] = IF Last(states) THEN "array" ELSE "object"
    BY <1>2, <1>11, TopOfStates
  <2>3. v = BehindValue(w.path, t)
    BY <1>1, <2>1 DEF Follow, Over
  <2>4. IF Last(states)
        THEN IsElement(w.path) /\ ~IsMember(w.path) /\ Last(w.path) = Size(top)
        ELSE IsMember(w.path) /\ ~IsElement(w.path)
    <3>1. top \in Paths
      BY <1>2, <2>2, TopFacts DEF ReaderInv
    <3>2. Size(top) \in Nat
      BY <3>1, SizeCounts DEF ReaderInv
    <3> QED
      BY <2>1, <2>2, <3>2, ReaderAssumption DEF Newest, IsElement, IsMember
  <2>5. CASE /\ t.kind = ","
             /\ Go(IF Last(states) THEN "value" ELSE "key")
             /\ UNCHANGED builderVars
    <3>1. v = Place(w.path, "comma")
      BY <2>1, <2>3, <2>5 DEF BehindValue
    <3>2. tree' = tree /\ refStack' = refStack
      BY <2>5 DEF builderVars
    <3>3. NewestInv'
      BY <3>2 DEF NewestInv, Newest, Size
    <3>4. Top' = top /\ Size(Top)' = Size(top)
      BY <1>2, <3>2 DEF Top, Size
    <3>5. CASE Last(states)
      <4>1. at' = "value" /\ InArray'
        BY <1>2, <2>2, <2>5, <3>2, <3>5 DEF Go, InArray, Top
      <4> QED
        BY <1>1, <2>1, <2>4, <3>1, <3>3, <3>4, <3>5, <4>1 DEF AtPlace, Place
    <3>6. CASE ~Last(states)
      <4>1. at' = "key"
        BY <2>5, <3>6 DEF Go
      <4> QED
        BY <1>1, <2>1, <2>4, <3>1, <3>3, <3>4, <3>6, <4>1 DEF AtPlace, Place
    <3> QED
      BY <3>5, <3>6
  <2>6. CASE /\ t.kind = (IF Last(states) THEN "]" ELSE "}")
             /\ EndContainer /\ Ended(Shorter(states))
    <3>1. v = Place(top, "end")
      BY <2>1, <2>3, <2>4, <2>6 DEF BehindValue
    <3>2. Shorter(states) \in Seq(BOOLEAN) /\ Len(refStack) = Len(Shorter(states)) + 1
      BY <1>4, <2>1, Shortened
    <3> QED
      BY <1>1, <1>2, <2>2, <2>6, <3>1, <3>2, EndPlace
  <2>7. CASE t.kind \notin {",", IF Last(states) THEN "]" ELSE "}"} /\ Fail
    <3>1. v = Nowhere
      BY <2>3, <2>4, <2>7 DEF BehindValue
    <3> QED
      BY <1>1, <1>5, <2>7, <3>1
  <2> QED
    BY <1>11, <2>5, <2>6, <2>7 DEF After
<1> QED
  BY <1>6, <1>7, <1>8, <1>9, <1>10, <1>11 DEF Step

-----------------------------------------------------------------------------
(* The document is what has been said last.                                *)

Begins(t) == t.kind \in {"[", "{", "string", "scalar"}

(* A token that begins no value says nothing.                              *)
LEMMA SaidKinds ==
  ASSUME NEW w, NEW t, ~Begins(t)
  PROVE  Follow(w, t).role \notin {"array", "object", "scalar"}
<1> DEFINE saying == {"array", "object", "scalar"}
<1>1. t.kind \notin {"[", "{", "string", "scalar"}
  BY DEF Begins
<1>2. Nowhere.role \notin saying
  BY DEF Nowhere, Place
<1>3. \A p : Place(p, "end").role \notin saying /\ Place(p, "colon").role \notin saying
  BY DEF Place
<1>4. \A p : ValueAt(p, t).role \notin saying /\ KeyIn(p, t).role \notin saying
  BY <1>1, <1>2 DEF ValueAt, KeyIn
<1>5. \A p : BehindValue(p, t).role \notin saying
  BY DEF BehindValue, Place, Nowhere
<1>6. ASSUME NEW p PROVE BehindComma(p, t).role \notin saying
  <2>1. CASE IsElement(p) /\ ~IsMember(p)
    BY <1>4, <2>1 DEF BehindComma
  <2>2. CASE ~IsElement(p)
    BY <1>2, <1>4, <2>2 DEF BehindComma
  <2>3. ~(IsElement(p) /\ IsMember(p))
    BY ReaderAssumption DEF IsElement, IsMember
  <2> QED
    BY <2>1, <2>2, <2>3
<1>7. Follow(w, t).role \notin saying
  <2> HIDE DEF saying
  <2>1. CASE w.role \in {"beginning", "colon"}
    BY <1>4, <2>1 DEF Follow
  <2>2. CASE w.role = "array"
    BY <1>3, <1>4, <2>2 DEF Follow
  <2>3. CASE w.role = "object"
    BY <1>3, <1>4, <2>3 DEF Follow
  <2>4. CASE w.role = "key"
    BY <1>2, <1>3, <2>4 DEF Follow
  <2>5. CASE w.role \in {"scalar", "end"}
    BY <1>5, <2>5 DEF Follow
  <2>6. CASE w.role = "comma"
    BY <1>6, <2>6 DEF Follow
  <2>7. CASE w.role \notin {"beginning", "colon", "array", "object", "key", "scalar", "end", "comma"}
    BY <1>2, <2>7 DEF Follow
  <2> QED
    BY <2>1, <2>2, <2>3, <2>4, <2>5, <2>6, <2>7
<1> QED
  BY <1>7

(* What is said of a value's place takes the place of all that was said of *)
(* it and of what is in it, as the assignment does.                        *)
LEMMA PutDocumented ==
  ASSUME NEW n \in Nat, Len(read) = n, read \in Seq(Tokens),
         NEW t \in Tokens, read' = Append(read, t),
         NEW where, NEW more, \A i \in 0..n : more[i] = where[i],
         NEW p \in Paths, more[n + 1].path = p, Said(more, n + 1), Put(p, Node(t)),
         \A q : Awaits(where[n], q) => q = p,
         Documented(where, n)
  PROVE  Documented(more, n + 1)'
<1> DEFINE kept == {r \in DOMAIN tree : ~Within(p, r)}
<1>1. /\ DOMAIN tree' = kept \cup {p}
      /\ tree'[p] = Node(t)
      /\ \A q \in kept : q # p => tree'[q] = tree[q]
  BY DEF Put
<1>2. Within(p, p)
  BY DEF Within, Paths
<1>3. (\A i \in 1..n : read'[i] = read[i]) /\ read'[n + 1] = t
  BY Appended
<1>4. ASSUME NEW i \in 1..n
      PROVE  Stands(more, n + 1, i) <=> Stands(where, n, i) /\ ~Within(p, where[i].path)
  <2>1. /\ more[i] = where[i]
        /\ \A j \in i + 1..n : more[j] = where[j]
        /\ \A j \in i + 1..n + 1 : j \in i + 1..n \/ j = n + 1
        /\ \A j \in i + 1..n : j \in i + 1..n + 1
        /\ n + 1 \in i + 1..n + 1
    OBVIOUS
  <2>2. Said(more, i) <=> Said(where, i)
    BY <2>1 DEF Said
  <2>3. \A j \in i + 1..n : Said(more, j) <=> Said(where, j)
    BY <2>1 DEF Said
  <2> QED
    BY <2>1, <2>2, <2>3 DEF Stands
<1>5. Stands(more, n + 1, n + 1)
  <2>1. \A j \in n + 1 + 1..n + 1 : FALSE
    OBVIOUS
  <2> QED
    BY <2>1 DEF Stands
<1>6. ASSUME NEW i \in 1..n + 1, Stands(more, n + 1, i)
      PROVE  more[i].path \in DOMAIN tree' /\ tree'[more[i].path] = Node(read'[i])
  <2>1. CASE i = n + 1
    BY <1>1, <1>3, <2>1
  <2>2. CASE i \in 1..n
    <3>1. Stands(where, n, i) /\ ~Within(p, where[i].path) /\ more[i] = where[i]
      BY <1>4, <1>6, <2>2
    <3>2. where[i].path \in DOMAIN tree /\ tree[where[i].path] = Node(read[i])
      BY <2>2, <3>1 DEF Documented
    <3>3. where[i].path \in kept /\ where[i].path # p
      BY <1>2, <3>1, <3>2
    <3> QED
      BY <1>1, <1>3, <2>2, <3>1, <3>2, <3>3
  <2> QED
    BY <2>1, <2>2
<1>7. ASSUME NEW q \in DOMAIN tree'
      PROVE  \E i \in 1..n + 1 : Stands(more, n + 1, i) /\ more[i].path = q
  <2>1. CASE q = p
    BY <1>5, <2>1
  <2>2. CASE q # p
    <3>1. q \in DOMAIN tree /\ ~Within(p, q)
      BY <1>1, <2>2
    <3>2. ~Awaits(where[n], q)
      BY <2>2
    <3>3. PICK i \in 1..n : Stands(where, n, i) /\ where[i].path = q
      BY <3>1, <3>2 DEF Documented
    <3>4. Stands(more, n + 1, i) /\ more[i].path = q /\ i \in 1..n + 1
      BY <1>4, <3>1, <3>3
    <3> QED
      BY <3>4
  <2> QED
    BY <2>1, <2>2
<1> QED
  BY <1>6, <1>7 DEF Documented

(* A token that says nothing leaves the document, but for the member that  *)
(* it announces.                                                           *)
LEMMA QuietDocumented ==
  ASSUME NEW n \in Nat, Len(read) = n, read \in Seq(Tokens),
         NEW t \in Tokens, read' = Append(read, t),
         NEW where, NEW more, \A i \in 0..n : more[i] = where[i],
         ~Said(more, n + 1),
         \A q \in DOMAIN tree : q \in DOMAIN tree' /\ tree'[q] = tree[q],
         \A q \in DOMAIN tree' : Awaits(more[n + 1], q) \/ q \in DOMAIN tree,
         \A q : Awaits(where[n], q) => Awaits(more[n + 1], q),
         Documented(where, n)
  PROVE  Documented(more, n + 1)'
<1>1. \A i \in 1..n : read'[i] = read[i]
  BY Appended
<1>2. ASSUME NEW i \in 1..n
      PROVE  Stands(more, n + 1, i) <=> Stands(where, n, i)
  <2>1. /\ more[i] = where[i]
        /\ \A j \in i + 1..n : more[j] = where[j]
        /\ \A j \in i + 1..n + 1 : j \in i + 1..n \/ j = n + 1
        /\ \A j \in i + 1..n : j \in i + 1..n + 1
    OBVIOUS
  <2>2. Said(more, i) <=> Said(where, i)
    BY <2>1 DEF Said
  <2>3. \A j \in i + 1..n : Said(more, j) <=> Said(where, j)
    BY <2>1 DEF Said
  <2> QED
    BY <2>1, <2>2, <2>3 DEF Stands
<1>3. ASSUME NEW i \in 1..n + 1, Stands(more, n + 1, i)
      PROVE  more[i].path \in DOMAIN tree' /\ tree'[more[i].path] = Node(read'[i])
  <2>1. i # n + 1
    BY <1>3 DEF Stands
  <2>2. i \in 1..n
    BY <2>1
  <2>3. Stands(where, n, i) /\ more[i] = where[i]
    BY <1>2, <1>3, <2>2
  <2>4. where[i].path \in DOMAIN tree /\ tree[where[i].path] = Node(read[i])
    BY <2>2, <2>3 DEF Documented
  <2> QED
    BY <1>1, <2>2, <2>3, <2>4
<1>4. ASSUME NEW q \in DOMAIN tree', ~Awaits(more[n + 1], q)
      PROVE  \E i \in 1..n + 1 : Stands(more, n + 1, i) /\ more[i].path = q
  <2>1. q \in DOMAIN tree /\ ~Awaits(where[n], q)
    BY <1>4
  <2>2. PICK i \in 1..n : Stands(where, n, i) /\ where[i].path = q
    BY <2>1 DEF Documented
  <2>3. Stands(more, n + 1, i) /\ more[i].path = q /\ i \in 1..n + 1
    BY <1>2, <2>2
  <2> QED
    BY <2>3
<1> QED
  BY <1>3, <1>4 DEF Documented

LEMMA DocumentedStep ==
  ASSUME ReaderInv, NEW n \in Nat, Len(read) = n,
         NEW where, NEW more, \A i \in 0..n : more[i] = where[i],
         NEW t \in Tokens, Step(t), more[n + 1] = Follow(where[n], t),
         AtPlace(where[n]), AtPlace(more[n + 1])', at' # "failed",
         Documented(where, n)
  PROVE  Documented(more, n + 1)'
<1>1. PICK w : w = where[n]
  OBVIOUS
<1>2. PICK v : v = more[n + 1]
  OBVIOUS
<1>3. PICK p : p = Slot
  OBVIOUS
<1>4. read' = Append(read, t) /\ read \in Seq(Tokens) /\ ~Fail
  BY DEF Step, ReaderInv, TypeOK, Fail
<1>5. AtPlace(w) /\ AtPlace(v)' /\ v = Follow(w, t)
  BY <1>1, <1>2
<1>6. ASSUME NEW st, Value(t, st),
             at = "value" \/ (at = "first_element" /\ t.kind # "]")
      PROVE  Documented(more, n + 1)'
  <2>1. Ready /\ v = ValueAt(p, t) /\ \A q : Awaits(w, q) => q = p
    BY <1>3, <1>5, <1>6, ValueFollows
  <2>2. p \in Paths
    BY <1>3, <2>1, SlotFacts DEF ReaderInv
  <2>3. Put(p, Node(t)) /\ t.kind \in {"{", "[", "string", "scalar"}
    BY <1>3, <1>4, <1>6 DEF Value, StartContainer, Scalar, Node
  <2>4. v.path = p /\ v.role \in {"array", "object", "scalar"}
    BY <2>1, <2>3 DEF ValueAt, Place
  <2>5. Said(more, n + 1) /\ more[n + 1].path = p
    BY <1>2, <2>4 DEF Said
  <2> QED
    BY <1>1, <1>4, <2>1, <2>2, <2>3, <2>5, PutDocumented
<1>7. ASSUME ~Begins(t) PROVE ~Said(more, n + 1)
  <2>1. Follow(w, t).role \notin {"array", "object", "scalar"}
    BY <1>7, SaidKinds
  <2> QED
    BY <1>2, <1>5, <2>1 DEF Said
<1>8. ASSUME ~Begins(t), tree' = tree,
             w.role \notin {"beginning", "key", "colon"}
      PROVE  Documented(more, n + 1)'
  <2>1. \A q : ~Awaits(where[n], q)
    BY <1>1, <1>8 DEF Awaits
  <2> QED
    BY <1>4, <1>7, <1>8, <2>1, QuietDocumented
<1>9. CASE t.kind = "string" /\ Key(t.says) /\ at \in {"first_key", "key"}
           /\ at' \in {"first_colon", "colon"}
  <2>1. v.role = "key" /\ v.path = element'
    BY <1>5, <1>9 DEF AtPlace
  <2>2. \A q : ~Awaits(where[n], q)
    BY <1>1, <1>5, <1>9 DEF Awaits, AtPlace
  <2>3. \A q : q = element' => Awaits(more[n + 1], q)
    BY <1>2, <2>1 DEF Awaits
  <2>4. ~Said(more, n + 1)
    BY <1>2, <2>1 DEF Said
  <2>5. /\ DOMAIN tree' = DOMAIN tree \cup {element'}
        /\ \A q \in DOMAIN tree : q \in DOMAIN tree' /\ tree'[q] = tree[q]
    BY <1>9 DEF Key
  <2>6. \A q \in DOMAIN tree' : Awaits(more[n + 1], q) \/ q \in DOMAIN tree
    BY <2>3, <2>5
  <2> QED
    BY <1>4, <2>2, <2>4, <2>5, <2>6, QuietDocumented
<1>10. CASE t.kind = ":" /\ at \in {"first_colon", "colon"} /\ at' = "value"
            /\ UNCHANGED builderVars
  <2>1. tree' = tree /\ refStack' = refStack /\ element' = element
    BY <1>10 DEF builderVars
  <2>2. w.role = "key" /\ w.path = element /\ InObject
    BY <1>5, <1>10 DEF AtPlace, ReaderInv, StackInv
  <2>3. InObject' /\ ~InArray' /\ refStack' # <<>>
    BY <2>1, <2>2 DEF InObject, InArray, Top
  <2>4. v.role = "colon" /\ v.path = w.path
    BY <1>5, <1>10, <2>1, <2>2, <2>3 DEF AtPlace
  <2>5. \A q : Awaits(where[n], q) => Awaits(more[n + 1], q)
    BY <1>1, <1>2, <2>4 DEF Awaits
  <2> QED
    BY <1>4, <1>7, <1>10, <2>1, <2>5, QuietDocumented DEF Begins
<1>11. CASE at \in {"first_key", "first_element", "after"} /\ EndContainer
            /\ t.kind \in {"]", "}"}
  <2>1. tree' = tree
    BY <1>11 DEF EndContainer
  <2>2. w.role \notin {"beginning", "key", "colon"}
    BY <1>5, <1>11 DEF AtPlace, Over
  <2> QED
    BY <1>8, <1>11, <2>1, <2>2 DEF Begins
<1>12. CASE at = "after" /\ t.kind = "," /\ UNCHANGED builderVars
  <2>1. tree' = tree
    BY <1>12 DEF builderVars
  <2>2. w.role \notin {"beginning", "key", "colon"}
    BY <1>5, <1>12 DEF AtPlace, Over
  <2> QED
    BY <1>8, <1>12, <2>1, <2>2 DEF Begins
<1>13. CASE at = "value" /\ Value(t, states)
  BY <1>6, <1>13
<1>14. CASE at = "first_element" /\ FirstElement(t)
  BY <1>6, <1>11, <1>14 DEF FirstElement
<1>15. CASE at = "after" /\ After(t)
  BY <1>4, <1>11, <1>12, <1>15 DEF After
<1>16. CASE (at = "first_key" /\ FirstKey(t)) \/ (at = "key" /\ NextKey(t))
  BY <1>4, <1>9, <1>11, <1>16 DEF FirstKey, NextKey, Go
<1>17. CASE (at = "first_colon" /\ FirstColon(t)) \/ (at = "colon" /\ Colon(t))
  BY <1>4, <1>10, <1>17 DEF FirstColon, Colon, Go
<1> QED
  BY <1>13, <1>14, <1>15, <1>16, <1>17 DEF Step

PlaceInv ==
  \E where :
    /\ IsWhere(read, where)
    /\ AtPlace(where[Len(read)])
    /\ at # "failed" => Documented(where, Len(read))

WrittenInv == ReaderInv /\ DocumentGood /\ NewestInv /\ PlaceInv

LEMMA WrittenInvariance == Spec => []WrittenInv
<1>1. ASSUME Init PROVE NewestInv /\ PlaceInv
  <2>1. read = <<>> /\ at = "value" /\ refStack = <<>> /\ Len(read) = 0
    BY <1>1 DEF Init
  <2>2. DOMAIN tree = {<<>>}
    BY <1>1 DEF Init
  <2>3. PICK where : IsWhere(<<>>, where) /\ where[0] = Beginning
    BY WhereNothing
  <2>4. where[0].role = "beginning" /\ where[0].path = <<>>
    BY <2>3 DEF Beginning, Place
  <2>5. AtPlace(where[0])
    BY <2>1, <2>4 DEF AtPlace
  <2>6. Documented(where, 0)
    BY <2>2, <2>4 DEF Documented, Awaits
  <2>7. NewestInv
    BY <2>1 DEF NewestInv
  <2> QED
    BY <2>1, <2>3, <2>5, <2>6, <2>7 DEF PlaceInv
<1>2. ASSUME ReaderInv, ReaderInv', DocumentGood, NewestInv, PlaceInv, [Next]_vars
      PROVE  NewestInv' /\ PlaceInv'
  <2>1. CASE Next
    <3>1. PICK t \in Tokens : Step(t)
      BY <2>1 DEF Next, EndOfInput, Tokens, Marks
    <3>2. PICK n \in Nat : n = Len(read)
      BY <1>2 DEF ReaderInv, TypeOK
    <3>3. PICK where :
            /\ IsWhere(read, where) /\ AtPlace(where[n])
            /\ at # "failed" => Documented(where, n)
      BY <1>2, <3>2 DEF PlaceInv
    <3>4. PICK text \in Seq(Tokens) : text = read
      BY <1>2 DEF ReaderInv, TypeOK
    <3>5. PICK more :
            /\ IsWhere(Append(text, t), more)
            /\ \A i \in 0..n : more[i] = where[i]
            /\ more[n + 1] = Follow(where[n], t)
      BY <3>2, <3>3, <3>4, WhereMore
    <3>6. read' = Append(text, t) /\ Len(read') = n + 1 /\ at # "failed"
      BY <3>1, <3>2, <3>4, Appended DEF Step
    <3>7. NewestInv' /\ AtPlace(Follow(where[n], t))'
      BY <1>2, <3>1, <3>3, PlaceStep
    <3>8. AtPlace(more[n + 1])'
      BY <3>5, <3>7
    <3>9. ASSUME at' # "failed" PROVE Documented(more, n + 1)'
      BY <1>2, <3>1, <3>2, <3>3, <3>5, <3>6, <3>8, <3>9, DocumentedStep
    <3>10. PICK m : m = n + 1
      OBVIOUS
    <3>11. Len(read)' = m /\ IsWhere(read, more)' /\ AtPlace(more[m])'
      BY <3>5, <3>6, <3>8, <3>10
    <3>12. at' # "failed" => Documented(more, m)'
      BY <3>9, <3>10
    <3> QED
      BY <3>7, <3>11, <3>12 DEF PlaceInv, Documented
  <2>2. CASE UNCHANGED vars
    <3>1. /\ read' = read /\ at' = at /\ states' = states
          /\ tree' = tree /\ refStack' = refStack /\ element' = element
      BY <2>2 DEF vars, parserVars, builderVars
    <3>2. NewestInv'
      BY <1>2, <3>1 DEF NewestInv, Newest, Size
    <3>3. PICK n : n = Len(read)
      OBVIOUS
    <3>4. PICK where :
            /\ IsWhere(read, where) /\ AtPlace(where[n])
            /\ at # "failed" => Documented(where, n)
      BY <1>2, <3>3 DEF PlaceInv
    <3>5. AtPlace(where[n])'
      BY <3>1, <3>4 DEF AtPlace, Newest, Size, InObject, InArray, Top
    <3>6. at' # "failed" => Documented(where, n)'
      BY <3>1, <3>4 DEF Documented
    <3>7. Len(read)' = n /\ IsWhere(read, where)'
      BY <3>1, <3>3, <3>4
    <3> QED
      BY <3>2, <3>5, <3>6, <3>7 DEF PlaceInv, Documented
  <2> QED
    BY <1>2, <2>1, <2>2
<1>3. WrittenInv <=> ReaderInv /\ DocumentGood /\ NewestInv /\ PlaceInv
  BY DEF WrittenInv
<1> QED
  BY <1>1, <1>2, <1>3, ReaderInvariance, ReaderDocumentGood, PTL DEF Spec

(* A file of any length is read just as it is written: the reader fails at *)
(* the first token that has no place behind the one before it, is done     *)
(* when the outermost value has come to its end, and has then made of it   *)
(* the document in which every place holds what was said of it last        *)
(* (sax_parse_internal, common/libs/json.hpp:13038, with                   *)
(* json_sax_dom_parser).                                                   *)
THEOREM ReaderReadsAsWritten == Spec => []ReadsAsWritten
<1>1. ASSUME WrittenInv PROVE ReadsAsWritten
  <2>1. PICK n \in Nat : n = Len(read)
    BY <1>1 DEF WrittenInv, ReaderInv, TypeOK
  <2>2. PICK where :
          /\ IsWhere(read, where) /\ AtPlace(where[n])
          /\ at # "failed" => Documented(where, n)
    BY <1>1, <2>1 DEF WrittenInv, PlaceInv
  <2>3. Where(read) = where
    BY <2>2, WhereIs
  <2>4. PICK w : w = where[n]
    OBVIOUS
  <2>5. at \in Positions \cup {"done", "failed"}
    BY <1>1 DEF WrittenInv, ReaderInv, TypeOK
  <2>6. AtPlace(w) /\ Nowhere.role = "none"
    BY <2>2, <2>4 DEF Nowhere, Place
  <2>7. at = "failed" <=> w = Nowhere
    BY <2>5, <2>6 DEF AtPlace, Positions, Over
  <2>8. at = "done" <=> w.role \in {"scalar", "end"} /\ w.path = <<>>
    BY <2>5, <2>6 DEF AtPlace, Positions, Over
  <2>9. ASSUME at = "done" PROVE SaidBy(read, where, tree)
    <3>1. Documented(where, n) /\ \A q : ~Awaits(where[n], q)
      BY <2>2, <2>4, <2>8, <2>9 DEF Awaits
    <3>2. \A q \in DOMAIN tree : \E i \in 1..n : Stands(where, n, i) /\ where[i].path = q
      BY <3>1 DEF Documented
    <3>3. \A i \in 1..n : Stands(where, n, i) =>
            where[i].path \in DOMAIN tree /\ tree[where[i].path] = Node(read[i])
      BY <3>1 DEF Documented
    <3> DEFINE standing == {i \in 1..n : Stands(where, n, i)}
    <3>4. DOMAIN tree = {where[i].path : i \in standing}
      BY <3>2, <3>3
    <3>5. \A i \in standing : tree[where[i].path] = Node(read[i])
      BY <3>3
    <3> QED
      BY <2>1, <3>4, <3>5 DEF SaidBy
  <2> QED
    BY <2>1, <2>3, <2>4, <2>7, <2>8, <2>9 DEF ReadsAsWritten
<1> QED
  BY <1>1, WrittenInvariance, PTL
=============================================================================
