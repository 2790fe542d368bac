--------------------------- MODULE StartupProofs ---------------------------
(***************************************************************************)
(* Proofs about Startup: that a command line is read as it is meant, what  *)
(* a program that runs has, and that start-up implements Setup, for every  *)
(* set of texts, lines, documents and targets.                             *)
(***************************************************************************)
EXTENDS Startup, TLAPS

Options == {"ip", "port", "dir", "config"}

(* The configuration being made is made of texts, no member of a document  *)
(* is missing; the address has passed before the path is looked at.        *)
Made == main \in {"address", "exists", "is_directory", "permissions", "canonical", "running"}

Checked == main \in {"exists", "is_directory", "permissions", "canonical", "running"}

ConfigInv ==
  /\ Made => wanted \in [ip : Texts, port : Texts, path : Texts]
  /\ Checked => AddrError(wanted.ip, wanted.port) = "none"
  /\ main # "running" => config = DefaultConfig
  /\ main = "running" =>
       /\ config.addr = MakeAddr(wanted.ip, wanted.port)
       /\ config.path \in Targets

(* Only what is said about the config file can be caught, and the path has *)
(* been a directory once it has passed for one.                            *)
PathInv ==
  /\ main \in {"parse", "find", "load"} => ~byFile
  /\ main = "aborted" => ~byFile
  /\ leadsTo \in Directories => led
  /\ main \in {"permissions", "canonical", "running"} => led

SetupInv == TypeOK /\ ConfigInv /\ PathInv

-----------------------------------------------------------------------------
(* The command line.                                                       *)

LEMMA LineInit == Init => CL!TypeOK
<1> SUFFICES ASSUME Init PROVE CL!TypeOK
  OBVIOUS
<1> USE DEF Init, CL!Init, CL!TypeOK, CL!Options, CL!Outcomes
<1>1. args \in Seq(Arguments)
  BY StartupAssumption
<1>2. results \in [CL!Options -> Seq(Texts)] /\ missing \in Seq(Arguments)
  OBVIOUS
<1> QED
  BY <1>1, <1>2

LEMMA LineStep == CL!TypeOK /\ [CL!Next]_lineVars => CL!TypeOK'
<1> SUFFICES ASSUME CL!TypeOK, [CL!Next]_lineVars PROVE CL!TypeOK'
  OBVIOUS
<1> USE DEF CL!TypeOK, CL!Options, CL!Outcomes
<1>1. \A a \in Arguments : a.says \in Texts /\ a.value \in Texts \cup {NoText}
  BY StartupAssumption DEF CL!Argument
<1>2. CASE UNCHANGED lineVars
  BY <1>2 DEF lineVars
<1>3. CASE CL!Mark
  BY <1>3 DEF CL!Mark, CL!Meets
<1>4. CASE CL!HelpFlag
  BY <1>4 DEF CL!HelpFlag, CL!Meets
<1>5. CASE CL!LeftOver
  BY <1>5 DEF CL!LeftOver, CL!Meets
<1>6. CASE CL!Option
  <2>1. args # <<>> /\ Head(args) \in Arguments /\ Tail(args) \in Seq(Arguments)
    BY <1>6 DEF CL!Option, CL!Meets
  <2>2. Tail(args) # <<>> => /\ Head(Tail(args)).says \in Texts
                             /\ Tail(Tail(args)) \in Seq(Arguments)
    BY <1>1, <2>1
  <2>3. ASSUME NEW o \in CL!Options, NEW t \in Texts, CL!AddResult(o, t)
        PROVE  results' \in [CL!Options -> Seq(Texts)]
    <3>1. results \in [CL!Options -> Seq(Texts)] /\ results[o] \in Seq(Texts)
      BY <2>3
    <3>2. Append(results[o], t) \in Seq(Texts)
      BY <2>3, <3>1
    <3> QED
      BY <2>3, <3>1, <3>2 DEF CL!AddResult
  <2>4. results' \in [CL!Options -> Seq(Texts)]
    BY <1>1, <1>6, <2>1, <2>2, <2>3 DEF CL!Option
  <2>5. args' \in Seq(Arguments)
    BY <1>6, <2>1, <2>2 DEF CL!Option
  <2> QED
    BY <1>6, <2>4, <2>5 DEF CL!Option
<1>7. CASE CL!Process
  BY <1>7 DEF CL!Process
<1> QED
  BY <1>2, <1>3, <1>4, <1>5, <1>6, <1>7 DEF CL!Next

(* The value of an option is a text.                                       *)
LEMMA ValueIsText ==
  ASSUME CL!TypeOK, NEW o \in Options
  PROVE  Value(o) \in Texts
<1>1. Defaults[o] \in Texts
  BY StartupAssumption DEF Options, CL!Options
<1>2. results[o] \in Seq(Texts)
  BY DEF CL!TypeOK, CL!Options, Options
<1> QED
  BY <1>1, <1>2 DEF Value, CL!Value

-----------------------------------------------------------------------------
(* The meaning of a command line.                                          *)

(* What is known of the roles of the first n arguments: they are the only  *)
(* ones a reading can give them, and what has been noted of the flags, of  *)
(* the arguments left over and of the values of the options says as much.  *)
RolesTo(l, role, n) ==
  /\ \A i \in 1..n : CL!HasRole(l, role, i)
  /\ \A other \in [1..Len(l) -> CL!Roles] :
       (\A i \in 1..n : CL!HasRole(l, other, i)) => \A i \in 1..n : other[i] = role[i]

NotedTo(role, n) ==
  /\ positional <=> \E i \in 1..n : role[i] = "mark"
  /\ help <=> \E i \in 1..n : role[i] = "help"
  /\ missing # <<>> <=>
       \E i \in 1..n : role[i] = "plain" \/ (role[i] = "option" /\ line[i].name = "unknown")

GivenTo(role, n, o) == {i \in 1..n : role[i] = "option" /\ line[i].name = o}

ValuesTo(role, n) ==
  \A o \in CL!Options :
    \/ results[o] = <<>> /\ GivenTo(role, n, o) = {}
    \/ \E i \in 1..n : GivenTo(role, n, o) = {i} /\ results[o] = <<CL!ValueAt(line, i)>>
    \/ Len(results[o]) > 1 /\ \E i, j \in GivenTo(role, n, o) : i # j

ReadTo(role, n) ==
  /\ RolesTo(line, role, n)
  /\ n > 0 => ~CL!Lacks(line, role, n)
  /\ NotedTo(role, n)
  /\ ValuesTo(role, n)

(* What has been read and what is left make up the line.                   *)
LeftInv ==
  /\ Len(args) <= Len(line)
  /\ \A i \in 1..Len(args) : args[i] = line[Len(line) - Len(args) + i]

ReadingInv ==
  /\ LeftInv
  /\ \E role \in [1..Len(line) -> CL!Roles] : ReadTo(role, Len(line) - Len(args))

MeaningInv ==
  /\ parsed = "reading" => ReadingInv
  /\ CL!ReadAsMeant

(* The role of the argument behind the first n is what the first n say.    *)
NextRole(role, n) ==
  IF n > 0 /\ CL!Lacks(line, role, n) THEN "value"
  ELSE IF \E i \in 1..n : role[i] = "mark" THEN "plain"
  ELSE line[n + 1].class

Extended(role, n) == [role EXCEPT ![n + 1] = NextRole(role, n)]

(* The arguments of a line are arguments.                                  *)
LEMMA LineArgument ==
  ASSUME CL!TypeOK, NEW i \in 1..Len(line)
  PROVE  /\ line[i].class \in {"mark", "help", "option", "plain"}
         /\ line[i].name \in CL!Options \cup {"unknown"}
<1>1. line \in Seq(Arguments)
  BY StartupAssumption DEF CL!TypeOK
<1>2. line[i] \in CL!Argument
  BY <1>1, StartupAssumption
<1> QED
  BY <1>2 DEF CL!Argument

LEMMA LineLen == ASSUME CL!TypeOK PROVE Len(line) \in Nat /\ Len(args) \in Nat
<1>1. line \in Seq(Arguments) /\ args \in Seq(Arguments)
  BY StartupAssumption DEF CL!TypeOK
<1> QED
  BY <1>1

(* One more argument has one role.                                         *)
LEMMA OneMore ==
  ASSUME CL!TypeOK, NEW n \in Nat, n < Len(line),
         NEW role \in [1..Len(line) -> CL!Roles], RolesTo(line, role, n)
  PROVE  /\ Extended(role, n) \in [1..Len(line) -> CL!Roles]
         /\ \A i \in 1..n : Extended(role, n)[i] = role[i]
         /\ Extended(role, n)[n + 1] = NextRole(role, n)
         /\ RolesTo(line, Extended(role, n), n + 1)
<1> DEFINE more == Extended(role, n)
<1>1. Len(line) \in Nat /\ n + 1 \in 1..Len(line)
  BY LineLen
<1>2. NextRole(role, n) \in CL!Roles
  BY <1>1, LineArgument DEF NextRole, CL!Roles
<1>3. /\ more \in [1..Len(line) -> CL!Roles]
      /\ \A i \in 1..n : more[i] = role[i]
      /\ more[n + 1] = NextRole(role, n)
  BY <1>1, <1>2 DEF Extended
<1> HIDE DEF more
<1>4. ASSUME NEW r, NEW s, NEW k \in Nat, k <= n, \A i \in 1..n : r[i] = s[i], NEW i \in 1..k
      PROVE  CL!HasRole(line, r, i) <=> CL!HasRole(line, s, i)
  <2>1. i \in 1..n /\ (i > 1 => i - 1 \in 1..n) /\ (1..i - 1) \subseteq 1..n
    BY <1>4
  <2>2. r[i] = s[i] /\ (i > 1 => r[i - 1] = s[i - 1]) /\ \A j \in 1..i - 1 : r[j] = s[j]
    BY <1>4, <2>1
  <2>3. i > 1 => (CL!Lacks(line, r, i - 1) <=> CL!Lacks(line, s, i - 1))
    BY <2>2 DEF CL!Lacks
  <2> QED
    BY <2>2, <2>3 DEF CL!HasRole
<1>5. ASSUME NEW r, \A i \in 1..n : r[i] = role[i]
      PROVE  CL!HasRole(line, r, n + 1) <=> r[n + 1] = NextRole(role, n)
  <2>1. n + 1 - 1 = n /\ (n + 1 > 1 <=> n > 0)
    OBVIOUS
  <2>2. n > 0 => r[n] = role[n]
    BY <1>5
  <2>3. n > 0 => (CL!Lacks(line, r, n) <=> CL!Lacks(line, role, n))
    BY <2>2 DEF CL!Lacks
  <2>4. (\E j \in 1..n : r[j] = "mark") <=> \E j \in 1..n : role[j] = "mark"
    BY <1>5
  <2> QED
    BY <2>1, <2>3, <2>4 DEF CL!HasRole, NextRole
<1>6. \A i \in 1..n + 1 : CL!HasRole(line, more, i)
  <2>1. \A i \in 1..n : CL!HasRole(line, more, i)
    BY <1>3, <1>4 DEF RolesTo
  <2>2. CL!HasRole(line, more, n + 1)
    BY <1>3, <1>5
  <2> QED
    BY <2>1, <2>2
<1>7. ASSUME NEW other \in [1..Len(line) -> CL!Roles],
             \A i \in 1..n + 1 : CL!HasRole(line, other, i)
      PROVE  \A i \in 1..n + 1 : other[i] = more[i]
  <2>1. \A i \in 1..n : other[i] = role[i]
    BY <1>7 DEF RolesTo
  <2>2. other[n + 1] = NextRole(role, n)
    BY <1>5, <1>7, <2>1
  <2> QED
    BY <1>3, <2>1, <2>2
<1>8. RolesTo(line, more, n + 1)
  BY <1>6, <1>7 DEF RolesTo
<1> QED
  BY <1>3, <1>8 DEF more

(* Reading one argument, or an option with the argument behind it, notes   *)
(* what the first of them says.                                            *)
LEMMA NotedMore ==
  ASSUME CL!TypeOK, NEW n \in Nat, NEW m \in {n + 1, n + 2}, m <= Len(line),
         NEW role, NEW more,
         \A i \in 1..n : more[i] = role[i],
         m = n + 2 => more[n + 2] = "value",
         NotedTo(role, n), UNCHANGED line,
         positional' <=> positional \/ more[n + 1] = "mark",
         help' <=> help \/ more[n + 1] = "help",
         missing' # <<>> <=>
           \/ missing # <<>>
           \/ more[n + 1] = "plain"
           \/ (more[n + 1] = "option" /\ line[n + 1].name = "unknown")
  PROVE  NotedTo(more, m)'
<1>1. \A i : i \in 1..m <=> i \in 1..n \/ i = n + 1 \/ (i = n + 2 /\ m = n + 2)
  OBVIOUS
<1>2. positional' <=> \E i \in 1..m : more[i] = "mark"
  BY <1>1 DEF NotedTo
<1>3. help' <=> \E i \in 1..m : more[i] = "help"
  BY <1>1 DEF NotedTo
<1>4. missing' # <<>> <=>
        \E i \in 1..m : more[i] = "plain" \/ (more[i] = "option" /\ line[i].name = "unknown")
  BY <1>1 DEF NotedTo
<1> QED
  BY <1>2, <1>3, <1>4 DEF NotedTo

LEMMA ValuesMore ==
  ASSUME CL!TypeOK, NEW n \in Nat, NEW m \in {n + 1, n + 2}, m <= Len(line),
         NEW role, NEW more,
         \A i \in 1..n : more[i] = role[i],
         m = n + 2 => more[n + 2] = "value",
         ValuesTo(role, n), UNCHANGED line,
         \A o \in CL!Options :
           results'[o] = IF more[n + 1] = "option" /\ line[n + 1].name = o
                           THEN Append(results[o], CL!ValueAt(line, n + 1))
                           ELSE results[o]
  PROVE  ValuesTo(more, m)'
<1> SUFFICES ASSUME NEW o \in CL!Options
             PROVE  \/ results'[o] = <<>> /\ GivenTo(more, m, o) = {}
                    \/ \E i \in 1..m : /\ GivenTo(more, m, o) = {i}
                                       /\ results'[o] = <<CL!ValueAt(line, i)>>
                    \/ Len(results'[o]) > 1 /\ \E i, j \in GivenTo(more, m, o) : i # j
  BY DEF ValuesTo, GivenTo, CL!ValueAt
<1>1. \A i : i \in 1..m <=> i \in 1..n \/ i = n + 1 \/ (i = n + 2 /\ m = n + 2)
  OBVIOUS
<1>2. results[o] \in Seq(Texts)
  BY DEF CL!TypeOK
<1>3. GivenTo(role, n, o) \subseteq 1..n /\ n + 1 \notin 1..n /\ 1..n \subseteq 1..m /\ n + 1 \in 1..m
  BY <1>1 DEF GivenTo
<1>4. CASE more[n + 1] = "option" /\ line[n + 1].name = o
  <2>1. GivenTo(more, m, o) = GivenTo(role, n, o) \cup {n + 1}
    BY <1>1, <1>4 DEF GivenTo
  <2>2. results'[o] = Append(results[o], CL!ValueAt(line, n + 1))
    BY <1>4
  <2>3. CASE results[o] = <<>> /\ GivenTo(role, n, o) = {}
    <3>1. GivenTo(more, m, o) = {n + 1} /\ results'[o] = <<CL!ValueAt(line, n + 1)>>
      BY <2>1, <2>2, <2>3
    <3> QED
      BY <1>3, <3>1
  <2>4. ASSUME results[o] # <<>>, NEW i \in GivenTo(role, n, o)
        PROVE  Len(results'[o]) > 1 /\ \E k, j \in GivenTo(more, m, o) : k # j
    <3>1. Len(results[o]) > 0
      BY <1>2, <2>4
    <3>2. Len(results'[o]) > 1
      BY <1>2, <2>2, <3>1
    <3>3. i # n + 1 /\ i \in GivenTo(more, m, o) /\ n + 1 \in GivenTo(more, m, o)
      BY <1>3, <2>1, <2>4
    <3> QED
      BY <3>2, <3>3
  <2>5. ASSUME Len(results[o]) > 1 PROVE results[o] # <<>>
    BY <1>2, <2>5
  <2>6. ASSUME NEW i \in 1..n, GivenTo(role, n, o) = {i}, results[o] = <<CL!ValueAt(line, i)>>
        PROVE  Len(results'[o]) > 1 /\ \E k, j \in GivenTo(more, m, o) : k # j
    BY <2>4, <2>6
  <2>7. ASSUME NEW i \in GivenTo(role, n, o), Len(results[o]) > 1
        PROVE  Len(results'[o]) > 1 /\ \E k, j \in GivenTo(more, m, o) : k # j
    BY <2>4, <2>5, <2>7
  <2> QED
    BY <2>3, <2>6, <2>7 DEF ValuesTo
<1>5. CASE ~(more[n + 1] = "option" /\ line[n + 1].name = o)
  <2>1. GivenTo(more, m, o) = GivenTo(role, n, o)
    BY <1>1, <1>5 DEF GivenTo
  <2>2. results'[o] = results[o]
    BY <1>5
  <2> QED
    BY <1>3, <2>1, <2>2 DEF ValuesTo
<1> QED
  BY <1>4, <1>5

(* The next argument is the one behind those that have been read.          *)
LEMMA NextArgument ==
  ASSUME CL!TypeOK, LeftInv, args # <<>>, NEW n, n = Len(line) - Len(args)
  PROVE  /\ n \in Nat /\ n < Len(line) /\ Head(args) = line[n + 1]
         /\ Len(Tail(args)) = Len(args) - 1
         /\ \A i \in 1..Len(Tail(args)) : Tail(args)[i] = line[n + 1 + i]
<1>1. args \in Seq(Arguments) /\ Len(line) \in Nat /\ Len(args) \in Nat \ {0}
  BY LineLen DEF CL!TypeOK
<1>2. Head(args) = args[1] /\ Len(Tail(args)) = Len(args) - 1
  BY <1>1
<1>3. \A i \in 1..Len(args) : args[i] = line[n + i]
  BY DEF LeftInv
<1>4. ASSUME NEW i \in 1..Len(Tail(args)) PROVE Tail(args)[i] = line[n + 1 + i]
  <2>1. Tail(args)[i] = args[i + 1] /\ i + 1 \in 1..Len(args)
    BY <1>1, <1>2
  <2>2. args[i + 1] = line[n + (i + 1)]
    BY <1>3, <2>1
  <2>3. n + (i + 1) = n + 1 + i
    BY <1>1
  <2> QED
    BY <2>1, <2>2, <2>3
<1> QED
  BY <1>1, <1>2, <1>3, <1>4 DEF LeftInv

(* What the parser sees of it is its role.                                 *)
LEMMA MeetsRole ==
  ASSUME CL!TypeOK, LeftInv, NEW n, n = Len(line) - Len(args),
         NEW role, ReadTo(role, n), NEW class, CL!Meets(class)
  PROVE  /\ NextRole(role, n) = class
         /\ class # "value"
<1>1. args # <<>> /\ class = IF positional THEN "plain" ELSE Head(args).class
  BY DEF CL!Meets
<1>2. Head(args) = line[n + 1] /\ n + 1 \in 1..Len(line)
  BY <1>1, NextArgument, LineLen
<1>3. positional <=> \E i \in 1..n : role[i] = "mark"
  BY DEF ReadTo, NotedTo
<1>4. ~(n > 0 /\ CL!Lacks(line, role, n))
  BY DEF ReadTo
<1> QED
  BY <1>1, <1>2, <1>3, <1>4, LineArgument DEF NextRole

(* An argument that needs no other one is read.                            *)
LEMMA ReadOne ==
  ASSUME CL!TypeOK, ReadingInv, args # <<>>, NEW class, CL!Meets(class),
         UNCHANGED line, args' = Tail(args),
         ~(class = "option" /\ Head(args).name \in CL!Options /\ Head(args).value = NoText),
         positional' <=> positional \/ class = "mark",
         help' <=> help \/ class = "help",
         missing' # <<>> <=>
           \/ missing # <<>>
           \/ class = "plain"
           \/ (class = "option" /\ Head(args).name = "unknown"),
         \A o \in CL!Options :
           results'[o] = IF class = "option" /\ Head(args).name = o
                           THEN Append(results[o], Head(args).value) ELSE results[o]
  PROVE  ReadingInv'
<1> PICK n : n = Len(line) - Len(args)
  OBVIOUS
<1>1. PICK role \in [1..Len(line) -> CL!Roles] : ReadTo(role, n)
  BY DEF ReadingInv
<1>2. /\ n \in Nat /\ n < Len(line) /\ Head(args) = line[n + 1]
      /\ Len(args') = Len(args) - 1
      /\ \A i \in 1..Len(args') : args'[i] = line[n + 1 + i]
  BY <1>1, NextArgument DEF ReadingInv
<1>3. Len(line) \in Nat /\ Len(args) \in Nat
  BY LineLen
<1>4. Len(line') - Len(args') = n + 1 /\ Len(args') <= Len(line')
  BY <1>1, <1>2, <1>3
<1>5. NextRole(role, n) = class
  BY <1>1, MeetsRole DEF ReadingInv
<1>6. PICK more \in [1..Len(line) -> CL!Roles] :
        /\ \A i \in 1..n : more[i] = role[i]
        /\ more[n + 1] = class
        /\ RolesTo(line, more, n + 1)
  BY <1>1, <1>2, <1>5, OneMore DEF ReadTo
<1>7. RolesTo(line, more, n + 1)'
  BY <1>6
<1>8. ~CL!Lacks(line', more, n + 1)
  BY <1>2, <1>6 DEF CL!Lacks
<1>9. n + 1 <= Len(line) /\ n + 1 # n + 2
  BY <1>2, <1>3
<1>10. NotedTo(more, n + 1)'
  BY <1>1, <1>2, <1>6, <1>9, NotedMore DEF ReadTo
<1>11. ValuesTo(more, n + 1)'
  <2>1. ASSUME class = "option", NEW o \in CL!Options, Head(args).name = o
        PROVE  CL!ValueAt(line, n + 1) = Head(args).value
    BY <1>2, <2>1 DEF CL!ValueAt
  <2>2. \A o \in CL!Options :
          results'[o] = IF more[n + 1] = "option" /\ line[n + 1].name = o
                          THEN Append(results[o], CL!ValueAt(line, n + 1)) ELSE results[o]
    BY <1>2, <1>6, <2>1
  <2> QED
    BY <1>1, <1>2, <1>6, <1>9, <2>2, ValuesMore DEF ReadTo
<1>12. ReadTo(more, n + 1)'
  BY <1>7, <1>8, <1>10, <1>11 DEF ReadTo
<1>13. LeftInv'
  BY <1>2, <1>4 DEF LeftInv
<1> QED
  BY <1>4, <1>6, <1>12, <1>13 DEF ReadingInv

LEMMA TwoLess ==
  ASSUME NEW x \in Nat, NEW y \in Nat, y - 2 \in Nat, y <= x
  PROVE  x - y + 2 <= x /\ x - (y - 2) = x - y + 2 /\ y - 2 <= x
OBVIOUS

(* Reading two arguments leaves the rest.                                  *)
LEMMA TwoLeft ==
  ASSUME CL!TypeOK, LeftInv, args # <<>>, NEW n, n = Len(line) - Len(args),
         NEW rest, rest = Tail(args), rest # <<>>, args' = Tail(rest), UNCHANGED line
  PROVE  /\ n + 2 <= Len(line) /\ Head(rest) = line[n + 2]
         /\ LeftInv' /\ Len(line') - Len(args') = n + 2
<1>1. /\ n \in Nat /\ n < Len(line) /\ Len(rest) = Len(args) - 1
      /\ \A i \in 1..Len(rest) : rest[i] = line[n + 1 + i]
  BY NextArgument
<1>2. rest \in Seq(Arguments) /\ Len(line) \in Nat /\ Len(args) \in Nat
  BY LineLen DEF CL!TypeOK
<1>3. /\ Len(rest) \in Nat \ {0} /\ Head(rest) = rest[1] /\ Len(args') = Len(rest) - 1
      /\ \A i \in 1..Len(args') : args'[i] = rest[i + 1]
  BY <1>2
<1>4. ASSUME NEW i \in 1..Len(rest) - 1 PROVE rest[i + 1] = line[n + 2 + i]
  <2>1. i + 1 \in 1..Len(rest) /\ n + 1 + (i + 1) = n + 2 + i
    BY <1>1, <1>3
  <2> QED
    BY <1>1, <2>1
<1>5. rest[1] = line[n + 2]
  <2>1. 1 \in 1..Len(rest) /\ n + 1 + 1 = n + 2
    BY <1>1, <1>3
  <2> QED
    BY <1>1, <2>1
<1>6. n + 2 <= Len(line) /\ Len(line) - Len(args') = n + 2 /\ Len(args') <= Len(line)
  <2>1. Len(rest) = Len(args) - 1 /\ Len(args') = Len(args) - 2 /\ Len(args') \in Nat
    BY <1>1, <1>2, <1>3
  <2>2. Len(args) - 2 \in Nat /\ Len(args) <= Len(line)
    BY <2>1 DEF LeftInv
  <2>3. /\ Len(line) - Len(args) + 2 <= Len(line)
        /\ Len(line) - (Len(args) - 2) = Len(line) - Len(args) + 2
        /\ Len(args) - 2 <= Len(line)
    BY <1>2, <2>2, TwoLess
  <2> QED
    BY <2>1, <2>3
<1>7. LeftInv'
  BY <1>3, <1>4, <1>6 DEF LeftInv
<1> QED
  BY <1>3, <1>5, <1>6, <1>7

(* An option that lacks its value is read with the argument behind it.     *)
LEMMA ReadTwo ==
  ASSUME CL!TypeOK, NEW n \in Nat, n + 2 <= Len(line),
         NEW role \in [1..Len(line) -> CL!Roles], ReadTo(role, n),
         NextRole(role, n) = "option",
         line[n + 1].name \in CL!Options, line[n + 1].value = NoText,
         CL!AddResult(line[n + 1].name, line[n + 2].says),
         UNCHANGED <<line, help, missing, positional>>
  PROVE  \E more \in [1..Len(line) -> CL!Roles] : ReadTo(more, n + 2)'
<1>1. Len(line) \in Nat /\ n < Len(line) /\ n + 1 < Len(line) /\ n + 1 + 1 = n + 2
  BY LineLen
<1>2. PICK one \in [1..Len(line) -> CL!Roles] :
        /\ \A i \in 1..n : one[i] = role[i]
        /\ one[n + 1] = "option"
        /\ RolesTo(line, one, n + 1)
  BY <1>1, OneMore DEF ReadTo
<1>3. NextRole(one, n + 1) = "value"
  <2>1. CL!Lacks(line, one, n + 1) /\ n + 1 > 0
    BY <1>2 DEF CL!Lacks
  <2> QED
    BY <2>1 DEF NextRole
<1>4. PICK more \in [1..Len(line) -> CL!Roles] :
        /\ \A i \in 1..n + 1 : more[i] = one[i]
        /\ more[n + 1 + 1] = "value"
        /\ RolesTo(line, more, n + 1 + 1)
  <2>1. n + 1 \in Nat
    OBVIOUS
  <2> QED
    BY <1>1, <1>2, <1>3, <2>1, OneMore
<1>5. \A i \in 1..n : more[i] = role[i]
  <2>1. \A i \in 1..n : i \in 1..n + 1
    OBVIOUS
  <2> QED
    BY <1>2, <1>4, <2>1
<1>6. more[n + 1] = "option" /\ more[n + 2] = "value" /\ RolesTo(line, more, n + 2)
  <2>1. n + 1 \in 1..n + 1
    OBVIOUS
  <2> QED
    BY <1>1, <1>2, <1>4, <2>1
<1>7. ~CL!Lacks(line', more, n + 2)
  BY <1>6 DEF CL!Lacks
<1>8. NotedTo(more, n + 2)'
  <2>1. line[n + 1].name # "unknown"
    BY DEF CL!Options
  <2>2. n + 2 \in {n + 1, n + 2}
    OBVIOUS
  <2> QED
    BY <1>1, <1>5, <1>6, <2>1, <2>2, NotedMore DEF ReadTo
<1>9. ValuesTo(more, n + 2)'
  <2>1. CL!ValueAt(line, n + 1) = line[n + 2].says
    BY <1>1 DEF CL!ValueAt
  <2>2. results \in [CL!Options -> Seq(Texts)]
    BY DEF CL!TypeOK
  <2>3. \A p \in CL!Options :
          results'[p] = IF more[n + 1] = "option" /\ line[n + 1].name = p
                          THEN Append(results[p], CL!ValueAt(line, n + 1)) ELSE results[p]
    BY <1>6, <2>1, <2>2 DEF CL!AddResult
  <2>4. n + 2 \in {n + 1, n + 2}
    OBVIOUS
  <2> QED
    BY <1>1, <1>5, <1>6, <2>3, <2>4, ValuesMore DEF ReadTo
<1>10. RolesTo(line, more, n + 2)'
  BY <1>6
<1> QED
  BY <1>7, <1>8, <1>9, <1>10 DEF ReadTo

(* Roles up to the end of the line are its reading.                        *)
LEMMA TheReading ==
  ASSUME CL!TypeOK, NEW role \in [1..Len(line) -> CL!Roles], RolesTo(line, role, Len(line))
  PROVE  {r \in [1..Len(line) -> CL!Roles] : CL!IsReading(line, r)} = {role}
<1>1. CL!IsReading(line, role)
  BY DEF RolesTo, CL!IsReading
<1>2. ASSUME NEW other \in [1..Len(line) -> CL!Roles], CL!IsReading(line, other)
      PROVE  other = role
  <2>1. \A i \in 1..Len(line) : other[i] = role[i]
    BY <1>2 DEF RolesTo, CL!IsReading
  <2> QED
    BY <2>1
<1> QED
  BY <1>1, <1>2

LEMMA ReadMismatch ==
  ASSUME CL!TypeOK, ReadingInv, args # <<>>, CL!Meets("option"),
         Head(args).name \in CL!Options, Head(args).value = NoText, Tail(args) = <<>>,
         parsed' = "mismatch", UNCHANGED line
  PROVE  CL!ReadAsMeant'
<1> PICK n : n = Len(line) - Len(args)
  OBVIOUS
<1>1. PICK role \in [1..Len(line) -> CL!Roles] : ReadTo(role, n)
  BY DEF ReadingInv
<1>2. /\ n \in Nat /\ n < Len(line) /\ Head(args) = line[n + 1]
      /\ Len(Tail(args)) = Len(args) - 1
  BY <1>1, NextArgument DEF ReadingInv
<1>3. n + 1 = Len(line) /\ line # <<>>
  BY <1>2, LineLen
<1>4. NextRole(role, n) = "option"
  BY <1>1, MeetsRole DEF ReadingInv
<1>5. PICK more \in [1..Len(line) -> CL!Roles] :
        more[n + 1] = "option" /\ RolesTo(line, more, n + 1)
  BY <1>1, <1>2, <1>4, OneMore DEF ReadTo
<1>6. CL!Meaning(line, more) = "mismatch"
  BY <1>2, <1>3, <1>5 DEF CL!Meaning, CL!Lacks
<1>7. {r \in [1..Len(line) -> CL!Roles] : CL!IsReading(line, r)} = {more}
  BY <1>3, <1>5, TheReading
<1> QED
  BY <1>6, <1>7 DEF CL!ReadAsMeant, CL!IsMeant

(* When all has been read, what has been noted is what the line means.     *)
LEMMA ReadAll ==
  ASSUME CL!TypeOK, ReadingInv, CL!Process
  PROVE  CL!ReadAsMeant'
<1>1. args = <<>> /\ UNCHANGED <<line, results, help, missing>>
  BY DEF CL!Process
<1>2. Len(line) \in Nat /\ Len(line) - Len(args) = Len(line)
  BY <1>1, LineLen
<1>3. PICK role \in [1..Len(line) -> CL!Roles] : ReadTo(role, Len(line))
  BY <1>2 DEF ReadingInv
<1>4. line # <<>> => ~CL!Lacks(line, role, Len(line))
  <2>1. line \in Seq(Arguments)
    BY StartupAssumption DEF CL!TypeOK
  <2>2. line # <<>> => Len(line) > 0
    BY <2>1
  <2> QED
    BY <1>3, <2>2 DEF ReadTo
<1>5. ASSUME NEW o \in CL!Options
      PROVE  /\ Len(results[o]) > 1 <=> \E i, j \in CL!Given(line, role, o) : i # j
             /\ ~(Len(results[o]) > 1) =>
                  IF CL!Given(line, role, o) = {}
                    THEN results[o] = <<>>
                    ELSE \E i \in CL!Given(line, role, o) : results[o] = <<CL!ValueAt(line, i)>>
  <2>1. GivenTo(role, Len(line), o) = CL!Given(line, role, o)
    BY DEF GivenTo, CL!Given
  <2>2. CASE results[o] = <<>> /\ CL!Given(line, role, o) = {}
    BY <2>2
  <2>3. CASE \E i \in 1..Len(line) : /\ CL!Given(line, role, o) = {i}
                                    /\ results[o] = <<CL!ValueAt(line, i)>>
    <3>1. Len(results[o]) = 1
      BY <2>3
    <3> QED
      BY <2>3, <3>1
  <2>4. CASE Len(results[o]) > 1 /\ \E i, j \in CL!Given(line, role, o) : i # j
    BY <2>4
  <2> QED
    BY <1>3, <2>1, <2>2, <2>3, <2>4 DEF ReadTo, ValuesTo
<1>6. CL!Repeated <=> \E o \in CL!Options : \E i, j \in CL!Given(line, role, o) : i # j
  BY <1>5 DEF CL!Repeated
<1>7. parsed' = CL!Meaning(line, role)
  BY <1>3, <1>4, <1>6 DEF CL!Process, CL!Meaning, ReadTo, NotedTo
<1>8. ASSUME parsed' = "taken", NEW o \in CL!Options PROVE ~(Len(results[o]) > 1)
  BY <1>8 DEF CL!Process, CL!Repeated
<1>9. CL!IsMeant(role)'
  BY <1>1, <1>5, <1>7, <1>8 DEF CL!IsMeant
<1>10. {r \in [1..Len(line) -> CL!Roles] : CL!IsReading(line, r)} = {role}
  BY <1>3, TheReading DEF ReadTo
<1> QED
  BY <1>1, <1>9, <1>10 DEF CL!ReadAsMeant

LEMMA MeaningInit == Init => MeaningInv
<1> SUFFICES ASSUME Init PROVE MeaningInv
  OBVIOUS
<1>1. CL!TypeOK
  BY LineInit
<1>2. args = line /\ parsed = "reading"
  BY DEF Init, CL!Init
<1>3. Len(line) - Len(args) = 0 /\ Len(args) <= Len(line)
  BY <1>1, <1>2, LineLen
<1>4. LeftInv
  BY <1>1, <1>2, <1>3, LineLen DEF LeftInv
<1> DEFINE role == [i \in 1..Len(line) |-> "value"]
<1>5. role \in [1..Len(line) -> CL!Roles]
  BY DEF CL!Roles
<1>6. \A i : i \notin 1..0
  OBVIOUS
<1>7. ReadTo(role, 0)
  <2>1. RolesTo(line, role, 0) /\ NotedTo(role, 0)
    BY <1>6 DEF RolesTo, NotedTo, Init, CL!Init
  <2>2. \A o \in CL!Options : results[o] = <<>> /\ GivenTo(role, 0, o) = {}
    BY <1>6 DEF GivenTo, Init, CL!Init
  <2> QED
    BY <2>1, <2>2 DEF ReadTo, ValuesTo
<1> QED
  BY <1>2, <1>3, <1>4, <1>5, <1>7 DEF MeaningInv, ReadingInv, CL!ReadAsMeant

LEMMA MeaningStep == CL!TypeOK /\ MeaningInv /\ [CL!Next]_lineVars => MeaningInv'
<1> SUFFICES ASSUME CL!TypeOK, MeaningInv, [CL!Next]_lineVars PROVE MeaningInv'
  OBVIOUS
<1>1. CASE UNCHANGED lineVars
  <2>1. UNCHANGED <<line, args, results, help, missing, positional, parsed>>
    BY <1>1 DEF lineVars
  <2>2. ASSUME NEW role, NEW n, ReadTo(role, n) PROVE ReadTo(role, n)'
    <3>1. NotedTo(role, n)'
      BY <2>1, <2>2 DEF ReadTo, NotedTo
    <3>2. ValuesTo(role, n)'
      BY <2>1, <2>2 DEF ReadTo, ValuesTo, GivenTo
    <3> QED
      BY <2>1, <2>2, <3>1, <3>2 DEF ReadTo
  <2>3. LeftInv => LeftInv'
    BY <2>1 DEF LeftInv
  <2>4. ReadingInv => ReadingInv'
    BY <2>1, <2>2, <2>3 DEF ReadingInv
  <2>5. CL!ReadAsMeant => CL!ReadAsMeant'
    BY <2>1 DEF CL!ReadAsMeant, CL!IsMeant
  <2> QED
    BY <2>1, <2>4, <2>5 DEF MeaningInv
<1>2. ASSUME CL!Next PROVE parsed = "reading" /\ ReadingInv
  BY <1>2 DEF CL!Next, CL!Mark, CL!HelpFlag, CL!LeftOver, CL!Option, CL!Process, CL!Meets,
              MeaningInv
<1>3. ASSUME ReadingInv', UNCHANGED parsed, parsed = "reading" PROVE MeaningInv'
  BY <1>3 DEF MeaningInv, CL!ReadAsMeant
<1>4. CASE CL!Mark
  <2>1. /\ CL!Meets("mark") /\ args # <<>> /\ positional' = TRUE /\ args' = Tail(args)
        /\ UNCHANGED <<line, results, help, missing, parsed>>
    BY <1>4 DEF CL!Mark, CL!Meets
  <2>2. ReadingInv /\ parsed = "reading"
    BY <1>2, <1>4 DEF CL!Next
  <2>3. ReadingInv'
    BY <2>1, <2>2, ReadOne
  <2> QED
    BY <1>3, <2>1, <2>2, <2>3
<1>5. CASE CL!HelpFlag
  <2>1. /\ CL!Meets("help") /\ args # <<>> /\ help' = TRUE /\ args' = Tail(args)
        /\ UNCHANGED <<line, results, missing, positional, parsed>>
    BY <1>5 DEF CL!HelpFlag, CL!Meets
  <2>2. ReadingInv /\ parsed = "reading"
    BY <1>2, <1>5 DEF CL!Next
  <2>3. ReadingInv'
    BY <2>1, <2>2, ReadOne
  <2> QED
    BY <1>3, <2>1, <2>2, <2>3
<1>6. CASE CL!LeftOver
  <2>1. /\ args # <<>> /\ missing' = Append(missing, Head(args)) /\ args' = Tail(args)
        /\ UNCHANGED <<line, results, help, positional, parsed>>
    BY <1>6 DEF CL!LeftOver, CL!Meets
  <2>2. ReadingInv /\ parsed = "reading"
    BY <1>2, <1>6 DEF CL!Next
  <2>3. missing' # <<>>
    <3>1. missing \in Seq(Arguments) /\ Head(args) \in Arguments
      BY <2>1 DEF CL!TypeOK
    <3> QED
      BY <2>1, <3>1
  <2>4. "unknown" \notin CL!Options
    BY DEF CL!Options
  <2>5. ASSUME CL!Meets("plain") PROVE ReadingInv'
    BY <2>1, <2>2, <2>3, <2>5, ReadOne
  <2>6. ASSUME CL!Meets("option"), Head(args).name = "unknown" PROVE ReadingInv'
    BY <2>1, <2>2, <2>3, <2>4, <2>6, ReadOne
  <2> QED
    BY <1>3, <1>6, <2>1, <2>2, <2>5, <2>6 DEF CL!LeftOver
<1>7. CASE CL!Option
  <2>1. /\ args # <<>> /\ CL!Meets("option") /\ Head(args).name \in CL!Options
        /\ UNCHANGED <<line, help, missing, positional>>
    BY <1>7 DEF CL!Option, CL!Meets
  <2>2. ReadingInv /\ parsed = "reading"
    BY <1>2, <1>7 DEF CL!Next
  <2> DEFINE o == Head(args).name
  <2>3. CASE /\ Head(args).value # NoText /\ CL!AddResult(o, Head(args).value)
             /\ args' = Tail(args) /\ UNCHANGED parsed
    <3>1. results \in [CL!Options -> Seq(Texts)]
      BY DEF CL!TypeOK
    <3>2. \A p \in CL!Options :
            results'[p] = IF Head(args).name = p THEN Append(results[p], Head(args).value)
                          ELSE results[p]
      BY <2>1, <2>3, <3>1 DEF CL!AddResult
    <3>3. "unknown" \notin CL!Options
      BY DEF CL!Options
    <3>4. ReadingInv'
      BY <2>1, <2>2, <2>3, <3>2, <3>3, ReadOne
    <3> QED
      BY <1>3, <2>2, <2>3, <3>4
  <2>4. CASE /\ Head(args).value = NoText /\ Tail(args) # <<>>
             /\ CL!AddResult(o, Head(Tail(args)).says)
             /\ args' = Tail(Tail(args)) /\ UNCHANGED parsed
    <3> PICK n : n = Len(line) - Len(args)
      OBVIOUS
    <3>1. PICK role \in [1..Len(line) -> CL!Roles] : ReadTo(role, n)
      BY <2>2 DEF ReadingInv
    <3>2. n \in Nat /\ Head(args) = line[n + 1]
      BY <2>1, <2>2, NextArgument DEF ReadingInv
    <3>3. /\ n + 2 <= Len(line) /\ Head(Tail(args)) = line[n + 2]
          /\ LeftInv' /\ Len(line') - Len(args') = n + 2
      BY <2>1, <2>2, <2>4, TwoLeft DEF ReadingInv
    <3>4. NextRole(role, n) = "option"
      BY <2>1, <2>2, <3>1, MeetsRole DEF ReadingInv
    <3>5. \E more \in [1..Len(line) -> CL!Roles] : ReadTo(more, n + 2)'
      BY <2>1, <2>4, <3>1, <3>2, <3>3, <3>4, ReadTwo
    <3>6. ReadingInv'
      BY <2>1, <3>3, <3>5 DEF ReadingInv
    <3> QED
      BY <1>3, <2>2, <2>4, <3>6
  <2>5. CASE Head(args).value = NoText /\ Tail(args) = <<>> /\ parsed' = "mismatch"
    <3>1. CL!ReadAsMeant'
      BY <2>1, <2>2, <2>5, ReadMismatch
    <3> QED
      BY <2>5, <3>1 DEF MeaningInv
  <2> QED
    BY <1>7, <2>3, <2>4, <2>5 DEF CL!Option
<1>8. CASE CL!Process
  <2>1. CL!ReadAsMeant'
    BY <1>2, <1>8, ReadAll DEF CL!Next
  <2>2. parsed' # "reading"
    BY <1>8 DEF CL!Process
  <2> QED
    BY <2>1, <2>2 DEF MeaningInv
<1> QED
  BY <1>1, <1>4, <1>5, <1>6, <1>7, <1>8 DEF CL!Next

-----------------------------------------------------------------------------
(* Addresses.                                                              *)

LEMMA PortBounds ==
  /\ \A n \in Int : ~(n < 0 \/ n > MaxPort) => n \in 0..MaxPort
  /\ \A n \in 0..MaxPort : n % 65536 = n
<1>1. MaxPort \in Nat /\ MaxPort < 65536
  BY DEF MaxPort
<1> QED
  BY <1>1

(* An address made of texts that pass is one that can be used.             *)
LEMMA MadeAddr ==
  ASSUME NEW ip \in Texts, NEW port \in Texts, AddrError(ip, port) = "none"
  PROVE  /\ IsAddr(MakeAddr(ip, port))
         /\ MakeAddr(ip, port) \in Accepted
<1>1. IpError(ip) = "none"
  BY DEF AddrError
<1>2. PortError(port) = "none"
  BY <1>1 DEF AddrError
<1>3. ip.ip = "v4" /\ ~ip.empty
  BY <1>1 DEF IpError
<1>4. port.number \in 0..MaxPort
  <2>1. port \in Text
    BY StartupAssumption
  <2>2. port.number \in Int \cup {NoNumber}
    BY <2>1 DEF Text
  <2>3. port.number # NoNumber
    BY <1>2 DEF PortError
  <2>4. port.number \in Int
    BY <2>2, <2>3
  <2>5. ~(port.number < 0 \/ port.number > MaxPort)
    BY <1>2 DEF PortError
  <2> QED
    BY <2>4, <2>5, PortBounds
<1>5. IsAddr(MakeAddr(ip, port))
  <2> DEFINE a == MakeAddr(ip, port)
  <2>1. a.ip = ip /\ a.port = ToText(port.number)
    BY DEF MakeAddr
  <2>2. a.port.number = port.number
    BY <2>1 DEF ToText
  <2>3. a.port.number % 65536 = a.port.number
    BY <1>4, <2>2, PortBounds
  <2> HIDE DEF a
  <2>4. a.ip.ip = "v4" /\ ~a.ip.empty /\ a.port.number \in 0..MaxPort /\ a.port = ToText(a.port.number)
    BY <1>3, <1>4, <2>1, <2>2
  <2>5. IsAddr(a)
    BY <2>3, <2>4 DEF IsAddr, PortNum
  <2> QED
    BY <2>5 DEF a
<1>6. MakeAddr(ip, port) \in Accepted
  <2>1. ip \in {t \in Texts : IpError(t) = "none"}
    BY <1>1
  <2>2. ToText(port.number) \in {ToText(n) : n \in 0..MaxPort}
    BY <1>4, Zenon
  <2> QED
    BY <2>1, <2>2, Zenon DEF Accepted, MakeAddr
<1> QED
  BY <1>5, <1>6

-----------------------------------------------------------------------------
(* The invariant.                                                          *)

LEMMA SetupInit == Init => SetupInv
<1> SUFFICES ASSUME Init PROVE SetupInv
  OBVIOUS
<1>1. CL!TypeOK
  BY LineInit
<1>2. NoMembers \in Document
  BY DEF NoMembers, Document
<1>3. TypeOK
  <2>1. led \in BOOLEAN
    BY DEF Init
  <2> QED
    BY <1>1, <1>2, <2>1 DEF Init, TypeOK
<1>4. ConfigInv /\ PathInv
  BY DEF Init, ConfigInv, PathInv, Made, Checked
<1> QED
  BY <1>3, <1>4 DEF SetupInv

(* The four looks at the path differ in what they ask and in what is next. *)
LEMMA LookStep ==
  ASSUME SetupInv,
         NEW at \in {"exists", "is_directory", "permissions"},
         NEW throws, NEW passes,
         NEW next \in {"is_directory", "permissions", "canonical"},
         Look(at, throws, passes, next),
         next = "permissions" /\ passes => leadsTo \in Directories,
         next = "canonical" => at = "permissions",
         next = "is_directory" => at = "exists"
  PROVE  SetupInv'
<1> USE DEF SetupInv
<1>1. UNCHANGED <<lineVars, diskVars, wanted, byFile>> /\ UNCHANGED config
  BY DEF Look, Mutes, Throw, Proceed, ExitFailing, Abort
<1>2. \/ main' = "exited" /\ status' = "failure"
      \/ main' = "aborted" /\ status' = "abort" /\ ~byFile
      \/ main' = next /\ UNCHANGED status /\ passes
  BY DEF Look, Throw, Proceed, ExitFailing, Abort
<1>3. main = at
  BY DEF Look
<1>4. CL!TypeOK'
  BY <1>1 DEF lineVars, TypeOK, CL!TypeOK
<1>5. TypeOK'
  BY <1>1, <1>2, <1>3, <1>4 DEF TypeOK, Over, diskVars, ConfigInv
<1>6. ConfigInv'
  BY <1>1, <1>2, <1>3 DEF ConfigInv, Made, Checked
<1>7. PathInv'
  BY <1>1, <1>2, <1>3 DEF PathInv, diskVars
<1> QED
  BY <1>5, <1>6, <1>7

LEMMA SetupStep == SetupInv /\ [Next]_vars => SetupInv'
<1> SUFFICES ASSUME SetupInv, [Next]_vars PROVE SetupInv'
  OBVIOUS
<1> USE DEF SetupInv
<1>1. CASE UNCHANGED vars
  BY <1>1 DEF vars, lineVars, diskVars, TypeOK, CL!TypeOK, ConfigInv, PathInv, Made, Checked
<1>2. CASE ReadLine
  <2>1. CL!TypeOK'
    BY <1>2, LineStep DEF ReadLine, TypeOK
  <2>2. TypeOK'
    BY <1>2, <2>1 DEF ReadLine, TypeOK, diskVars
  <2> QED
    BY <1>2, <2>2 DEF ReadLine, ConfigInv, PathInv, Made, Checked, diskVars
<1>3. ASSUME UNCHANGED lineVars PROVE CL!TypeOK'
  BY <1>3 DEF lineVars, TypeOK, CL!TypeOK
<1>4. CASE Refuse
  <2>1. TypeOK'
    BY <1>3, <1>4 DEF Refuse, ExitFailing, Mutes, TypeOK, Over, diskVars, ConfigInv
  <2> QED
    BY <1>4, <2>1 DEF Refuse, ExitFailing, Mutes, ConfigInv, PathInv, Made, Checked, diskVars
<1>5. CASE Choose
  <2>1. CL!TypeOK
    BY DEF TypeOK
  <2>2. Value("ip") \in Texts /\ Value("port") \in Texts /\ Value("dir") \in Texts
    BY <2>1, ValueIsText DEF Options
  <2>3. /\ UNCHANGED <<lineVars, diskVars, byFile, config, status>>
        /\ main = "parse"
        /\ \/ main' = "address" /\ wanted' \in [ip : Texts, port : Texts, path : Texts]
           \/ main' = "find" /\ UNCHANGED wanted
    BY <1>5, <2>2 DEF Choose, Mutes, Proceed
  <2>4. wanted' \in Document
    BY <2>3 DEF TypeOK, Document
  <2>5. TypeOK'
    BY <1>3, <2>3, <2>4 DEF TypeOK, diskVars, ConfigInv
  <2> QED
    BY <2>3, <2>5 DEF ConfigInv, PathInv, Made, Checked, diskVars
<1>6. CASE Find
  <2>1. TypeOK'
    BY <1>3, <1>6 DEF Find, ExitFailing, Abort, Proceed, Mutes, TypeOK, Over, diskVars, ConfigInv
  <2> QED
    BY <1>6, <2>1
    DEF Find, ExitFailing, Abort, Proceed, Mutes, ConfigInv, PathInv, Made, Checked, diskVars
<1>7. CASE Load
  <2>1. LoadError = "none" => file.says \in [ip : Texts, port : Texts, path : Texts]
    <3> SUFFICES ASSUME LoadError = "none" PROVE file.says \in [ip : Texts, port : Texts, path : Texts]
      OBVIOUS
    <3>1. file.kind = "object" /\ \A member \in {"ip", "port", "path"} : file.says[member] # Absent
      BY DEF LoadError
    <3>2. file \in Files
      BY DEF TypeOK
    <3>3. file.says \in Documents
      BY <3>1, <3>2 DEF Files
    <3>4. file.says \in Document
      BY <3>3, StartupAssumption
    <3> QED
      BY <3>1, <3>4 DEF Document
  <2>2. /\ UNCHANGED <<lineVars, diskVars, config>>
        /\ main = "load" /\ byFile' = TRUE
        /\ \/ main' = "exited" /\ status' = "failure" /\ UNCHANGED wanted
           \/ /\ main' = "address" /\ UNCHANGED status
              /\ wanted' \in [ip : Texts, port : Texts, path : Texts]
    BY <1>7, <2>1 DEF Load, ExitFailing, Proceed
  <2>3. wanted' \in Document
    BY <2>2 DEF TypeOK, Document
  <2>4. TypeOK'
    BY <1>3, <2>2, <2>3 DEF TypeOK, Over, diskVars, ConfigInv
  <2> QED
    BY <2>2, <2>4 DEF ConfigInv, PathInv, Made, Checked, diskVars
<1>8. CASE Address
  <2>1. /\ UNCHANGED <<lineVars, diskVars, wanted, byFile, config>>
        /\ main = "address"
        /\ \/ main' = "exited" /\ status' = "failure"
           \/ main' = "aborted" /\ status' = "abort" /\ ~byFile
           \/ /\ main' = "exists" /\ UNCHANGED status
              /\ AddrError(wanted.ip, wanted.port) = "none"
    BY <1>8 DEF Address, Throw, ExitFailing, Abort, Proceed, Mutes
  <2>2. TypeOK'
    BY <1>3, <2>1 DEF TypeOK, Over, diskVars, ConfigInv
  <2> QED
    BY <2>1, <2>2 DEF ConfigInv, PathInv, Made, Checked, diskVars
<1>9. CASE Exists
  BY <1>9, LookStep DEF Exists
<1>10. CASE IsDirectory
  BY <1>10, LookStep DEF IsDirectory
<1>11. CASE Permissions
  BY <1>11, LookStep DEF Permissions
<1>12. CASE Canonical
  <2>1. /\ UNCHANGED <<lineVars, diskVars, wanted, byFile>>
        /\ main = "canonical"
        /\ \/ main' = "exited" /\ status' = "failure" /\ UNCHANGED config
           \/ main' = "aborted" /\ status' = "abort" /\ ~byFile /\ UNCHANGED config
           \/ /\ main' = "running" /\ UNCHANGED status
              /\ leadsTo \notin {"missing", "denied"}
              /\ config' = [addr |-> MakeAddr(wanted.ip, wanted.port), path |-> leadsTo]
    BY <1>12 DEF Canonical, Throw, ExitFailing, Abort, Mutes
  <2>2. main' = "running" => config'.addr = MakeAddr(wanted.ip, wanted.port) /\ config'.path \in Targets
    BY <2>1 DEF TypeOK, Ends
  <2>3. TypeOK'
    BY <1>3, <2>1, <2>2 DEF TypeOK, Over, diskVars, ConfigInv
  <2> QED
    BY <2>1, <2>2, <2>3 DEF ConfigInv, PathInv, Made, Checked, diskVars
<1>13. CASE Disturb
  <2>1. led' \in BOOLEAN /\ (leadsTo' \in Directories => led') /\ (led => led')
    BY <1>13 DEF Disturb, TypeOK, PathInv
  <2>2. UNCHANGED <<lineVars, main, wanted, byFile, config, status>> /\ main \notin Over
    BY <1>13 DEF Disturb
  <2>3. file' \in Files /\ leadsTo' \in Ends /\ still' \in BOOLEAN
    BY <1>13 DEF Disturb, TypeOK
  <2>4. TypeOK'
    BY <1>3, <2>1, <2>2, <2>3 DEF TypeOK
  <2> QED
    BY <2>1, <2>2, <2>4 DEF ConfigInv, PathInv, Made, Checked
<1> QED
  BY <1>1, <1>2, <1>4, <1>5, <1>6, <1>7, <1>8, <1>9, <1>10, <1>11, <1>12, <1>13
  DEF Next, MainThread

LEMMA SetupInvariant == Safety => []SetupInv
BY SetupInit, SetupStep, PTL DEF Safety

LEMMA MeaningInvariant == Safety => []MeaningInv
<1>1. SetupInv /\ MeaningInv /\ [Next]_vars => MeaningInv'
  <2> SUFFICES ASSUME SetupInv, MeaningInv, [Next]_vars PROVE [CL!Next]_lineVars
    BY MeaningStep DEF SetupInv, TypeOK
  <2> QED
    BY DEF Next, MainThread, ReadLine, Refuse, Choose, Find, Load, Address, Exists, IsDirectory,
           Permissions, Canonical, Look, Mutes, Disturb, vars
<1> QED
  BY <1>1, SetupInvariant, MeaningInit, PTL DEF Safety

-----------------------------------------------------------------------------
(* With a file system that nobody touches.                                 *)

(* What is known where: the configuration being made is the one the        *)
(* command line asks for, each look at the path has seen what the path     *)
(* leads to, and what has ended the program is not acceptable.             *)
StableInv ==
  still =>
    /\ main \in {"find", "load"} => parsed = "taken" /\ ~Value("config").empty
    /\ main = "load" => file.kind \notin {"missing", "denied"}
    /\ Made => parsed = "taken" /\ wanted = Source
    /\ Checked => ~wanted.path.empty
    /\ main \in {"permissions", "canonical", "running"} => leadsTo \in Directories
    /\ main \in {"canonical", "running"} => leadsTo \in OwnerReadable
    /\ main = "running" => config.path = leadsTo
    /\ main \in {"exited", "aborted"} => ~(parsed = "taken" /\ Acceptable(Source))

(* Whether an address passes is what Acceptable says of it.                *)
LEMMA AddrAcceptable ==
  ASSUME NEW ip \in Texts, NEW port \in Texts
  PROVE  AddrError(ip, port) = "none" <=>
           /\ ip.ip = "v4" /\ ~ip.empty
           /\ ~port.empty /\ port.number # NoNumber /\ port.number \in 0..MaxPort
<1>1. port.number \in Int \cup {NoNumber}
  BY StartupAssumption DEF Text
<1>2. MaxPort \in Nat
  BY DEF MaxPort
<1>3. IpError(ip) = "none" <=> ip.ip = "v4" /\ ~ip.empty
  BY DEF IpError
<1>4. PortError(port) = "none" <=>
        ~port.empty /\ port.number # NoNumber /\ port.number \in 0..MaxPort
  BY <1>1, <1>2, NoNumberAssumption, PortBounds DEF PortError
<1> QED
  BY <1>3, <1>4 DEF AddrError

(* A file that says nothing is no configuration.                           *)
LEMMA NoFileNotAcceptable ==
  ASSUME SetupInv, ~Value("config").empty, file.kind # "object"
  PROVE  ~Acceptable(Source)
<1>1. Source = NoMembers
  BY DEF SetupInv, TypeOK, Files, Source
<1> QED
  BY <1>1 DEF Acceptable, NoMembers

(* What the main thread asks for stays the same while it does not read.    *)
LEMMA SourceStable ==
  ASSUME UNCHANGED <<lineVars, diskVars>>
  PROVE  /\ Source' = Source
         /\ Value("config")' = Value("config")
         /\ Acceptable(Source)' <=> Acceptable(Source)
         /\ parsed' = parsed
BY DEF lineVars, diskVars, Source, Value, CL!Value, Acceptable

LEMMA StableInit == Init => StableInv
BY DEF Init, StableInv, Made, Checked

LEMMA StableStep == SetupInv /\ SetupInv' /\ StableInv /\ [Next]_vars => StableInv'
<1> SUFFICES ASSUME SetupInv, SetupInv', StableInv, [Next]_vars, still' PROVE StableInv'
  BY DEF StableInv
<1>1. still
  BY DEF Next, MainThread, ReadLine, Refuse, Choose, Find, Load, Address, Exists, IsDirectory,
         Permissions, Canonical, Look, Mutes, Disturb, diskVars, vars
<1> USE <1>1
<1>2. CASE UNCHANGED vars
  <2>1. UNCHANGED <<lineVars, diskVars, main, wanted, config>>
    BY <1>2 DEF vars
  <2> QED
    BY <2>1, SourceStable DEF StableInv, Made, Checked, diskVars
<1>3. CASE ReadLine
  BY <1>3 DEF ReadLine, StableInv, Made, Checked
<1>4. CASE Refuse
  <2>1. UNCHANGED <<lineVars, diskVars>> /\ main' = "exited" /\ parsed # "taken"
    BY <1>4 DEF Refuse, ExitFailing, Mutes
  <2> QED
    BY <2>1, SourceStable DEF StableInv, Made, Checked
<1>5. CASE Choose
  <2>1. UNCHANGED <<lineVars, diskVars>> /\ parsed = "taken"
    BY <1>5 DEF Choose, Mutes
  <2>2. \/ main' = "address" /\ wanted' = Source
        \/ main' = "find" /\ ~Value("config").empty
    BY <1>5 DEF Choose, Proceed, Source
  <2> QED
    BY <2>1, <2>2, SourceStable DEF StableInv, Made, Checked
<1>6. CASE Find
  <2>1. UNCHANGED <<lineVars, diskVars>> /\ parsed = "taken" /\ ~Value("config").empty
    BY <1>6 DEF Find, Mutes, StableInv
  <2>2. \/ main' = "load" /\ file.kind \notin {"missing", "denied"}
        \/ main' \in {"exited", "aborted"} /\ file.kind # "object"
    BY <1>6 DEF Find, Proceed, ExitFailing, Abort
  <2>3. main' \in {"exited", "aborted"} => ~Acceptable(Source)
    BY <2>1, <2>2, NoFileNotAcceptable
  <2> QED
    BY <2>1, <2>2, <2>3, SourceStable DEF StableInv, Made, Checked, diskVars
<1>7. CASE Load
  <2>1. UNCHANGED <<lineVars, diskVars>> /\ parsed = "taken" /\ ~Value("config").empty
    BY <1>7 DEF Load, StableInv
  <2>2. Source = file.says
    BY <2>1 DEF Source
  <2>3. LoadError # "none" => ~Acceptable(Source)
    BY <2>1, <2>2, NoFileNotAcceptable DEF LoadError, Acceptable
  <2>4. \/ main' = "exited" /\ LoadError # "none"
        \/ main' = "address" /\ wanted' = Source
    BY <1>7, <2>2 DEF Load, ExitFailing, Proceed
  <2> QED
    BY <2>1, <2>3, <2>4, SourceStable DEF StableInv, Made, Checked
<1>8. CASE Address
  <2>1. UNCHANGED <<lineVars, diskVars, wanted>> /\ parsed = "taken" /\ wanted = Source
    BY <1>8 DEF Address, Mutes, StableInv, Made
  <2>2. wanted.ip \in Texts /\ wanted.port \in Texts
    BY <1>8 DEF Address, SetupInv, ConfigInv, Made
  <2>3. AddrError(wanted.ip, wanted.port) # "none" => ~Acceptable(Source)
    BY <2>1, <2>2, AddrAcceptable DEF Acceptable
  <2>4. "none" \notin Exceptions
    BY DEF Exceptions
  <2>5. \/ main' = "exists" /\ ~wanted.path.empty
        \/ main' \in {"exited", "aborted"} /\ ~Acceptable(Source)
    BY <1>8, <2>1, <2>3, <2>4 DEF Address, Throw, Proceed, ExitFailing, Abort, Acceptable
  <2> QED
    BY <2>1, <2>5, SourceStable DEF StableInv, Made, Checked, diskVars
<1>9. ASSUME UNCHANGED <<lineVars, diskVars, wanted>>, Checked, main # "running",
             main' \in {"exited", "aborted"}, leadsTo \notin Directories \cap OwnerReadable
      PROVE  StableInv'
  <2>1. ~Acceptable(Source)
    BY <1>9 DEF Acceptable
  <2> QED
    BY <1>9, <2>1, SourceStable DEF StableInv, Made, Checked
<1>10. "missing" \notin Directories /\ "denied" \notin Directories
  BY StartupAssumption
<1>11. CASE Exists
  <2>1. UNCHANGED <<lineVars, diskVars, wanted>> /\ main = "exists"
    BY <1>11 DEF Exists, Look, Mutes
  <2>2. \/ main' = "is_directory"
        \/ main' \in {"exited", "aborted"} /\ leadsTo \notin Directories
    BY <1>10, <1>11 DEF Exists, Look, Throw, Proceed, ExitFailing, Abort
  <2> QED
    BY <1>9, <2>1, <2>2, SourceStable DEF StableInv, Made, Checked, diskVars
<1>12. CASE IsDirectory
  <2>1. UNCHANGED <<lineVars, diskVars, wanted>> /\ main = "is_directory"
    BY <1>12 DEF IsDirectory, Look, Mutes
  <2>2. \/ main' = "permissions" /\ leadsTo \in Directories
        \/ main' \in {"exited", "aborted"} /\ leadsTo \notin Directories
    BY <1>10, <1>12 DEF IsDirectory, Look, Throw, Proceed, ExitFailing, Abort
  <2> QED
    BY <1>9, <2>1, <2>2, SourceStable DEF StableInv, Made, Checked, diskVars
<1>13. CASE Permissions
  <2>1. UNCHANGED <<lineVars, diskVars, wanted>> /\ main = "permissions" /\ leadsTo \in Directories
    BY <1>13 DEF Permissions, Look, Mutes, StableInv
  <2>2. \/ main' = "canonical" /\ leadsTo \in OwnerReadable
        \/ main' \in {"exited", "aborted"} /\ leadsTo \notin OwnerReadable
    BY <1>10, <1>13, <2>1 DEF Permissions, Look, Throw, Proceed, ExitFailing, Abort
  <2> QED
    BY <1>9, <2>1, <2>2, SourceStable DEF StableInv, Made, Checked, diskVars
<1>14. CASE Canonical
  <2>1. UNCHANGED <<lineVars, diskVars, wanted>> /\ main = "canonical" /\ leadsTo \in Directories
    BY <1>14 DEF Canonical, Mutes, StableInv
  <2>2. main' = "running" /\ config'.path = leadsTo
    BY <1>10, <1>14, <2>1 DEF Canonical
  <2> QED
    BY <2>1, <2>2, SourceStable DEF StableInv, Made, Checked, diskVars
<1>15. CASE Disturb
  BY <1>15 DEF Disturb
<1> QED
  BY <1>2, <1>3, <1>4, <1>5, <1>6, <1>7, <1>8, <1>11, <1>12, <1>13, <1>14, <1>15
  DEF Next, MainThread

LEMMA StableInvariant == Safety => []StableInv
BY SetupInvariant, StableInit, StableStep, PTL DEF Safety

(* How it ends: what comes from the config file is within the try from     *)
(* load on, and what comes from the options never is.                      *)
EndInv ==
  still =>
    /\ Made => (byFile <=> ~Value("config").empty)
    /\ Made /\ byFile => file.kind = "object"
    /\ main = "aborted" => parsed = "taken" /\ (Value("config").empty \/ file.kind = "denied")
    /\ main = "exited" /\ parsed = "taken" => ~Value("config").empty /\ file.kind # "denied"

LEMMA EndInit == Init => EndInv
BY DEF Init, EndInv, Made

(* A step of the main thread that is made within or without the try.       *)
LEMMA EndMade ==
  ASSUME EndInv, StableInv, still, still', Made, main # "running",
         UNCHANGED <<lineVars, diskVars, byFile>>,
         Made' \/ (main' = "exited" /\ byFile) \/ (main' = "aborted" /\ ~byFile)
  PROVE  EndInv'
<1>1. UNCHANGED file
  BY DEF diskVars
<1>2. parsed = "taken"
  BY DEF StableInv
<1> QED
  BY <1>1, <1>2, SourceStable DEF EndInv, Made

LEMMA EndStep == SetupInv /\ SetupInv' /\ StableInv /\ EndInv /\ [Next]_vars => EndInv'
<1> SUFFICES ASSUME SetupInv, SetupInv', StableInv, EndInv, [Next]_vars, still' PROVE EndInv'
  BY DEF EndInv
<1>1. still
  BY DEF Next, MainThread, ReadLine, Refuse, Choose, Find, Load, Address, Exists, IsDirectory,
         Permissions, Canonical, Look, Mutes, Disturb, diskVars, vars
<1> USE <1>1
<1>2. CASE UNCHANGED vars
  <2>1. UNCHANGED <<lineVars, diskVars, main, byFile, file>>
    BY <1>2 DEF vars, diskVars
  <2> QED
    BY <2>1, SourceStable DEF EndInv, Made
<1>3. CASE ReadLine
  BY <1>3 DEF ReadLine, EndInv, Made
<1>4. CASE Refuse
  <2>1. UNCHANGED <<lineVars, diskVars>> /\ main' = "exited" /\ parsed # "taken"
    BY <1>4 DEF Refuse, ExitFailing, Mutes
  <2> QED
    BY <2>1, SourceStable DEF EndInv, Made
<1>5. CASE Choose
  <2>1. UNCHANGED <<lineVars, diskVars, byFile>> /\ ~byFile
    BY <1>5 DEF Choose, Mutes, SetupInv, PathInv
  <2>2. \/ main' = "address" /\ Value("config").empty
        \/ main' = "find"
    BY <1>5 DEF Choose, Proceed
  <2> QED
    BY <2>1, <2>2, SourceStable DEF EndInv, Made
<1>6. CASE Find
  <2>1. UNCHANGED <<lineVars, diskVars, file>> /\ parsed = "taken" /\ ~Value("config").empty
    BY <1>6 DEF Find, Mutes, StableInv, diskVars
  <2>2. \/ main' = "load"
        \/ main' = "exited" /\ file.kind # "denied"
        \/ main' = "aborted" /\ file.kind = "denied"
    BY <1>6 DEF Find, Proceed, ExitFailing, Abort
  <2> QED
    BY <2>1, <2>2, SourceStable DEF EndInv, Made
<1>7. CASE Load
  <2>1. UNCHANGED <<lineVars, diskVars, file>> /\ ~Value("config").empty
    BY <1>7 DEF Load, StableInv, diskVars
  <2>2. file.kind # "denied"
    BY <1>7 DEF Load, StableInv
  <2>3. \/ main' = "exited"
        \/ main' = "address" /\ byFile' /\ file.kind = "object"
    BY <1>7 DEF Load, LoadError, ExitFailing, Proceed
  <2> QED
    BY <2>1, <2>2, <2>3, SourceStable DEF EndInv, Made
<1>8. CASE Address \/ Exists \/ IsDirectory \/ Permissions \/ Canonical
  <2>1. UNCHANGED <<lineVars, diskVars, byFile>> /\ Made /\ main # "running"
    BY <1>8 DEF Address, Exists, IsDirectory, Permissions, Canonical, Look, Mutes, Made
  <2>2. Made' \/ (main' = "exited" /\ byFile) \/ (main' = "aborted" /\ ~byFile)
    BY <1>8 DEF Address, Exists, IsDirectory, Permissions, Canonical, Look, Throw, Proceed,
                ExitFailing, Abort, Made
  <2> QED
    BY <2>1, <2>2, EndMade
<1>9. CASE Disturb
  BY <1>9 DEF Disturb
<1> QED
  BY <1>2, <1>3, <1>4, <1>5, <1>6, <1>7, <1>8, <1>9 DEF Next, MainThread

LEMMA EndInvariant == Safety => []EndInv
BY SetupInvariant, StableInvariant, EndInit, EndStep, PTL DEF Safety

-----------------------------------------------------------------------------
(* With a file system that changes.                                        *)

(* What holds whatever changes: only what comes from a config file is in   *)
(* the try, what comes from the options is what the options say, and the   *)
(* last look at the path is the one that counts.                           *)
Asked == [ip |-> Value("ip"), port |-> Value("port"), path |-> Value("dir")]

RaceInv ==
  /\ main \in {"find", "load"} => parsed = "taken" /\ ~Value("config").empty
  /\ Made => /\ parsed = "taken"
             /\ byFile <=> ~Value("config").empty
             /\ ~byFile => wanted = Asked
  /\ Checked => ~wanted.path.empty
  /\ main = "aborted" => parsed = "taken" /\ (Value("config").empty \/ file.kind = "denied")
  /\ main = "exited" /\ parsed = "taken" => ~Value("config").empty
  /\ main = "running" => config.path = leadsTo

LEMMA RaceInit == Init => RaceInv
BY DEF Init, RaceInv, Made, Checked

(* What the command line asks for stays the same while it is not read.     *)
LEMMA AskedStable ==
  ASSUME UNCHANGED lineVars
  PROVE  Asked' = Asked /\ Value("config")' = Value("config") /\ parsed' = parsed
BY DEF lineVars, Asked, Value, CL!Value

(* The steps from Address on differ in where they lead.                    *)
LEMMA RaceMade ==
  ASSUME RaceInv, Made, main # "running",
         UNCHANGED <<lineVars, wanted, byFile>>,
         Checked' => ~wanted.path.empty,
         main' = "running" => config'.path = leadsTo',
         Made' \/ (main' = "exited" /\ byFile) \/ (main' = "aborted" /\ ~byFile)
  PROVE  RaceInv'
<1>1. parsed = "taken" /\ (byFile <=> ~Value("config").empty) /\ (~byFile => wanted = Asked)
  BY DEF RaceInv
<1>2. UNCHANGED lineVars
  OBVIOUS
<1> QED
  BY <1>1, <1>2, AskedStable DEF RaceInv, Made, Checked

LEMMA RaceStep == SetupInv /\ RaceInv /\ [Next]_vars => RaceInv'
<1> SUFFICES ASSUME SetupInv, RaceInv, [Next]_vars PROVE RaceInv'
  OBVIOUS
<1>1. CASE ReadLine
  BY <1>1 DEF ReadLine, RaceInv, Made, Checked
<1>2. ASSUME UNCHANGED <<lineVars, main, wanted, byFile, config>>, main \notin Over \/ UNCHANGED vars
      PROVE  RaceInv'
  BY <1>2, AskedStable DEF RaceInv, Made, Checked, Over, vars, diskVars
<1>3. CASE UNCHANGED vars
  BY <1>2, <1>3 DEF vars
<1>4. CASE Disturb
  BY <1>2, <1>4 DEF Disturb
<1>5. CASE Refuse
  <2>1. UNCHANGED lineVars /\ main' = "exited" /\ parsed # "taken"
    BY <1>5 DEF Refuse, ExitFailing, Mutes
  <2> QED
    BY <2>1, AskedStable DEF RaceInv, Made, Checked
<1>6. CASE Choose
  <2>1. UNCHANGED lineVars /\ parsed = "taken" /\ UNCHANGED byFile /\ ~byFile
    BY <1>6 DEF Choose, Mutes, SetupInv, PathInv
  <2>2. \/ main' = "address" /\ Value("config").empty /\ wanted' = Asked
        \/ main' = "find" /\ ~Value("config").empty
    BY <1>6 DEF Choose, Proceed, Asked
  <2> QED
    BY <2>1, <2>2, AskedStable DEF RaceInv, Made, Checked
<1>7. CASE Find
  <2>1. UNCHANGED <<lineVars, file>> /\ parsed = "taken" /\ ~Value("config").empty
    BY <1>7 DEF Find, Mutes, RaceInv, diskVars
  <2>2. main' \in {"load", "exited"} \/ (main' = "aborted" /\ file.kind = "denied")
    BY <1>7 DEF Find, Proceed, ExitFailing, Abort
  <2> QED
    BY <2>1, <2>2, AskedStable DEF RaceInv, Made, Checked
<1>8. CASE Load
  <2>1. UNCHANGED lineVars /\ parsed = "taken" /\ ~Value("config").empty
    BY <1>8 DEF Load, RaceInv
  <2>2. main' \in {"exited", "address"} /\ byFile'
    BY <1>8 DEF Load, Proceed, ExitFailing
  <2> QED
    BY <2>1, <2>2, AskedStable DEF RaceInv, Made, Checked
<1>9. CASE Address
  <2>1. UNCHANGED <<lineVars, wanted, byFile>> /\ main = "address"
    BY <1>9 DEF Address, Mutes
  <2>2. \/ main' = "exited" /\ byFile
        \/ main' = "aborted" /\ ~byFile
        \/ main' = "exists" /\ ~wanted.path.empty
    BY <1>9 DEF Address, Throw, Proceed, ExitFailing, Abort
  <2> QED
    BY <2>1, <2>2, RaceMade DEF Made, Checked
<1>10. CASE Exists \/ IsDirectory \/ Permissions
  <2>1. UNCHANGED <<lineVars, wanted, byFile>> /\ main \in {"exists", "is_directory", "permissions"}
    BY <1>10 DEF Exists, IsDirectory, Permissions, Look, Mutes
  <2>2. \/ main' = "exited" /\ byFile
        \/ main' = "aborted" /\ ~byFile
        \/ main' \in {"is_directory", "permissions", "canonical"}
    BY <1>10 DEF Exists, IsDirectory, Permissions, Look, Throw, Proceed, ExitFailing, Abort
  <2>3. ~wanted.path.empty
    BY <2>1 DEF RaceInv, Checked
  <2> QED
    BY <2>1, <2>2, <2>3, RaceMade DEF Made, Checked
<1>11. CASE Canonical
  <2>1. UNCHANGED <<lineVars, wanted, byFile, leadsTo>> /\ main = "canonical"
    BY <1>11 DEF Canonical, Mutes, diskVars
  <2>2. \/ main' = "exited" /\ byFile
        \/ main' = "aborted" /\ ~byFile
        \/ main' = "running" /\ config'.path = leadsTo
    BY <1>11 DEF Canonical, Throw, ExitFailing, Abort
  <2>3. ~wanted.path.empty
    BY <2>1 DEF RaceInv, Checked
  <2> QED
    BY <2>1, <2>2, <2>3, RaceMade DEF Made, Checked
<1> QED
  BY <1>1, <1>3, <1>4, <1>5, <1>6, <1>7, <1>8, <1>9, <1>10, <1>11 DEF Next, MainThread

LEMMA RaceInvariant == Safety => []RaceInv
BY SetupInvariant, RaceInit, RaceStep, PTL DEF Safety

-----------------------------------------------------------------------------
(* The theorems.                                                           *)

(* Every variable stays in its type; in particular a program that does not *)
(* run has the configuration it was built with (CLIParse).                 *)
THEOREM StartupTypeOK == Safety => []TypeOK
<1>1. SetupInv => TypeOK
  BY DEF SetupInv
<1> QED
  BY <1>1, SetupInvariant, PTL

(* A command line is read as its one meaning, however long it is.          *)
THEOREM StartupReadAsMeant == Safety => []ReadAsMeant
<1>1. MeaningInv => ReadAsMeant
  BY DEF MeaningInv, ReadAsMeant
<1> QED
  BY <1>1, MeaningInvariant, PTL

(* A program that runs has a usable address, and its path has been a       *)
(* directory: Addr::setIp, Addr::setPort, Config::setPath.                 *)
THEOREM StartupRunsWithSense == Safety => []RunsWithSense
<1>1. ASSUME SetupInv PROVE RunsWithSense
  <2> SUFFICES ASSUME main = "running" PROVE IsAddr(config.addr) /\ led
    BY DEF RunsWithSense
  <2>1. wanted.ip \in Texts /\ wanted.port \in Texts
    BY <1>1 DEF SetupInv, ConfigInv, Made
  <2>2. AddrError(wanted.ip, wanted.port) = "none"
    BY <1>1 DEF SetupInv, ConfigInv, Checked
  <2>3. config.addr = MakeAddr(wanted.ip, wanted.port)
    BY <1>1 DEF SetupInv, ConfigInv
  <2>4. led
    BY <1>1 DEF SetupInv, PathInv
  <2> QED
    BY <2>1, <2>2, <2>3, <2>4, MadeAddr
<1> QED
  BY <1>1, SetupInvariant, PTL

(* With a file system that nobody touches, start-up is the function of     *)
(* command line and files that StableVerdict spells out.                   *)
THEOREM StartupStableVerdict == Safety => []StableVerdict
<1>1. ASSUME SetupInv, StableInv, EndInv PROVE StableVerdict
  <2> SUFFICES ASSUME still, main \in Over PROVE StableVerdict
    BY DEF StableVerdict
  <2>1. CASE main = "running"
    <3>1. /\ parsed = "taken" /\ wanted = Source /\ ~wanted.path.empty
          /\ leadsTo \in Directories \cap OwnerReadable /\ config.path = leadsTo
      BY <1>1, <2>1 DEF StableInv, Made, Checked
    <3>2. wanted \in [ip : Texts, port : Texts, path : Texts]
      BY <1>1, <2>1 DEF SetupInv, ConfigInv, Made
    <3>3. AddrError(wanted.ip, wanted.port) = "none"
      BY <1>1, <2>1 DEF SetupInv, ConfigInv, Checked
    <3>4. \A member \in {"ip", "port", "path"} : wanted[member] # Absent
      BY <3>2, StartupAssumption
    <3>5. Acceptable(Source)
      BY <3>1, <3>2, <3>3, <3>4, AddrAcceptable DEF Acceptable
    <3>6. config.addr = [ip |-> Source.ip, port |-> ToText(Source.port.number)]
      BY <1>1, <2>1, <3>1 DEF SetupInv, ConfigInv, MakeAddr
    <3> QED
      BY <2>1, <3>1, <3>5, <3>6 DEF StableVerdict
  <2>2. CASE main = "aborted"
    BY <1>1, <2>2 DEF StableInv, EndInv, StableVerdict
  <2>3. CASE main = "exited"
    BY <1>1, <2>3 DEF StableInv, EndInv, StableVerdict
  <2> QED
    BY <2>1, <2>2, <2>3 DEF Over
<1> QED
  BY <1>1, SetupInvariant, StableInvariant, EndInvariant, PTL

(* Whatever the file system does meanwhile, start-up ends as               *)
(* VerdictDespiteChanges says: with the path found last, and in order if a *)
(* config file is named that was there.                                    *)
THEOREM StartupVerdictDespiteChanges == Safety => []VerdictDespiteChanges
<1>1. ASSUME SetupInv, RaceInv PROVE VerdictDespiteChanges
  <2>1. main = "running" => leadsTo \in Targets
    BY <1>1 DEF SetupInv, ConfigInv, RaceInv
  <2>2. main = "running" /\ Value("config").empty =>
          /\ config.addr = MakeAddr(Value("ip"), Value("port"))
          /\ ~Value("dir").empty
    BY <1>1 DEF SetupInv, ConfigInv, RaceInv, Made, Checked, Asked
  <2> QED
    BY <1>1, <2>1, <2>2 DEF RaceInv, VerdictDespiteChanges, Made
<1> QED
  BY <1>1, SetupInvariant, RaceInvariant, PTL

(* Start-up implements the safety part of Setup: it settles once, with an  *)
(* address that is accepted, or ends without one.                          *)
THEOREM StartupImplementsSetup == Safety => Plan!Safety
<1>1. Init => Plan!Init
  BY DEF Init, Plan!Init, Outcome
<1>2. ASSUME SetupInv, SetupInv', [Next]_vars PROVE [Plan!Next]_(Plan!vars)
  <2> USE DEF Plan!Next, Plan!Settle, Plan!End, Plan!vars
  <2>1. ASSUME UNCHANGED config, main' \notin Over \/ UNCHANGED main PROVE [Plan!Next]_(Plan!vars)
    <3>1. CASE UNCHANGED main
      BY <2>1, <3>1 DEF Outcome
    <3>2. CASE main' \notin Over /\ main \notin Over
      BY <2>1, <3>2 DEF Outcome, Over
    <3>3. main \in Over => UNCHANGED main
      BY <1>2 DEF Next, MainThread, ReadLine, Refuse, Choose, Find, Load, Address, Exists,
                  IsDirectory, Permissions, Canonical, Look, Disturb, Over, vars
    <3> QED
      BY <2>1, <3>1, <3>2, <3>3
  <2>2. ASSUME UNCHANGED config, main' \in {"exited", "aborted"}, main \notin Over
        PROVE  [Plan!Next]_(Plan!vars)
    BY <2>2 DEF Outcome, Over
  <2>3. ASSUME main = "canonical", main' = "running" PROVE [Plan!Next]_(Plan!vars)
    <3>1. wanted.ip' \in Texts /\ wanted.port' \in Texts
      BY <1>2, <2>3 DEF SetupInv, ConfigInv, Made
    <3>2. AddrError(wanted.ip, wanted.port)'  = "none"
      BY <1>2, <2>3 DEF SetupInv, ConfigInv, Checked
    <3>3. config.addr' = MakeAddr(wanted.ip, wanted.port)'
      BY <1>2, <2>3 DEF SetupInv, ConfigInv
    <3>4. config.addr' \in Accepted
      BY <3>1, <3>2, <3>3, MadeAddr
    <3> QED
      BY <2>3, <3>4 DEF Outcome
  <2>4. CASE Canonical
    BY <2>2, <2>3, <2>4 DEF Canonical, Throw, ExitFailing, Abort, Over
  <2>5. CASE ReadLine \/ Disturb \/ UNCHANGED vars
    BY <2>1, <2>5 DEF ReadLine, Disturb, vars
  <2>6. CASE Refuse
    BY <2>2, <2>6 DEF Refuse, ExitFailing, Over
  <2>7. CASE Choose
    BY <2>1, <2>7 DEF Choose, Proceed, Over
  <2>8. CASE Find
    BY <2>1, <2>2, <2>8 DEF Find, Proceed, ExitFailing, Abort, Over
  <2>9. CASE Load
    BY <2>1, <2>2, <2>9 DEF Load, Proceed, ExitFailing, Over
  <2>10. CASE Address
    BY <2>1, <2>2, <2>10 DEF Address, Throw, Proceed, ExitFailing, Abort, Over
  <2>11. CASE Exists
    BY <2>1, <2>2, <2>11 DEF Exists, Look, Throw, Proceed, ExitFailing, Abort, Over
  <2>12. CASE IsDirectory
    BY <2>1, <2>2, <2>12 DEF IsDirectory, Look, Throw, Proceed, ExitFailing, Abort, Over
  <2>13. CASE Permissions
    BY <2>1, <2>2, <2>13 DEF Permissions, Look, Throw, Proceed, ExitFailing, Abort, Over
  <2> QED
    BY <1>2, <2>4, <2>5, <2>6, <2>7, <2>8, <2>9, <2>10, <2>11, <2>12, <2>13 DEF Next, MainThread
<1> QED
  BY <1>1, <1>2, SetupInvariant, PTL DEF Safety, Plan!Safety
=============================================================================
