---------------------------- MODULE CommandLine ----------------------------
(***************************************************************************)
(* How a command line becomes the values of the four options both programs *)
(* have: what CLI::App::parse does with an application of four options of  *)
(* one text each and a help flag, which is what ServerCLI::CLIParse and    *)
(* ClientCLI::CLIParse make (common/libs/CLI11.hpp, without the parts for  *)
(* subcommands, positionals, lists, validators, environment and files).    *)
(*                                                                         *)
(* Arguments are consumed one after the other from the front.  An option   *)
(* without a value attached takes the next argument, whatever it looks     *)
(* like.  Only when all have been read are help, repeated options and      *)
(* arguments nobody wanted looked at, in this order.                       *)
(***************************************************************************)
EXTENDS Naturals, Sequences

CONSTANTS
  Texts,      (* what an argument, or the value attached to one, can say   *)
  NoText,     (* no value attached                                         *)
  Arguments,  (* the arguments that can be given                           *)
  Lines       (* the command lines that can be given                       *)

Options == {"ip", "port", "dir", "config"}

(* An argument as it is recognized: "--", the help flag, an option (by its *)
(* long or its short name, known or not, with a value attached or not), or *)
(* anything else, numbers with a minus sign included.  Whatever it is, it  *)
(* can be taken as a value for what it says, which is what _add_result     *)
(* makes of it: the escape "[[text]]" has been undone.                     *)
Argument ==
  [class : {"mark", "help", "option", "plain"},
   name  : Options \cup {"unknown"},
   value : Texts \cup {NoText},
   says  : Texts]

VARIABLES
  line,         (* the command line (history)                              *)
  args,         (* what has not been read yet                              *)
  results,      (* the values each option was given                        *)
  help,         (* whether the help flag was given                         *)
  missing,      (* arguments nobody wanted                                 *)
  positional,   (* whether "--" was met                                    *)
  parsed        (* the outcome, "reading" until there is one               *)

vars == <<line, args, results, help, missing, positional, parsed>>

Outcomes == {"taken", "help", "mismatch", "extras"}

TypeOK ==
  /\ line \in Lines
  /\ args \in Seq(Arguments)
  /\ results \in [Options -> Seq(Texts)]
  /\ help \in BOOLEAN
  /\ missing \in Seq(Arguments)
  /\ positional \in BOOLEAN
  /\ parsed \in Outcomes \cup {"reading"}

Init ==
  /\ line \in Lines
  /\ args = line
  /\ results = [o \in Options |-> <<>>]
  /\ help = FALSE
  /\ missing = <<>>
  /\ positional = FALSE
  /\ parsed = "reading"

-----------------------------------------------------------------------------
(* Reading.                                                                *)

(* The next argument, as the parser sees it: behind "--" all are plain.    *)
Meets(class) ==
  /\ parsed = "reading"
  /\ args # <<>>
  /\ class = IF positional THEN "plain" ELSE Head(args).class

Mark ==
  /\ Meets("mark")
  /\ positional' = TRUE
  /\ args' = Tail(args)
  /\ UNCHANGED <<line, results, help, missing, parsed>>

HelpFlag ==
  /\ Meets("help")
  /\ help' = TRUE
  /\ args' = Tail(args)
  /\ UNCHANGED <<line, results, missing, positional, parsed>>

(* There are no positionals: a plain argument is left over, and so is an   *)
(* option nobody knows.                                                    *)
LeftOver ==
  /\ Meets("plain") \/ (Meets("option") /\ Head(args).name = "unknown")
  /\ missing' = Append(missing, Head(args))
  /\ args' = Tail(args)
  /\ UNCHANGED <<line, results, help, positional, parsed>>

AddResult(o, t) == results' = [results EXCEPT ![o] = Append(@, t)]

(* Mutant: an option does not take what looks like another one.            *)
OptionSpares ==
  /\ Meets("option")
  /\ Head(args).name \in Options
  /\ LET o == Head(args).name
         rest == Tail(args)
     IN \/ /\ Head(args).value # NoText
           /\ AddResult(o, Head(args).value)
           /\ args' = rest
           /\ UNCHANGED parsed
        \/ /\ Head(args).value = NoText
           /\ rest # <<>> /\ Head(rest).class = "plain"
           /\ AddResult(o, Head(rest).says)
           /\ args' = Tail(rest)
           /\ UNCHANGED parsed
        \/ /\ Head(args).value = NoText
           /\ ~(rest # <<>> /\ Head(rest).class = "plain")
           /\ parsed' = "mismatch"
           /\ args' = rest
           /\ UNCHANGED results
  /\ UNCHANGED <<line, help, missing, positional>>

(* The value of an option: the one attached to it, or the next argument;   *)
(* there must be one.                                                      *)
Option ==
  /\ Meets("option")
  /\ Head(args).name \in Options
  /\ LET o == Head(args).name
         rest == Tail(args)
     IN \/ /\ Head(args).value # NoText
           /\ AddResult(o, Head(args).value)
           /\ args' = rest
           /\ UNCHANGED parsed
        \/ /\ Head(args).value = NoText
           /\ rest # <<>>
           /\ AddResult(o, Head(rest).says)
           /\ args' = Tail(rest)
           /\ UNCHANGED parsed
        \/ /\ Head(args).value = NoText
           /\ rest = <<>>
           /\ parsed' = "mismatch"
           /\ args' = rest
           /\ UNCHANGED results
  /\ UNCHANGED <<line, help, missing, positional>>

Repeated == \E o \in Options : Len(results[o]) > 1

(* _process and _process_extras.                                           *)
Process ==
  /\ parsed = "reading"
  /\ args = <<>>
  /\ parsed' = IF help THEN "help"
               ELSE IF Repeated THEN "mismatch"
               ELSE IF missing # <<>> THEN "extras" ELSE "taken"
  /\ UNCHANGED <<line, args, results, help, missing, positional>>

Next == Mark \/ HelpFlag \/ LeftOver \/ Option \/ Process

Safety == Init /\ [][Next]_vars

(* The variable an option is bound to: what it was given, or its default.  *)
Value(o, default) == IF results[o] = <<>> THEN default ELSE results[o][1]

-----------------------------------------------------------------------------
(* Properties.                                                             *)

(* The roles of the arguments of a line, without reading it in order: a    *)
(* value is what follows an option that lacks one, and is nothing else;    *)
(* what is not a value is what it looks like, up to the first "--".        *)
Roles == {"value", "mark", "help", "option", "plain"}

Lacks(l, role, i) == role[i] = "option" /\ l[i].name \in Options /\ l[i].value = NoText

HasRole(l, role, i) ==
  IF i > 1 /\ Lacks(l, role, i - 1)
    THEN role[i] = "value"
    ELSE role[i] = IF \E j \in 1..i - 1 : role[j] = "mark" THEN "plain" ELSE l[i].class

IsReading(l, role) == \A i \in 1..Len(l) : HasRole(l, role, i)

Given(l, role, o) == {i \in 1..Len(l) : role[i] = "option" /\ l[i].name = o}

(* What a line means: its roles say whether an option lacks its value, or  *)
(* help is asked for, or an option is given twice, or something is left    *)
(* over; and if it is none of these, what each option's value is.          *)
Meaning(l, role) ==
  IF l # <<>> /\ Lacks(l, role, Len(l)) THEN "mismatch"
  ELSE IF \E i \in 1..Len(l) : role[i] = "help" THEN "help"
  ELSE IF \E o \in Options : \E i, j \in Given(l, role, o) : i # j THEN "mismatch"
  ELSE IF \E i \in 1..Len(l) :
            role[i] = "plain" \/ (role[i] = "option" /\ l[i].name = "unknown")
    THEN "extras"
  ELSE "taken"

ValueAt(l, i) == IF l[i].value # NoText THEN l[i].value ELSE l[i + 1].says

(* Reading from the front gives the line its meaning, and it has only one: *)
(* nothing is taken for two things, nothing gets lost, and each option     *)
(* that was given has its own value (CLIParse,                             *)
(* server/server_cli.cpp:18-25 and client/cli/client_cli.cpp:12-19).       *)
IsMeant(role) ==
  /\ parsed = Meaning(line, role)
  /\ parsed = "taken" =>
       \A o \in Options :
         IF Given(line, role, o) = {}
           THEN results[o] = <<>>
           ELSE \E i \in Given(line, role, o) : results[o] = <<ValueAt(line, i)>>

ReadAsMeant ==
  parsed # "reading" =>
    LET readings == {role \in [1..Len(line) -> Roles] : IsReading(line, role)}
    IN \E role \in readings : readings = {role} /\ IsMeant(role)
=============================================================================
