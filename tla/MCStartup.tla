----------------------------- MODULE MCStartup -----------------------------
(***************************************************************************)
(* Constants for the model checking of Startup: the texts on which         *)
(* CLIParse, Addr and Config decide differently, a line for each, and      *)
(* every line of up to three of the arguments that are read differently.   *)
(***************************************************************************)
EXTENDS Startup

\* A text that is neither an address nor starts with a number, or is one of them.
Words(empty, ip, number) == [empty |-> empty, ip |-> ip, number |-> number, bare |-> FALSE]

Empty == Words(TRUE, "none", NoNumber)
IPv4 == Words(FALSE, "v4", 127)          \* 127.0.0.1: stoi finds 127 in it
IPv6 == Words(FALSE, "v6", NoNumber)     \* ::1
Port80 == ToText(80)
Port80abc == Words(FALSE, "none", 80)
PortMax == ToText(65535)
PortOver == ToText(65536)
PortMinus == ToText(-1)
Port5555 == ToText(5555)
Name == Words(FALSE, "none", NoNumber)   \* a path, or an option taken for a value

MCTexts ==
  {Empty, IPv4, IPv6, Port80, Port80abc, PortMax, PortOver, PortMinus, Port5555, Name}

\* server/server_cli.cpp:13-16; the client's differ in the address only.
MCDefaults == [ip |-> IPv4, port |-> Port5555, dir |-> Name, config |-> Empty]

\* Config's and Addr's member initializers.
MCDefaultConfig == [addr |-> [ip |-> IPv4, port |-> Port5555], path |-> "none"]

Opt(name, value) == [class |-> "option", name |-> name, value |-> value, says |-> Name]

Bare(class) == [class |-> class, name |-> "unknown", value |-> NoText, says |-> Name]

Says(text) == [class |-> "plain", name |-> "unknown", value |-> NoText, says |-> text]

Telling ==
  { <<>>,
    <<Opt("ip", IPv6)>>,
    <<Opt("port", Port80abc)>>,
    <<Opt("port", PortMax)>>,
    <<Opt("port", PortOver)>>,
    <<Opt("port", NoText), Says(PortMinus)>>,
    <<Opt("port", NoText), Opt("config", Name)>>,     \* -p takes the option for its value
    <<Opt("dir", NoText), Says(Empty)>>,
    <<Opt("ip", Name), Opt("config", NoText), Says(Name)>>,
    <<Opt("config", Name), Bare("help")>>,
    <<Opt("config", NoText)>>,
    <<Opt("unknown", NoText)>> }

Alphabet ==
  { Opt("port", NoText), Opt("port", Port80abc), Opt("config", NoText),
    Bare("plain"), Bare("mark"), Bare("help") }

MCLines == Telling \cup UNION {[1..n -> Alphabet] : n \in 0..3}

MCArguments == UNION {{l[i] : i \in 1..Len(l)} : l \in MCLines}

Doc(ip, port, path) == [ip |-> ip, port |-> port, path |-> path]

MCDocuments ==
  { Doc(IPv4, Port80, Name),
    Doc(IPv4, PortOver, Name),
    Doc(IPv4, Port80, Empty),
    Doc(IPv4, Absent, Name) }

MCTargets == {"dir", "hidden_dir", "file"}
MCDirectories == {"dir", "hidden_dir"}
MCOwnerReadable == {"dir", "file"}
=============================================================================
