# A TLA+ model of vsna

vsna is two C++ programs built from one source tree: a websocket server that echoes
messages, and a command-line client that sends it one message per `connect` command. Both
are chains of asynchronous operations on Boost.Asio and Boost.Beast. This directory models
the two programs, checks the models with TLC on small instances and proves the properties
that matter most with TLAPS for every value of the constants.

Source paths below are relative to `src/`.

## 1. Inventory

| Component | Source | State it keeps | Operations |
|---|---|---|---|
| Server sessions | `server/session.*` | the websocket stream (its text option, its timeouts), `_buffer`, the one operation outstanding | `run`, `on_accept`, `do_read`, `on_read`, `on_write` |
| Server | `server/server.*`, `core/main.cpp`, `common/utils.h` | `_config`, `_acceptor`, `_io_context` with its queue of handlers, `_threads` | constructor, `setConfig`, `run`, `start_accept`, `do_accept`, `on_accept` |
| Client sessions | `client/session.*` | the resolver, the stream with two timer systems, `_host`, `_text`, `_buffer` | `run`, `on_resolve`, `on_connect`, `on_handshake`, `on_write`, `on_read`, `on_close` |
| Client and command loop | `client/client.*`, `client/cli/*` | `_config`, `_io_context` (stopped or not), the command table, the input line | the loop of `ClientCLI::run`, `connect`, `exit`, commands that print |
| Command line parsing | `server/server_cli.*`, `ClientCLI::CLIParse` | none of its own: it sets the configuration or ends the process | `CLIParse`, `run` |
| Addresses, configuration | `common/addr.*`, `common/config.*` | `_ip`, `_port`, `_path`; the file system they are checked against | `setIp`, `setPort`, `setPath`, `loadFromFile` |
| Vendored libraries | `common/libs/CLI11.hpp`, `json.hpp` | of CLI11: the arguments left, the results of each option; of json.hpp: the parser's stack of states, the builder's stack of references | `App::parse`; `operator>>` of a JSON value |
| Build | `CMakeLists.txt`, `Makefile`, scripts | | not modelled |

How they interact:

- `main` constructs a `ServerCLI`, and with it the `Server`, whose constructor opens the
  listening socket; then `CLIParse` sets the configuration, and `Server::run` starts the
  accept loop and the pool.
- Each connection the kernel queues is taken by the one outstanding `async_accept`;
  `Server::on_accept` makes a `ServerSession` that owns the socket, and starts the next
  accept. The server keeps no list of sessions: a session lives as long as a handler of it
  is outstanding (`shared_from_this`), and its destructor closes the socket.
- The handlers of a session run on a strand of their own, so that they never overlap; those
  of different sessions, and `on_accept`, run on any of the pool's `max_threads` threads.
- On the client there is one thread: `Client::connect` makes a session and runs the
  `io_context` on the thread of the command loop until the session is over.

What is hard about it, with the properties that make each part correct:

| Behaviour | Property |
|---|---|
| `_buffer` is reused for every message of a session, and `async_write` does not copy it | the n-th reply is the n-th message: `EchoFaithful` |
| a message arrives in parts, with a text flag that must survive to the reply | `EchoFaithful`, `ImplementsEcho` |
| the close handshake may overtake an answer | `ClosedMeansAnswered` |
| the server's end of the close handshake outlasts the client, and can fail when the client has ended well | `EndsAgree`, `DepartedReleased`, `ServerLetsGo` |
| peers that vanish, never shake hands, or send and never read | `DepartedReleased`, `HandshakeBounded`, `ImplementsEcho` |
| one chain of accepts keeps the whole server alive | `OneAccept`, `NeverOutOfWork` |
| running out of file descriptors | `EverServed`, `PoolReleases`, `Custody` |
| `on_accept` runs beside the handlers of the session it has just made | `Custody`, `ImplementsSessions` |
| a peer that resets before `on_accept` looks at its address | `SurvivesPeers` (violated) |
| the listening socket is made before the options are read | `ListensAsConfigured` (violated) |
| two timer systems on the client that must relieve each other | `NoDeadlineOnceOpen`, `EndsUnlessUnanswered`, `WebsocketTimesOut` (violated) |
| the answer is printed by the handler after the next, if the close succeeds | `PrintedIsAnswer`, `Completes`, `LostOnlyIfDisturbed` |
| an `io_context` that stays stopped between commands | `QuietAtPrompt`, `PromptReturns`, `ConnectAttempts` (violated) |
| each program waits for the other, and each closes when it thinks the exchange is over | `Completes`, `EndsUnlessSilent`, `ServerLetsGo`, `EndsAgree`, `PrintedIsSent`, `ImplementsClient` |
| an option takes the next argument, whatever it looks like | `ReadAsMeant` |
| the path and the config file change while they are looked at, five times | `VerdictDespiteChanges`, `RunsWithSense` |
| the same mistake ends the process in different ways, by option and by file | `StableVerdict`, `VerdictDespiteChanges`, `ImplementsSetup` |
| the JSON parser and the builder of the document keep a stack each | `AssertsHold` |
| the builder holds references into a document that grows, and in which members are read anew | `ReferencesGood`, `DocumentGood`, `ReadsJson`, `ReadsAsWritten` |

The same list, at its lines, is under `hazards` in `PROJECT.json`.

## 2. Plan

In the order of importance:

1. `EchoService`, the abstract promise of the server to a peer. *Done.*
2. `ServerSession`, which implements it; proofs in `ServerSessionProofs`. *Done.*
3. `Server`, which composes any number of sessions with the accept loop and the pool;
   proofs in `ServerProofs`. *Done.*
4. `ClientSession`, and `Client`, which composes it with the command loop; proofs in
   `ClientSessionProofs` and `ClientProofs`. *Done.*
5. `Configuration`, `CommandLine` and `Startup`: both `CLIParse` functions from the arguments
   to a configuration, on a file system that changes between the looks; `Setup`, what the
   rest of the program may rely on. Proofs in `StartupProofs`. *Done.*
6. `Exchange`: a `ClientSession` against a `ServerSession` over one connection, instead of
   each against an arbitrary peer, with the ways in which a server process can end; it
   implements the specifications of both sides. Proofs in
   `ExchangeProofs`. *Done.*
7. `JsonReader`, the parser and the builder behind `file >> j`; `JsonText`, what a text says
   place by place; `JsonGrammar`, the grammar. Proofs in `JsonReaderProofs` and, for the
   grammar, `JsonGrammarProofs`. *Done.*
8. Every invariant that a passing run checks proved, and the theorems of the parts carried over
   to what is composed of them. *Done.*

Left: the lexer below `JsonReader` (escapes, UTF-8, numbers); section 9.

Runs stay below five minutes each; the bounds, and why they are enough, are in section 4.
Liveness, under fairness, stays with TLC.

## 3. The modules

### EchoService

What a peer can rely on: for each connection, the messages asked, those answered, and
whether the server has dropped it. `Answer` copies the next unanswered message; `End` may
drop the connection at any time. Its fairness says that a message is answered or the
connection is dropped.

### ServerSession

One instance models every connection of the server: each variable is a function of the
connection.

| Variable | In the code |
|---|---|
| `life` | whether the `ServerSession` object exists yet, still, or no more |
| `op`, `ec` | the outstanding asynchronous operation of `_ws` and the outcome its handler will get (`pending` until then); `teardown` is an `async_read` that has met a close frame |
| `buffer` | `_buffer`, as the sequence of message parts in it |
| `textOut` | the text option of `_ws` |
| `link` | the TCP connection, as far as both ends have taken it |
| `sent`, `rcvd`, `part` | what the peer has sent, and how far `async_read` has got |
| `outbound`, `taken` | what has been written, and how far the peer has read |

`Run`, `OnAccept`, `OnRead`, `OnWrite` are the handlers, with `DoRead` and `Release` (the
last `shared_ptr` goes with the handler) as their common parts; the error exit of each is a
disjunct. A session's handlers are atomic because they run on its strand. `ReadPart`,
`AnswerClose`, `TornDown`, `WriteOut`, `AcceptHandshake`, `OpFails`, `Timeout` are Beast and
the kernel, modelled from how the code uses them (marked external in the map). The peer is
arbitrary: it sends, reads, stops reading, and leaves with a close frame, with a FIN, with a
reset or without a trace, at any point, also while it takes its leave with a close frame.

A close frame does not end the read at once. Beast answers it, closes its sending side and
reads until the peer has closed its own (`AnswerClose`; the link goes from `closing` to
`closed` with that FIN of the peer), and only then does the read complete with
`error::closed` (`TornDown`). In between the connection can break, or the timer of the close
run out: the read of a close that was answered in full can fail with another error.

Two things are there because they are where a plausible mistake would show: `async_write`
builds the message from the buffer *at the time it is written*, not at the time it is
started; and `async_read` *appends* to the buffer, part by part.

### Server

Extends the state by that of the main thread (`main`, `config`, `announced`, `acceptor`,
`endpoint`), of the accept loop (`backlog`, `armed`, `ready`) and of the pool (`thread`,
`terminated`), and instantiates `ServerSession` with the same connections. `Construct`,
`Parse`, `StartAccept`, `Spawn` are start-up in its order, with every failure the code goes
on after. `Accept` and `AcceptFails` are the completions of `async_accept`, `OnAccept` and
`Rearm` the handler.

`Server::on_accept` does not run on the connection's strand. It is two steps, the session's
`run()` and then `do_accept()`, between which other threads can already run the session's
first handlers. Inside `run()` no third step is needed: nothing of the session is touched
after `async_accept` has been initiated.

Handlers of sessions are taken by any thread that is polling (`SessionHandler(t, c)`).
There is no action for the return of `io_context::run`: it returns only when there is no
work, and `NeverOutOfWork` shows there always is.

Assumed of Linux and Asio, and modelled accordingly: with no descriptor left, an accept
fails at once even when the queue is empty (Asio tries the call before it waits); a
connection that is reset while it waits is still handed out, and `getpeername` on it gives
`ENOTCONN`, which makes `remote_endpoint()` throw; `io_context::run` does not catch what a
handler throws.

### ClientSession

The chain resolve, connect, handshake, write, read, close. `expires` is the timer of the
`tcp_stream` (`expires_after`, `expires_never`), `guarded` the timeouts of the websocket,
`timeout::suggested(client)`: 30 s for the handshake and the close, none for an open
connection. A timer that covers an operation may fire whenever that operation is
outstanding. Each `OnX` is the success path of one handler; `Fail` is the error path they
all share: print and return, with which the object goes. `Closed` is the end of `async_close`,
which closes the socket before `on_close` is called. The server is arbitrary.

### Client

The command loop (`Command`: prompt, `getline`, one command), `Client::connect` up to
`io_context::run` and its `Return`, which leaves the context stopped. The n-th connect
command makes session n. At the end of the input `getline` leaves the line as it was, so
that the last command, if it had no newline, is carried out again and again: `GetLine`
models that. Session handlers run only inside `io_context::run` and only while the context
is not stopped; the network acts at any time.

### CommandLine

`App::parse` of CLI11 for the application both `CLIParse` functions make: four options of
one text each and a help flag. `args` is what is left of the arguments, `results` the
`results_` of each option, `help` the count of the flag, `missing` the arguments nobody
wanted, `positional` whether `--` was met; `Mark`, `HelpFlag`, `LeftOver` and `Option` are
the cases of `_parse_single`, `Process` is `_process` and `_process_extras`. An argument is
abstracted to how it is recognized (`class`, `name`, `value`) and what it says. `ReadAsMeant`
gives a line its meaning without reading it from the front: a reading gives each argument a
role that fits those before it, every line has exactly one, and what CLI11 makes of the line
is what that reading says.

### Configuration

`Addr` and `Config` without the file system, as operators: a text is what `make_address` and
`std::stoi` make of it; `IpError`, `PortError`, `AddrError` are the exceptions in their
order; `ToText` is the `to_string` that drops whatever came behind the number.

### Setup, Startup

`Setup` is what the rest of a program may rely on: start-up ends, and the program then has
an accepted address or never had any but the default. `Server!Parse` is that one step:
`Server!Plan` is the instance of `Setup` that the server implements, as `Startup` does.

`Startup` is the detail: the command line, then `CLIParse` to its end.

| Variable | In the code |
|---|---|
| `main` | how far the main thread is: before one of the looks at the file system, or over |
| `wanted` | the arguments of `Addr(ip, port)` and `setPath(path)`: options, or members of the document |
| `byFile` | whether that happens inside `loadFromFile`, and so inside the `try` |
| `config` | the configuration of `setConfig`, all of it or none |
| `status` | how the process ended: `exit(-1)`, or an exception nobody caught |
| `file`, `leadsTo` | the config file, and what the path leads to; `Disturb` changes either at any time |
| `still`, `led` | history: nobody has changed anything; the path led to a directory once |

`Find` is the `exists(configFile)` outside of the `try`, `Load` is `loadFromFile` up to the
path, `Address` makes the `Addr`; `Exists`, `IsDirectory`, `Permissions` and `Canonical` are
the four looks of `setPath`, each on the file system of its own moment. That a path which
has gone passes the test of its permissions (`perms::unknown` has every bit) is modelled.

### Exchange

One `ClientSession` against the `ServerSession` of its connection, by `INSTANCE` of both
modules. Its own state is `terminated`, the end of the server process, and `disturbed`, a
history variable; and it says which steps are one step or cause and effect: `Say` is `Written`
of the client and `PeerSend` of the server's peer; `Reply` is `WriteOut` and `ServerSends`;
`Listen` is `ReadAnswer` and `PeerTake`.

The close handshake is four steps: `SendClose` (the client's frame), `AnswerClose` (the
server's answer and its FIN reach the client, while the server reads on), `CloseAnswered`
(the client's `async_close` is done, and its FIN goes out) and `TearDown` (the server's read
completes with `error::closed`). The client can be over and have printed before the last
one, which can fail. Whoever closes a socket in another way is noticed by the other side, as
a FIN or as a reset.

`Serve` is the accept loop with its session, `Throw` the accept loop with a connection that
was reset meanwhile: as in `Server`, that ends the process. Then the server does nothing more,
and its sockets go (`ServerEnds`). `Break` is the network, at either end alone, on a
connection in any state, with a reset or without a trace; the other end may lose it later
or not at all. So each module's arbitrary environment becomes the other program:
`ImplementsClient` says that the server never does to the client what was not foreseen. That
the server's side is a `ServerSession` needs no property: every change of its variables is an
action of that module by the way this one is written.

### JsonReader

What stands behind `file >> j`: `states` is the stack of `sax_parse_internal`, `at` the
point of its loop at which the next token is fetched; `refStack` and `element` are
`ref_stack` and `object_element` of `json_sax_dom_parser`, `tree` its document, as a
function from paths to nodes. A reference is the path it leads to, so that one to something
destroyed is a path outside of the domain. `Put` is an assignment to a reference: what was
there goes with all below it.

### JsonText

What a text says, with neither a stack nor a reference. `Follow` gives a token its place, a
path in the document, from the token before it and its place alone; `Where` does so for all
of a text. A text is a value if all of its tokens have a place and the last one ends the
value at the empty path, and its document is what was said last of each place (`SaidBy`).
`ReadsAsWritten` says that the reader makes just this of a text.

### JsonGrammar

JSON as a grammar, from the parts to the whole: for every number of tokens the values, each
a text with the document it stands for, what can stand in an array and in an object, and
what begins a value or a member. `Row` is what there is of n tokens, made by the rules
(`Container`, `AndElement`, `AndMember`, ...) of what there is of fewer; `Grammar` is the
recursive function that collects the rows. `ReadsJson` says that the reader reads this and
nothing else. `MCJsonReader` puts the two accounts of a text beside each other.

## 4. The runs

| Run | Instance | What it shows |
|---|---|---|
| `session` | 1 connection, 3 messages, window 1 | the echo is faithful, and a clean close loses no reply; the inductive invariant `EchoInv` holds; the session implements `EchoService` with its liveness; every departed peer's session is released; no handshake is awaited for ever |
| `pool_safety` | 3 connections, 2 threads, 2 sockets, 1 message | one accept, never out of work, every connection in one place, the sessions undisturbed by the pool |
| `pool_live` | 2 connections, 2 threads, 1 socket, 1 message | with sockets scarce, every connection is served and every departed one released |
| `client_session` | 1 session, 2 replies | the chain of one session against any server |
| `client_loop` | 3 connect commands | no prompt within an exchange, and back to the prompt after it, across commands |
| `exchange` | 1 client with its session, window 1 | the two programs together: what is printed is what was sent, the ends agree on a success, only interference loses a text, the server is what the client foresees, and every exchange ends unless one side vanishes |
| `startup` | lines of up to 3 arguments, 9 config files, 5 ends of the path | which arguments are values, what is accepted, which mistakes end the process how, also when the file and the path change meanwhile; start-up implements `Setup` |
| `json_reader` | files of up to 10 tokens, 2 strings | the two stacks stay in step, no reference dangles, and what is read is what the grammar says, and what the tokens say place by place |
| `peer_reset` | 1 connection | *violated*: a reset before `on_accept` ends the server |
| `listen_address` | 1 connection, 2 addresses | *violated*: the server listens on the default address, whatever it announces |
| `client_waits_forever` | 1 session | *violated*: no timeout on an open connection |
| `client_second_connect` | 2 connect commands | *violated*: the second connect does nothing |

Why the bounds are enough:

- *Messages.* The three messages of `session` differ in everything the session
  can confuse: text in one part, binary in two, and an empty one. Three in a row reach a
  second reuse of the buffer. A window of one makes writes block after a single reply the
  peer has not read.
- *Connections.* Sessions share no variable of the code, so one connection is enough for
  what a session does; `ServerImplementsSessions` and `ServerEchoFaithful` prove the step
  from there to any number of them. Three connections and
  two sockets are needed for `Custody`: two connections hold the sockets while the third
  waits in the kernel's queue and the accept for it fails.
- *Threads.* `max_threads` is 4 in the code. Two are enough for any two handlers to
  overlap; only `on_accept` has more than one step, and `OneAccept` shows that at most one
  thread at a time is in it.
- *Commands.* The first connect changes the context from running to stopped; the second
  and third show what that does to the next.
- *Pairs.* Two exchanges share nothing but what `Server` and `Client` model, and one pair is
  the whole of what `Exchange` adds; its theorems are for any number of them.
- *Lines and texts.* The arguments of the alphabet differ in how they are recognized: an
  option with and without a value, another option, a word, `--`, help. Three in a row let an
  option take each of them for its value, and repeat, and stand last; the telling lines add
  the texts that `Addr` and `Config` decide differently (an IPv6 address, `80abc`, 65535,
  65536, -1, an empty text). A config file is one of five that are unusable and four
  documents; the path leads to one of three targets, to nothing, or beyond a closed directory.
- *Tokens.* Ten are needed for a member that is a container with something in it and is then
  read over: `{ "ip" : [ null ] , "ip" :` and a value. Two strings tell the same key from
  another one.

Symmetry is used in `pool_safety` alone, on connections: no formula of that run
distinguishes them, and the run checks no liveness (`ImplementsSessions` is of the form
`Init /\ [][Next]_v`). Deadlock checking is off where the system really may stop: when the
process has ended, or every connection is gone and the peers are done.

Each property of a passing run has a mutant in the module of the definition it changes: an
operator beside the original (commented `Mutant:`) that changes it as a plausible bug would,
and under which TLC finds the property violated. `PROJECT.json` lists them.

## 5. Fairness

- *Io.* Weak fairness of what the kernel and Beast do by themselves: data that has arrived
  is read (except a message of a peer that vanished, which may never have arrived), what
  fits the window is sent, a broken connection is reported, timers fire. Nothing is assumed
  of a peer, a server or a user: they need not send, read, leave or type.
- *Handlers.* The `io_context` keeps ready handlers in a FIFO queue. A handler that is ready
  therefore gets its turn, even while failing accepts put `on_accept` back into the queue
  without end. In `Server`, where a handler can run only while some thread is polling and
  threads are busy now and then, this is *strong* fairness of each handler; with weak
  fairness the loop of failing accepts could starve the sessions, which the queue
  excludes. In `ServerSession` and `Client`, where a ready handler stays enabled, weak
  fairness says the same.
- *Threads.* A thread in the middle of a handler gets on (`Rearm`, `Return`), and so does
  the main thread during start-up. In `Startup` the main thread is all there is: it gets on,
  whatever others do to the files.
- *Exchange.* Each side's own steps are fair as in its module: its handlers, what Beast and
  the kernel do for it, its timers. So is the accept loop (`Serve` or `Throw`) as long as the
  process lives: `EverServed` shows of the server that it comes to every connection, or the
  process has ended. That the sockets of a process that has ended are closed (`ServerEnds`) is
  fair, too: the kernel does it. The steps in which one side waits for the other (`Connect`,
  `Upgrade`, `Upgraded`, `CloseAnswered`) are not fair: the network may sit on them. A timer
  covers each of them, which disturbs the exchange.

`EverServed` has an assumption of its own: sockets become free again and again. The code
does not bound how long a peer may stay, so without it a connection can wait for ever.

## 6. What is proved

All theorems are for every value of the constants, under the `ASSUME`s of the modules: the
number of threads, descriptors and the window are positive, messages are text flags with
sequences of parts, the null values are not values, a key is not a position in an array.

*ServerSession* (`ServerSessionProofs`). `EchoFaithful` is not inductive: that reply n is
message n depends on what is in the buffer when it is written. `EchoInv` adds, for each
phase of the loop, how buffer, counters and messages fit: while reading, as many replies as
completed reads, and the buffer holds exactly the parts of the next message read so far;
while answering, one reply fewer and the buffer holds exactly that message. The proof (`EchoStep`)
has one step per action; `SessionTypeOK`, `SessionEchoFaithful` and `SessionClosedMeansAnswered`
follow. `SessionImplementsEcho` shows that the safety part of `EchoService` is implemented:
`WriteOut` maps to `Answer`, `PeerSend` to `Ask`, `Release` to `End`, every other step to a
stutter; the invariant is what makes `WriteOut` an answer.

*Server* (`ServerProofs`). `ServerOneAccept` by a case for every way the chain moves (from
armed to ready, from ready to a thread, from the thread to armed), for any number of threads;
`ServerNeverOutOfWork` follows from it. `ServerImplementsSessions` shows that each step of
the server is a step of `ServerSession` or leaves the sessions alone. With it the sessions'
theorems, instantiated, hold of the server: `ServerEchoFaithful`, `ServerClosedMeansAnswered`,
the sessions' part of `ServerTypeOK`, and `ServerImplementsEcho`, by which the server, with
its accept loop and its threads, is the `EchoService` of every connection.
`ServerImplementsSetup` joins it to the other end: the start-up that `Server` goes on from is
the one that `Startup` implements (its `Parse` is one step of `Setup`, the rest a stutter).
`ServerCustody` counts nothing: `CustodyInv` says that a connection without
a session waits in the kernel's queue or with the accept, in one of them and once, and that
only a live session has an operation; with `OneAccept` at most one is with the accept.

*ClientSession* (`ClientSessionProofs`). Both properties follow from `ChainInv`:
`ClientSessionPrintedIsAnswer` needs that the buffer, once filled, holds the first answer;
`ClientSessionNoDeadline` needs that `expires` is off from the handshake on, and that a
socket is closed only with the object, by a timer, or by the close handshake at its end.

*Client* (`ClientProofs`). `ClientQuietAtPrompt` follows from `QuietInv`: at the prompt, and
whenever the context is stopped, each session is new, over, or still at the resolver. A
return from `run` keeps it because the context stops only when no session has work. The
sessions' part of `ClientTypeOK` is carried over from `ClientSession` like the server's.
`ClientImplementsSessions` shows that whatever the loop does its sessions are those of
`ClientSession`; with it `ClientPrintedIsAnswer` and `ClientNoDeadline` hold of every one of
them.

*Startup* (`StartupProofs`), for every set of texts, lines, documents and targets.
`SetupInv` adds to the types what is known of `wanted` and `config` at each point, and that
what has passed for a directory was one once: `StartupRunsWithSense`, and
`StartupImplementsSetup` (the safety part), follow. `StartupStableVerdict` needs, while
nobody has touched the file system, what each look has seen (`StableInv`), and which of the
ways to end belongs to which source of the configuration (`EndInv`).
`StartupVerdictDespiteChanges` is for a file system that changes at any time (`RaceInv`): only
what comes from a config file is inside the `try`, what comes from the options stays what they
say, and the last look at the path is the one that counts. `StartupReadAsMeant` is about lines of
any length and yet no induction over them: `MeaningInv` says, at each step of the parser, that
the arguments read so far are the front of the line, that they have exactly one reading, and
that the flags, the arguments left over and the results of each option are what it says; one
more argument, or two when an option takes the next, extend it in one way.

*Exchange* (`ExchangeProofs`). Each step is a step of the one side, of the other, or of both.
That of the server's side is the lemma `ServerSafe`, by which the theorems of
`ServerSessionProofs` hold here; among them `EchoFaithful`, by which the one reply is the one
message (`ReplyIsMessage`), and only with that is a step of the server one the client was
modelled to expect: `ExchangeImplementsClient`. The theorems of `ClientSessionProofs` follow,
and `ExchangePrintedIsSent` and `ExchangeTypeOK` with them. `ExchangeEndsAgree` needs
`AgreeInv`, how far each side must have come when the other is where it is, in both
directions and through the four steps of the close: `AgreeConn` for what always holds, and
`WellConn` for an exchange with which nothing has interfered, in which no operation of either
side fails and no socket is closed but after the close handshake. `ExchangeLostOnlyIfDisturbed`
follows from the latter.

*JsonReader* (`JsonReaderProofs`), for files of any length and any depth. The assertions are
not inductive: `ReaderInv` adds that the two stacks agree level by level (`StackInv`), that
each reference leads to a container one level below the next (`RefsInv`), and that from the
key to the value `element` is the member of that key in the object on top (`ElementInv`).
`ReaderAssertsHold` and `ReaderReferencesGood` follow. `ReaderDocumentGood` is inductive
with it: a node keeps its place as long as its parent
stays and keeps what is in it, an assignment destroys a node only with all below it, and
a new element finds its position free because no position is beyond the size.

`ReaderReadsAsWritten` is the correctness of the reader for files of any length: it accepts
the texts that are JSON, rejects the others at the first token that is wrong, and makes of a
text the document that it stands for. Besides the two invariants above it needs three more.
`AtPlace` says where the last token must be for the parser to be where it is, so that the
two stacks, the references and `element` come to no more than one path. `NewestInv` says
that each container being filled is the last element, or a member, of the one around it: by
that the place of a value that has ended says which kind of container it is in, and which
element comes next. `Documented` says that the document is what has been said last, but for
a member whose value comes next; an assignment destroys just what a token says anew
(`PutDocumented`). `Where` is a recursive function of the text, and that it is defined for a
text of any length is part of the invariant as well (`IsWhere`): one token more adds one
place, so that the induction is one over steps and not over the text.

*JsonGrammar* (`JsonGrammarProofs`). `ReaderReadsJson` is the same correctness with the
grammar for the measure. It rests on `ReaderReadsAsWritten`, and on the agreement of the two
measures: the places, which follow from the front as the parser goes, allow just what the
rules, which build from the parts, make. That agreement is induction over the text. The library's induction theorems take an
operator as a parameter, which the provers cannot instantiate; `Inductively` is about a *set*
of numbers instead, and follows from the least element that `WFMin` gives. On it rest, in
this order:

- `GrammarIs`: the recursive function `Grammar` exists and is what its equation says, row by
  row (`Built`), so that each rule becomes a fact about the values of n tokens (`Of(n)`).
- *What is made is placed.* `Reads`, `Walks` and `SaysAt` take a stretch of a text: if its
  tokens are a value, or begin one, then the places lead over it from any place where a value
  is due, and say of the places below just the document of that value. By induction over the
  number of tokens, one lemma for each rule.
- *What is placed is made.* `Understood` says of each place what the grammar has made up to
  that token: the values, lists and members that have ended, inside the containers that have
  begun (`Context`, a chain of `Lead`s down the path). One token more keeps it, by a case for
  each rule of `Follow` (`UnderstoodStep`).
- `WalkDecides` and `ViableIs` put both together. The document is the one of the grammar,
  because both say the same of each place (`SameDocument`), and `ReaderReadsAsWritten` says
  the reader's is that.

One remark on the prover. tlapm 1.4.5 tells its SMT solver that `Len` of anything is a
natural number and `DOMAIN s = 1..n` just if `Len(s) = n`; together with a function over
another domain, that is contradictory, and a leaf that mentions both could be proved for that
reason. All proofs have therefore been run a second time with the first of these axioms
restricted to sequences, which removes the contradiction (let `Len` be -1 of what is no
sequence). Every leaf holds without it.

## 7. Only model-checked

- Liveness (`ImplementsEcho` and `ImplementsSetup` beyond their safety parts,
  `DepartedReleased`, `HandshakeBounded`, `EverServed`, `PoolReleases`,
  `EndsUnlessUnanswered`, `PromptReturns`, `Completes`, `EndsUnlessSilent`, `ServerLetsGo`):
  fairness and `ENABLED` are out of the prover's reach.

Every other property of the passing runs is stated by a theorem of section 6.

## 8. Findings

Four places where the code does not do what it, or its documentation, says. Each is a run
that TLC finds violated.

1. `peer_reset`, `server/server.cpp:87`: `remote_endpoint()` throws on a connection that has
   been reset while it waited; nobody catches it, and the server terminates.
2. `listen_address`, `server/server.cpp:7`: the constructor binds the default address; `-i`,
   `-p` and the config file only change what is announced.
3. `client_second_connect`, `client/client.cpp:29`: no `restart()`: the second `connect` of a
   program run does nothing.
4. `client_waits_forever`, `client/session.cpp:33`: "the websocket stream has its own timeout
   system", but it has none for an open connection of a client: a server that vanishes blocks
   the client.

Seen on the way, and plain enough from the code not to need a run:

- `client/session.cpp:76`: "Process the response" does nothing; the answer is printed by
  `on_close`, and lost unless the close handshake succeeds, too (`:86-90`).
- `server/server_cli.cpp:31` ends with `exit(-1)` after `--help`, although `App::exit`
  returns 0 for it (`common/libs/CLI11.hpp:1562`).
- `common/config.cpp:57` tests the permission bit of the owner, whoever runs the program; the
  message (`:60`) says that the path cannot be read.
- `server/server.cpp:32`: if the port is taken, the constructor returns with an acceptor that is
  open and not bound; the server announces itself all the same, and every accept fails at
  once in an endless loop. The loop is in the model (`Server`, `acceptor = "open"`), and
  `OneAccept` and `NeverOutOfWork` hold in it: no text of the repository says what else should
  happen.
- `client/cli/client_cli.cpp:65`: the result of `getline` is not looked at. At the end of the
  input the loop goes on for ever, without waiting, and if the last line had no newline its
  command is carried out again each time. It is in the model (`GetLine`).
- The default port is 5555 and `README.md:69` says 8080; the default path is `/` and
  `README.md:71` says the current directory.

## 9. Not modelled

- The lexer of json.hpp, which makes tokens of characters (escapes, UTF-8, numbers): a token
  it rejects is the mark `bad`. The rest of json.hpp (serialization, binary formats,
  iterators, patches) and of CLI11 (subcommands, positionals, lists, validators, config
  files, environment) is not used by the programs: this is why the share of the source that
  is modelled looks small, for the two vendored headers are 38 of its 39 thousand lines.
- Clusters of short options (`-hp`, of which CLI11 takes the flag and puts `-p` back): an
  argument is one flag or one option, with or without a value attached (`-p80`, `--port=80`).
- The config file as anything but a regular file: reading it is one step.
- `sendfiles` and `download`: empty functions in the code. The commands that print are
  one action, `Other`: they change no state.
- What is printed, except the answer of the server (a property is about it). In particular
  the console output of the pool's threads, which may interleave.
- Build scripts.
- Which errors `fail()` prints and which (`operation_aborted`) it keeps to itself.
