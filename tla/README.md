# A verification of the Computer Networks Lab programs

TLA+ models of the programs in this repository, checked with TLC, and theorems
about them, proved with TLAPS.  The repository is a course's worth of small
network programs in C, Java, Python, shell and C++ (ns-3).  None of them shares
code at run time with another directory; what they share is a way to go wrong:
threads with plain flags, byte streams read as if they were messages, sockets
that close at the wrong moment.

The first part of this file is the inventory, the second the modules and how they
fit together, the rest says what is modelled, checked and proved.

## 1. Inventory

| Component | State | Operations | Interaction |
|---|---|---|---|
| **Two-peer chat** `week0/beej/chat` | globals `END_COM`, `HEAR`, `TALK`; one buffer per thread | `hear`, `talk`, `chat` (poll, kill, join) | two processes, three threads each, one TCP connection |
| **Group chat server** `week0/beej/group_chat/server.c` | `clients[MAX_NUM_CLIENT]`, `client_id`, mutex `shouting`; a buffer per thread | `main` (accept, enter, greet, create, count), `hear_all`, `shout` | one thread per client, all write to all sockets |
| **Group chat client** `week0/beej/group_chat/{chat,client}.c` | as the two-peer chat | as the two-peer chat | reads greetings and shouts of different lengths from one stream |
| UDP variant `week0/beej/chat/udp` | as the two-peer chat | `recvfrom`, `sendto` | never gets beyond its first call |
| Hello World server `week0/beej/simple` | none but its children | accept, fork, send | a child per connection |
| Fork-based chat `week0/q3` | one buffer per process | parent writes, child reads | two processes share one socket |
| Exercises `week0/q1`, `week0/q2` | none | one request, one reply | lock step |
| Java `lab1/Program1`, `lab1/Program2` | the current line; a handler per client | `readUTF`, `writeUTF`, `Exit` | stream, thread per client |
| Java `socket_programming_java_files` | Q4: a vector of handlers, a logged-in flag | request and reply, lock-step chat, chat server | stream or datagrams, thread per client |
| Python `socket_programming_python_files`, `Sockets_Python` | p4: the list `clients` | p4: `check`, `transmit`, `receive` | several threads on one UDP socket |
| `Network-Namespaces` | links, addresses, routes, `ip_forward` | shell commands in order | a topology, then pings |
| `ns3`, `scratch` | `MyApp`: `m_running`, `m_packetsSent`, `m_sendEvent` | start, stop, send, schedule | the simulator's event queue |
| `Traffic-control` | none of its own | `tc` commands | |

What makes each one correct, and what is hard about it:

* **Two-peer chat.**  A process should end after `#END` and for no other reason
  of its own; an `#END` typed here should end the process there.  Hard: the
  flags are read and written by three threads without synchronisation; a `recv`
  may return part of a frame or nothing; `pthread_kill` with SIGTERM ends the
  whole process, and its socket with it; end of input is not looked at.
* **Group server.**  A client should be greeted first and by its own number; a
  line should reach everybody else, under the right name, and in the same order
  for all.  Hard: `shout` reads `client_id` while `main` is taking a client in;
  the thread of a client starts before the client is counted; sends block with
  the mutex held; clients leave, and their entries stay.
* **Group client.**  What several shouts print when one `recv` returns them.
* **Fork-based chat, Java handlers.**  Who notices that the other side is gone.
* **Python p4.**  The list of clients under several receivers; UDP losing,
  duplicating and reordering.
* **p3 and the lock-step Java programs.**  Alternation when a message is lost,
  or when one side stops first.
* **Namespaces.**  Which pairs can reach each other after a script has run.
* **MyApp.**  One chain of scheduled sends, and none after a stop.

## 2. The modules

| Module | Models | Composed with |
|---|---|---|
| `Chat` | the two-peer chat, from the connection on | |
| `GroupServer` | the group server, from the first accept on | `GroupRoom` maps it to `Room` |
| `Room` | what the group server promises its clients | |
| `Programs` | `main` of all sixteen C programs, from the arguments to the end of the first exchange, and the simple server | the chats begin where it ends |
| `ForkChat` | the chat of q3, from the fork on | |
| `Simulation` | the ns-3 programs on the simulator's event queue, with `MyApp` | |
| `PyGroupChat` | the Python group chat p4 | |
| `StreamLabs` | the Java exercises over TCP, the Java chat server, and p2 | |
| `DatagramLabs` | the Java exercises over UDP, p1 and p3 | |
| `ChatProofs`, `GroupServerProofs`, `ProgramsProofs`, `ForkChatProofs`, `SimulationProofs`, `PyGroupChatProofs`, `StreamLabsProofs`, `DatagramLabsProofs` | theorems | each extends the module it is about; `GroupServerProofs` is about `GroupServer` and `GroupRoom` |

Each module takes its sizes as `CONSTANTS` with a named assumption, has one
action per operation of the code, and uses no recursive operator, so that it can
be proved about as well as checked.  `MC*` modules and their `.cfg` files are the
instances for TLC.

Worth doing next: which pairs of namespaces a topology script connects.

## 3. What is modelled

### `Chat`: the two-peer chat

Each of the peers `"client"` and `"server"` has three program counters, `hpc`
(`hear`), `tpc` (`talk`) and `mpc` (the loop of `chat`), and its own copy of the
three globals.  The model starts where `chat` has created both threads.

| Code (`chat.c`) | Actions |
|---|---|
| `hear`, 7-22 | `HearStart` (test of line 11), `Recv` and `RecvNothing` (12), `HearCheck` (16-20 and the next test), `HearClear` (21), `HearReturn` |
| `talk`, 24-39 | `TalkStart`, `Fgets` and `FgetsEof` (29), `Send` and `SendReset` (30), `TalkCheck` (34-37), `TalkClear` (38), `TalkReturn` |
| `chat`, 50-65 | `Poll` (lines 51 and 55 at once), `KillTalk`, `KillHear` (52, 56), `JoinTalk`, `JoinHear` (62, 63) |
| the user, the kernel | `Fgets` chooses a line, `FgetsEof` is a user who ends the input; `Interrupt`; `Die` closes the socket of a process that ends |

* **The stream.**  `net[p]` holds the units under way to `p`.  `send` puts a
  whole buffer of `BUFFER_LEN` units into it, the rest of an earlier and longer
  line included, and blocks while it does not fit; `recv` takes any non-empty part
  that has arrived and overwrites only that much of `hbuf`.  A unit is a run of
  bytes that may be as short as one: `#END` is the sequence `Word` of units, a
  buffer is taken for it when it begins with them (`Says`), and so a `recv` that
  cuts `bye #END` in two, or that lays fresh bytes over stale ones, may find an
  `#END` that nobody typed.  `short[p]` remembers that a `recv` of `p` returned less
  than a frame.
* **What ends a process.**  `pthread_kill(..., SIGTERM)` ends the whole process
  unless the thread has already returned, when it does nothing and `main` goes on
  to the joins.  A `send` after a reset may raise SIGPIPE.  A process that ends
  with unread data resets the connection, and so may a frame that comes after it
  has ended; what was under way to the other peer may be lost with that, from
  any byte on (`Heads`).  `Die` also puts the dead process's variables back to one value.
* **End of input.**  `fgets` returns NULL once the input has ended.  In the model it
  may do so at any time for the users in `Quitters`, also before a line that comes
  later: more than the code does, without a variable for it.
* **Merged steps.**  The test of a loop is taken together with the end of the
  iteration before it.  Between the two a thread only prints.  The value tested is
  the one of that moment; a flag is never set back to 0, so the merge loses only
  the case that the other thread sets `END_COM` within that gap, which then looks
  like the same event right after the test, before the next blocking call.  The up
  to four reads of one poll are one look at both flags, which only ever fall: what
  the four decide is what a look at the moment of the last decides.
* **Left out.**  The start-up, which `Programs` has, and what is printed.
  The bytes that a fresh thread stack holds are one value, `Junk`, that is no
  `#END`: the kernel hands out zeroed pages.

### `GroupServer`: the group chat server

Slots are the indices of `clients`.  `mpc` is where `main` is; `pc[k]` is where
the thread of slot `k` is, with its locals `sockfd`, `id`, `buffer`, and the loop
variable `i` of `shout`.

| Code (`server.c`) | Actions |
|---|---|
| `main`, 121-145 | `Accept` (123), `Entry` (134-135), `Greet` (139), `Spawn` (142), `Count` (144) |
| `hear_all`, 46-61 | `Start` (47-48), `Recv`, `RecvEof`, `RecvError` (52-56), `Lock` (57), `ShoutEnd` (59) |
| `shout`, 33-44 | `ShoutNext` (the test of line 37, which reads `client_id` anew, and 38), `ShoutSend` (40) |
| the clients | `Connect`, `Say`, `Read`, `Hang`, `Close` |

* **The sockets.**  `conn[c]` is `"open"` while the client lives, `"fin"` after an
  orderly close, `"rst"` after a close with unread data, `"dead"` once the reset
  has been noticed.  `SendTo` blocks while `SockBuf` items of an open connection
  are unread, is lost on `"fin"` and `"rst"`, and raises SIGPIPE on `"dead"`.
  `recv` on a closed connection returns 0, which the code does not look at:
  `RecvEof` goes on to shout the old buffer.  On `"rst"` it returns -1 and the
  server exits.
* **Clients that hang.**  The loop of the group client is that of the two-peer chat
  (`group_chat/chat.c`, 50-60): if both its threads end between two polls, the
  process lives on, and nobody reads its open socket (`Hang`, for the clients in
  `Hangs`).  A send to it blocks for good once its buffer is full.
* **The end of the array.**  `Entry` past the last slot sets `server` to
  `"corrupt"` and the model stops there: what the write hits is the linker's.
* **Histories.**  `heard[c]` is everything ever sent to a client, `read[c]` how
  much of it the client has read; `log` is the order in which the mutex was taken.
* **Abstractions.**  A frame is received whole (clients send `BUFFER_LEN` bytes
  and the server asks for as many); the malloc and the formatting of a shout are
  the record `[id, text]`.

### `Room`, `GroupRoom`: what the group server promises

`Room` is a group chat without server, threads or sockets.  A client is greeted
with a number nobody else has, joins, and leaves when it likes.  A line is spoken
only when nobody is still waiting for the one before; then every member but its
author waits for it, and hears it once, under its author's number.  A newcomer may
or may not be in time for the line that is being heard.

`GroupRoom` says that `GroupServer` implements it.  `heard` and `log` are those of
the server.  A client is a member when `client_id` has passed its entry and its
connection is open, and has left when the connection is neither; it waits when
some thread shouts, the `i` of that thread has not passed the client's entry, and
the entry is not the speaker's own (`Awaits`).  `Greet` is the greeting, `Count`
the joining, `Lock` the speaking, `ShoutSend` the hearing, `Close` the leaving;
everything else, the sends to clients that are gone included, is a stutter.

### `Programs`: every C program from `main` to its first exchange

The C programs of week0 come in pairs of a server and a client, the labs, and
each is a straight list of system calls whose failure ends it.  A program is the
sequence of its calls, its *script* (`Q1TcpServer`, ..., `UdpChatClient`); several
processes run the server's and the client's script on one host and one port.
`pc` is the call a process is at, `fate` how it ended.

| Code | Actions |
|---|---|
| arguments, name resolution, `socket`, `setsockopt` | `Setup`: all of them succeed or one ends the program |
| `bind`, `listen`, `connect`, `accept` | `Bind`, `Listen`, `Connect`, `Accept` |
| q1, q2 over TCP | `Ask`, `AskNothing` (standard input is closed), `AskDate`, `Read`, `Reply`, `Receive`, `Exit` |
| q1 over UDP | `SendHello`, `RecvHello`, `SendGreeting`, `RecvGreeting` |
| simple | `Fork` (and the parent's `close`), `KidClose`, `KidSend`, `Receive` |
| group server | `Spawn`: a client is taken in, and back to `accept` |
| UDP chat | `Unconnected`: the failing `sendto` or `recvfrom` |
| the user | `Kill` |

* **The port.**  `bound` are the sockets bound to it; two of them only if both set
  `SO_REUSEADDR` and none listens.  Without the option a connection that the
  server closed first holds the port (TIME_WAIT).  `listener` is the one socket
  that listens; `listen` of a second one fails and nobody looks.
* **Connections.**  A listening socket completes connections by itself (`queue`);
  it is shared with forked children until they close it, and the last close
  resets whoever is still in its queue (`Release`).  `Dropped` is the close of an
  accepted connection: an orderly end, or a reset if a request was unread.
* **UDP.**  A datagram may be lost in either direction.
* **Left out.**  Texts, the date, printing; failures of `read` and `send` other than
  of a reset; `fork` fails or not, without a reason.  After `"chat"` the other
  modules go on.

### `ForkChat`: the fork-based chat of q3

Each peer has a parent, which reads the keyboard and writes, and a child, which
reads the connection and prints.  `parent` and `child` say where they are or how
they ended.  The connection of a peer is closed when both have ended (`Closed`).

| Code (`server.c`; `client.c` is the same five lines earlier) | Actions |
|---|---|
| 68, 86-88 | `Fork`, `ForkFails` |
| parent, 75-85 | `Fgets`, `FgetsEnd` (the branch for END), `Write`, `WriteReset` (an error, or SIGPIPE) |
| child, 70-74 | `Read`, `ReadEof` (0 is not negative: the old buffer is printed again), `ReadReset`, `Printf` |
| the user | `CloseStdin`, `Signal` |

`sent` and `got` count the frames a parent wrote and the frames a child printed
whole; `faulty` is a history of failed forks and signals.  A parent writes
`BUFFER_SIZE-1` bytes at once, but a `read` returns any part of what has arrived and
overwrites only that much of the child's buffer; the count is not looked at, and
the `memset` at the end of the loop has its arguments swapped and clears nothing.
After a short `read` (`short`) the child's buffer begins in mid-frame, often with the
zeros after a line, at which `printf` stops: what it prints then is left open.  A reset
may lose the rest of a stream from any byte on, as in `Chat`.

### `Simulation`: the ns-3 programs

A program is what `main` leaves behind when it calls `Simulator::Run`: the list of
its applications in the order of their nodes, each with its start, its stop, the
sink it connects to, the delay of the path, and for `MyApp` the packet count and
the time of one packet (`Wait`, exact in
microseconds for the rates used).
`queue` holds the scheduled events; the simulator takes the first by time and,
within one time, by the order of scheduling (`First`).

| Code | Definitions |
|---|---|
| `main` of `dumbbell`, `fifth` (two copies), `tcpvariants`, `tcp-bulk-send` (two copies), `bulk-send`, `star`, `onoff` | `Dumbbell`, `Fifth`, ... `OnOff` |
| `MyApp::setup`, `StartApplication`, `StopApplication` | `MyApp`, `StartApplication`, `StopApplication` |
| `sendPkt`, `scheduleTx` | `SendPacket`, `Due`, `Wait` |
| `Application::DoInitialize`, `Simulator::Stop` | `Scheduled`, `EndSimulation` |
| the library's sinks and sources | `StartLibrary`, `StopLibrary`, `Syn` |

Of the network only the first packet of each connection is there, the SYN: it takes
the time of the links on its path, each its latency and the transmission of 58 bytes
at its rate (`Hop`), and then finds the sink listening or is refused.  Both are
options: `--rate` and `--latency` of `dumbbell` are those of the first and the last
link of a path of three, `--bandwidth` and `--delay` of `tcpvariants` those of the
second of two (`Rates`, `Latencies`).  Queues, losses and windows are the
simulator's and not modelled; that a packet of another source is ahead of a SYN on
the shared link of `dumbbell` is left out, and `RatesAssumption` keeps to rates at
which two sources do not fill that link of 10 Mb/s (5 Mb/s each at most).

### `PyGroupChat`: the Python group chat

An empty datagram is a hello, also one that comes of an empty line.  Whoever takes
a hello enters the sender and starts one more thread; every thread receives from
the one socket, and `check` and `receive` are the same loop.

| Code (`p4_server.py`) | Actions |
|---|---|
| 61-63 | `Bind` |
| 36 and 51 | `RecvFrom` |
| 39 and 56, 40 and 57 | `Test`, `AppendAddr` |
| 41 and 58 | `Spawn` |
| 45-47 | `Transmit`, one address at a time: Python's loop over a list goes by index and sees what is appended |
| `p4_client.py`, 24-36 | `SayHello`, `Say` |

The threads that wait in `recvfrom` are alike (`receive` overwrites the address it
was started for), so the first of them takes the datagram.  All runs on
127.0.0.1, where datagrams keep their order and are lost only when the socket is
full or not yet bound.

### `StreamLabs`: the Java exercises over TCP

Server and clients are loops of reads and writes around one variable `line`.  What
sets the exercises apart is the order of the calls, where the closing word is
looked for, and what an exception does, so each program is a table: its calls, the
call its loop starts at, and whether an exception leads back to the loop or ends
the process.  One action per call walks the tables.

| Exercise | Code | Programs | The server takes |
|---|---|---|---|
| `chat` | `Q4/0` | `ChatHandler`, `ChatClient` | each client with a thread, listed in `ar` |
| `date` | `lab1/Program2` | `DateHandler`, `DateClient` | each client with a thread |
| `time` | `Q2/0` | `TimeServer`, `TimeClient` | the clients one by one |
| `lines` | `lab1/Program1` | `LinesServer`, `LinesClient` | one client |
| `talk` | `Q3/0` | `TalkServer`, `TalkClient` | one client |
| `hello` | `Q1/0` | `HelloServer`, `HelloClient` | one client |
| `ask` | `p2` | `AskServer`, `AskClient` | one client |

| Code | Actions |
|---|---|
| `new ServerSocket`, `accept` (and `ar.add`, `start`), `new Socket` | `Start`, `Accept`, `Connect` |
| `readLine` of the terminal | `Type`: a word, a line, one too long, or the end, whose null kills the process |
| `writeUTF` of the line, of an own text | `Write`, `Say` |
| `readUTF` | `Read`, into `line` (`read`) or printed (`skip`) |
| `equals`, `close` and the end | `Test`, `Exit` |
| `catch` | `Catch` |
| the user | `KillClient`, `KillServer` |

* **Exceptions.**  `readUTF` throws at the end of the stream, after everything that
  was sent; `writeUTF` throws for a string of more than 65535 bytes (a line of a
  file, the terminal has shorter ones) and, sooner or later, when the other side
  is gone: until its reset has come a write is lost without a word.  The variables
  stay as they are.
* **A loop that throws for ever** is a side at `read` whose peer is gone and whose
  stream is empty: it takes no step the model can see.
* **Left out.**  What dates, prompts and answers say; `flush`; exceptions that
  nothing in the model causes.

### `DatagramLabs`: the Java exercises over UDP, p1 and p3

The same tables over datagrams: `inbox` is what each socket holds, `addr` the
client whose address the server keeps, `lost` a history of the clients that lost a
datagram.  `from` is a receive that keeps the address, `recv` one that does not.

| Exercise | Code | Programs |
|---|---|---|
| `answer` | `Q1/1`, `Q2/1` | `AnswerServer`, `AskClient` |
| `greet` | `p1` | `GreetServer`, `GreetClient` |
| `steps` | `p3` | `StepsServer`, `StepsClient` |
| `reply` | `Q3/1` | `ReplyServer`, `ReplyClient` |
| `chat` | `Q4/1` | `ChatServer`, `ChatClient` |
| `bye` | `lab1/Program1`, `udpBase*` | `ByeServer`, `ByeClient` |

* **Texts.**  `Received` is what `new String(getData())` makes of a datagram: the
  array of 1024 bytes with its zeros, which equals no word; `data` of `bye` stops
  at the first zero.  `TypedAs` puts the name in front, as Q4 does before it tests.
* **Losses.**  All of it runs on one host: a datagram is lost when nobody has the
  port, when the socket is full, or when the process ends before it reads it.

## 4. Properties and runs

Each property is checked in one run on the smallest instance that has all its
cases.  `CHECK_DEADLOCK` is off everywhere because the systems really stop: both
chat processes end, and the server may die or have nobody to listen to.

| Run | Instance | Checks |
|---|---|---|
| `chat` (`MCChat.cfg`) | frames of 2 units, of which `#END` has both, socket buffer 3, two lines, the client's user may end the input or interrupt, fairness | `TypeOK`, `StopsOnlyAfterEnd`, `JoinNeverWaits`, `EndStopsThreads`, `EndReachesPeer` |
| `chat_hang` (`MCChatHang.cfg`) | the same | `EndTerminates`: violated |
| `group_safety` (`MCGroupServer.cfg`) | 3 clients, 2 lines or a line and an echo (`FewShouts`), socket buffer 1, symmetry | `TypeOK`, `GreetedFirst`, `RightName`, `EveryoneHeard`, `OneOrder` |
| `group_liveness` (`MCGroupServerLive.cfg`) | 2 clients of which one may hang, 2 lines, 1 echo, fairness | `ImplementsRoom`, `ShoutEnds`, `ConnectedIsGreeted` |
| `group_full` (`MCGroupServerFull.cfg`) | 2 clients, `MAX_NUM_CLIENT` = 1 | `InBounds`: violated |
| `programs` (`MCPrograms.cfg`) | all 8 labs, 2 servers, 2 clients, 2 kills, fairness | `TypeOK`, `GarbageNeedsFault`, `ConnectedClientEnds` |
| `fork_chat` (`MCForkChat.cfg`) | frames of 2 units, socket buffer 3, 2 frames each way, all faults, fairness | `TypeOK`, `RepeatsOnlyWhenAlone`, `WrittenIsPrinted` |
| `fork_end` (`MCForkChatEnd.cfg`) | frames of 2 units, socket buffer 2, 1 frame each way, no faults, fairness | `EndCloses`: violated |
| `ns3` (`MCSimulation.cfg`) | the programs as they are, 4 rates, 5 latencies, 4 packet counts, 3 numbers of spokes | `TypeOK`, `KeepsPace`, `OneChain`, `SourcesReachSinks` |
| `py_group` (`MCPyGroupChat.cfg`) | 2 clients that say 3 and 2 things, socket buffer 2, 6 threads, fairness | `TypeOK`, `EnteredTwiceOnlyByRace`, `HeardOncePerEntry`, `LineReachesMembers` |
| `streams` (`MCStreamLabs.cfg`) | 7 exercises, 2 clients, buffers of 1 message, kills, fairness | `TypeOK`, `SpinsOnlyWithoutWord`, `OneTurn`, `InStep`, `FallsByVanished`, `WordEndsServer`, `OwnWordLeaves` |
| `datagrams` (`MCDatagramLabs.cfg`) | 6 exercises, 2 clients, sockets of 2 datagrams, kills, fairness | `TypeOK`, `StuckOnlyByLoss`, `ByeEndsServer`, `AskedIsAnswered` |

**Chat.**  `StopsOnlyAfterEnd`: a process stops itself only after somebody typed a
line that begins with `#END`, whatever the buffers still hold of earlier frames, of
longer lines or of a fresh stack, unless a `recv` of its own was short.  After a short
one this is false: the run's second line holds the pieces of `#END` the other way
round, and without the exception TLC finds the process that stops at the end of one
such line and the beginning of the next.
`JoinNeverWaits`: `main` reaches the joins only if the thread it meant to kill
had returned between the test and the kill, and by then both are on their way
out.  `EndStopsThreads`: once `END_COM` is set, the process ends or both threads
do.  `EndReachesPeer`: an `#END` that was sent stops the other process, though
the sender is killed right after, unless its exit resets the connection (at once, or as
the answer to a later frame of the receiver), which may overtake the `#END`, or a `recv` of the receiver was short, after which it looks for
`#END` in the middle of frames.

**Group server.**  `GreetedFirst` (the window between lines 139 and 144),
`RightName` (the pointer read by a new thread, the reused buffer), `EveryoneHeard`
(a shout in progress has left its line as the last item of everyone it passed),
`OneOrder` (all clients hear one order without gaps: each line a client has heard has
its place in the log of the mutex, the places rise, and no shout of another client
lies between the first and the last of them unheard), `ImplementsRoom` (a line is spoken only
when every member has heard the one before; nobody hears a line twice, or one
spoken before it joined unless it was still being heard), `ShoutEnds` (the mutex comes
back, unless the shout waits at line 40 for a client that hangs: then it never does,
and the server is silent for all), `ConnectedIsGreeted`.

**Programs.**  `GarbageNeedsFault`: `simple/client.c` prints its buffer without
looking at what `recv` returned; no order of the child's send and exit, the
parent's close and the client's recv makes it print an uninitialised one, but a
failed fork or a kill does.  A client of q1 or q2, which prints its cleared buffer
when `read` returns 0, does so only after a kill: a server that runs to its end has
answered the client it accepted, and resets those in its queue.
`ConnectedClientEnds`: a client of q1, q2 or simple
that was connected ends, also when its server ended or failed to fork, unless a mute
client (standard input closed, so that it sends nothing) keeps the only server
waiting.  That neither program of the UDP chat passes its first call, and that of two
servers on one port the one whose `listen` failed ends at its `accept`, the module
says in its actions.

**Fork-based chat.**  `RepeatsOnlyWhenAlone` (the endless repetition of the last line
needs a fault and both processes of the other side gone), `WrittenIsPrinted` (with
full buffers in both directions nobody waits for ever, and a line written just before
END is not lost: it is read, and if no `read` was short it is printed).

**ns-3.**  `KeepsPace`: at every instant `m_packetsSent` is what start, stop, count
and rate say; 416 and 52 kb/s make a send and the stop coincide, and
`--max_bytes=0` still sends one packet.  `OneChain`: a stop leaves no send behind,
and no application has two.  `SourcesReachSinks`: in `bulk-send` and `onoff` every
connection is refused, because the second `Start` of the sink, where a `Stop` was
meant, replaces the first; in the others a connection comes about exactly when its SYN
is there before the sink's stop and the end of the simulation, which a rate of 10 b/s
or a latency of half a minute prevents and the defaults do not.

**Python group chat.**  `EnteredTwiceOnlyByRace` (twice in the list only if two
hellos of one client were between test and append at once), `HeardOncePerEntry`
(the list grows while several threads walk along it, and still nobody hears a line
more often than he is entered), `LineReachesMembers` (a line taken reaches all who
are entered by then).  That one client's lines keep their order is not so, and
nothing says it is.

**Exercises over TCP.**  `SpinsOnlyWithoutWord`: a thread that throws for ever has
lost a client that never said the closing word after its name; a killed client, a
terminal that ended, the name `logout`, and a name that `writeUTF` refused, so that
the `logout` after it is read as the name, leave such a thread.
`OneTurn`: in Q3
the turn is in one place, and it is lost, with both sides reading for ever, only by
a line of the server's user that `writeUTF` refuses.  `InStep`: the client of
Program2 never prints a prompt for an answer.  `FallsByVanished`: the date server of
Q2, whose `main` throws what a write throws, ends only by a client that vanished
before its answer.  `WordEndsServer`, `OwnWordLeaves` (who types the word comes out
of the loop, also by an exception; in Q3 this is the server alone).

**Exercises over UDP.**  `StuckOnlyByLoss`: nothing is sent twice, so a loss leaves
somebody waiting, but nothing else does, the clients of p1 and p3 excepted that come
while another is served.  `ByeEndsServer`: in Program1 the first `bye` that arrives
ends the server.  `AskedIsAnswered`: a question that reached its server is answered,
and the four rounds of p3 end.

**What the three violated runs show.**

* `chat_hang`: `chat.h:17` says "#END signals end of communication."  If both
  threads clear their flags between two polls, neither `!HEAR && TALK` nor
  `!TALK && HEAR` holds again, and the process polls for ever with no thread left.
  The usual way there is to type `#END` while the peer's `#END` is arriving.
* `group_full`: `MAX_NUM_CLIENT` (`server.c:16`) sizes the array, and nothing
  stops client number `MAX_NUM_CLIENT` from being written behind it.
* `fork_end`: `q3/tcp/server.c:78` and `client.c:73` say "close communication with
  server" of the branch for END.  Only the parent exits there; its child holds the
  same socket, so the connection stays open and the other side is told nothing.

Two comments promise what the modules show the code does not do, without a run
of their own.  `Jserver.java:32` says "reads message from client until "Over"
is sent", but the line that was read is replaced by the one the server's user types
before the test comes (`TalkServer`).  `Q4/0/Server.java:12` says "Vector to store
active clients" of `ar`, from which nothing is ever taken (`Accept`).

**Hazards no property covers.**  Some lines go wrong in a way that nothing in the
repository denies, so that a property could only restate them: the models have the
behaviour and `PROJECT.json` lists them with a note.  After a short `recv` of the
two-peer chat an `#END` may be missed or found where none was typed; a chat process
may die of SIGPIPE after its peer has left, and the group server of a client that
left; a client of q1 or q2 without input and its server wait for each other.

**Bounds.**  `BUFFER_LEN` = 2 is the least that lets `recv` split a frame and
leave a stale rest, and with `#END` of two units a split may cut `#END` itself.  The
server's user types nothing but `#END`, the client's also the line with its pieces the
other way round; a socket buffer of a frame and a half lets a `recv` see the end of
one frame and the beginning of the next, and makes senders wait.  In `GroupServer`
`SockBuf` = 1 lets a sender block at once.  Three clients are needed for two receivers to disagree
about an order and for a third to be taken in during a shout.  `MaxLines` bounds
the lines all clients send, `MaxEchoes` the rounds the threads make on closed
connections (they would make them for ever).  Two shouts are the fewest that
compete for the mutex: two lines, or a line and the echo of a client that left.
`FewShouts` keeps `group_safety` to that, a constraint on what TLC explores and no part
of the module; `group_liveness`, which has temporal properties and no constraint, has
all three with two clients.  The theorems bound none of it.  The
symmetry is over clients, which no action names, in runs without liveness.

Two servers compete for one port and two clients for one server; two kills take
away both a server and its client, or both servers.  In `ForkChat` a stream of three
units holds a frame and a half, so that reads are short and writes wait; two frames
each way let a stale rest of the first meet the second.  `Simulation` is the programs' own times and counts; only the options
are a choice of values: the defaults among them, rates at which a send falls on a stop,
and latencies at which a SYN comes after a stop, at that very time (28.995216 s), or
never (`dumbbell`'s 100000 packets never run out before the
stop).  In `PyGroupChat` `Threads` has one thread more than there can be hellos,
and five datagrams let two hellos of one client race with a line and with another
client's entry.

The Room is checked with two clients, two lines and an echo: one joins or leaves while the
other's line is under way; the theorem covers any number.  In `StreamLabs` two clients
are enough for one to be queued behind the other, and with buffers of one message
every write may have to wait.  In `DatagramLabs` a socket of two datagrams holds one of
each client, so that they are taken in either order, and loses a third.  Both bound
nothing else: the programs keep no counters.

**Fairness.**  Weak, per thread: the scheduler runs a thread that can run.  In
`Chat`, `talk` is fair except in `fgets`, where it waits for a user who owes
nothing.  In `GroupServer`, `main` and each `hear_all` are fair, and so is the
`Read` of each client that has not hung: the thread `hear` of a living client reads.
A client that hangs owes nothing, and `ShoutEnds` says so.  The mutex itself is not
assumed to be fair.  In `Programs` every process and every child is fair: each of
their calls returns when its condition holds, and a user who is prompted types or
has closed standard input; kills and lost datagrams are not fair.  In `ForkChat`
parent and child are fair except where the parent waits for a user who owes
nothing; in `PyGroupChat` every thread is, and the clients are not.  In `StreamLabs` and
`DatagramLabs` every call is fair but the one that waits for a user to type; starting,
connecting, typing and kills are not.

**Variants.**  The operators marked `VARIANT` are ways the code could have been
written wrong; none is part of a specification.  With one of them in place of the
action it precedes, TLC reports the property that `PROJECT.json` pairs it with.

## 5. What is proved

Eight modules prove, for every value of the constants that satisfies the assumption
of the module (`ChatAssumption`, `GroupAssumption`, `ProgramsAssumption`, `ForkChatAssumption`,
`SimulationAssumption`, `PyGroupChatAssumption`, `StreamLabsAssumption`,
`DatagramLabsAssumption`):

| Theorem | States |
|---|---|
| `ChatTypeOK`, `ChatStopsOnlyAfterEnd`, `ChatJoinNeverWaits` | the safety invariants of `Chat` |
| `GroupTypeOK`, `GroupGreetedFirst`, `GroupRightName`, `GroupEveryoneHeard`, `GroupOneOrder` | those of `GroupServer` |
| `GroupImplementsRoom` | `GroupServer` implements `Room` |
| `ProgramsTypeOK`, `ProgramsGarbageNeedsFault` | those of `Programs` |
| `ForkChatTypeOK`, `ForkChatRepeatsOnlyWhenAlone` | the safety invariants of `ForkChat` |
| `ForkChatChildrenOutlive` | without a fault a child never ends, so END closes no connection |
| `SimulationTypeOK`, `SimulationOneChain`, `SimulationKeepsPace` | three of those of `Simulation`, for any list of applications |
| `SimulationSourcesReachSinks` | the fourth, for the programs of the repository with any options that `RatesAssumption` admits |
| `PyGroupChatTypeOK`, `PyGroupChatEnteredTwiceOnlyByRace`, `PyGroupChatHeardOncePerEntry` | the safety invariants of `PyGroupChat` |
| `StreamLabsTypeOK`, `StreamLabsSpinsOnlyWithoutWord`, `StreamLabsOneTurn`, `StreamLabsInStep` | those of `StreamLabs` |
| `StreamLabsFallsByVanished` | its action property |
| `DatagramLabsTypeOK`, `DatagramLabsStuckOnlyByLoss`, `DatagramLabsByeEndsServer` | those of `DatagramLabs` |

All but `GroupImplementsRoom` follow the same argument: an inductive invariant `IInv`
(`OrderInv` for `GroupOneOrder`), one lemma for each of its parts that says a step
preserves it, with one step per action.

* In `Chat` nothing is inductive alone.  That a process stops itself only after an
  `#END` rests on `MainKnows` (which flag was down when `main` came where it is),
  which rests on `FlagsMatchThreads` (a flag is down exactly when its thread is on
  its way out, and then `END_COM` is set), and `END_COM` rests on `EndsHaveAuthors`:
  a buffer that begins with `#END`, and a frame of the stream that does, was typed by
  its sender.  For the stream that needs `WholeFrames`: up to the first short `recv`
  of the receiver the stream is a number of frames, of which only a reset may cut
  the last, so every `recv` takes one frame from its beginning to its end.  What fresh
  bytes over stale ones make up never has to be known.

* In `GroupServer` the array must be what `main` made it (`MainKnows`, `Registry`:
  every entry has its own index and a client no other entry has; `Newcomers`: a
  client is taken in once).  `Threads` ties each thread to its entry and whoever
  shouts to the mutex.  `Greeting` (whom a shout can reach has been greeted, unless
  it left) gives `GreetedFirst`.  `InboxAuthors`, `BufferAuthors` and
  `HeardAuthors` follow a frame from its client to its readers and give
  `RightName`.  `EveryoneHeard` needs the mutex (nobody else sends for a shout)
  and `Registry` (the send to the next entry does not reach an earlier one).

* `GroupImplementsRoom` takes the invariant of the server and two more facts.
  `Room` speaks of the last line and of numbers, the server of the buffers of its
  threads and of entries: `LogTop` says that the line being shouted is the last of
  the log, `OwnNumber` that the number a client was greeted with is the index of
  its entry.  `MemberFacts` draws from them that a member has exactly one entry
  below `client_id`.  Then one lemma per action that `Room` can see
  (`GreetStep`, `CountStep`, `LockStep`, `ShoutSendStep`, `CloseStep`), and
  `QuietStep` for the others.  The mutex is needed in `LockStep`: with nobody
  shouting nobody waits.

* `GroupOneOrder` says that places in the log exist, so the invariant has to carry
  them: `Followed` keeps for each client a function from its lines to the log
  (`Places`), which grows by the end of the log when the client hears a shout.  That no
  shout was skipped before it is `UpToDate`: what an entered, open client has not heard
  since its last line is at most the shout on its way to it, the last of the log.  The
  mutex is what makes it inductive, as `Lock` may add to the log only when no shout is
  on its way to anybody.  `Counted` and `LogAuthors` tie lines and shouts to entries.

* In `Programs` a process walks along a script, and what holds of every script
  (`ServerFacts`, `ClientFacts`: calls come in the order set-up, `bind`, `listen`, and
  only `exit`, `chat`, `fork` or `spawn` ends a script) is proved by looking at each.  The type needs
  `InScript` and `Ready` (who is past its `bind` is bound, so that `listen` keeps
  `listener` a bound server).  `LinkSteps` says all that a step can do to a connection:
  it is lost, queued, accepted, refused, answered by a child, asked, served, or a
  datagram moves.  `GarbageNeedsFault` comes from `Closing`: a
  connection closed without an answer needed a failed fork or a kill.  It rests on
  `Linked` and `Listening` (a server with a client listens, so it is past the calls at
  which a start fails), on `Serving` (a server of q1 or q2 has one open connection at
  most, and has answered it before its `exit`), on `Kids` (the connection of a child
  stays open until it has sent), and on `Queued` and `Fresh` (who waits for `accept`
  waits once, and has never been connected before).

* In `ForkChat` the type already needs a count: `got` stays within `MaxLines` only
  because what a child printed, holds and has under way was written by the other
  parent (`Counts`): with reads of any length, what is in the stream fits into the
  frames that were written and not printed whole, and one less while the child holds
  such a frame (`Backlog`).  `ChildrenOutlive` rests on `Unbroken` (without a fault no
  connection is reset, because a reset needs a peer that is closed, and that takes
  both its processes) and `ForkedOnce`; `RepeatsOnlyWhenAlone` adds `Alone` (once a
  child is at the end of the stream the other side stays closed).
* In `Simulation` the first three theorems are proved for any program of the shape
  `SimulationAssumption` gives, not only for the ones in the repository: times and
  counts are natural numbers, a stop comes after its start, a `MyApp` has a stop and a
  rate, and a source starts before the simulation ends.  `Numbered`
  says that no two events have the same number, by which `StopApplication` finds the
  one to cancel; `StartsOnce` that an application with a start event in the queue
  has one, and no send; `Sends` that a scheduled send is the one `m_sendEvent` names,
  of an application that runs and has packets left.
  `KeepsPace` and `SourcesReachSinks` take a second invariant, `CourseInv`, that
  follows a simulation from its first event.  `Stamped` gives every event its time,
  a send `start + sent * wait`, and its number: starts and stops have lower ones than
  sends and SYNs, so that of one instant they come first.  `Owned` says that what
  `StopApplication` cancels is a send of its own.  By `Lives` an application waits for
  its start, runs, or was stopped, and it has a socket in the second case only; by
  `Paced` its last packet went out at its time and before the stop; by `Answered` a
  source waits for its start or its SYN or has been told what the times of its sink
  say (`Verdict`).  By `EndInv` the end of the
  simulation stays queued until it is taken, so a source that still waits for its SYN
  when all is over had one that would have come later.  Then `Verdict` is worked out for each program; in
  `star` and `onoff` for a hub and any number of sources.
* In `PyGroupChat` `RaceSeen` says that two threads about to append one client, or one
  with the client entered already, were seen as a race; it is `EnteredTwiceOnlyByRace`
  before the append.  `HeardOncePerEntry` needs the place of each sender in the list:
  the author's line has been heard by a client once per entry that the loop has passed
  (`HeardSoFar`; the list only grows at its end, so no entry is passed twice), a line
  is in the socket or with one thread (`OneCarrier`), and nobody has heard what is in
  the socket (`InboxUnheard`).
* In `StreamLabs` a program is data, and `Tables` says once what holds of all of them.
  `SpinsOnlyWithoutWord` rests on `WordKept` (the word is on its way to the server,
  not as the name, or the server is about to look at it) and `NameFirst`; `OneTurn` is
  inductive with `InCode` and `Fresh` (before `accept` nothing but the client's own
  writes has happened).  For `InStep` `DateShape` lists how far client and server of
  Program2 can be from each other and what is then on the way; `TimeShape` does so for
  the date server of Q2 and gives `FallsByVanished`.
* In `DatagramLabs` the first half of `StuckOnlyByLoss` is inductive once `FromClients`
  and `Quiet` say who can have sent what the sockets hold.  The second half, about p3,
  counts: by `Round` the steps of the client and what is in its socket make up what the
  server has answered, or something was lost.  `ByeEndsServer` follows from `ByeKept`:
  a bye that was said is lost, in the server's socket, or at the test.

Each inductive invariant was first checked by TLC as an invariant of the run's instance.

Every safety property that a passing run checks is proved.  Only model-checked: the
liveness properties, which are beyond the prover (`EndStopsThreads`, `EndReachesPeer`,
`ShoutEnds`, `ConnectedIsGreeted`, `ConnectedClientEnds`, `WrittenIsPrinted`,
`LineReachesMembers`, `WordEndsServer`, `OwnWordLeaves`, `AskedIsAnswered`), and the three
violations.

## 6. Not modelled

* **`Sockets_Python`.**  Its `p1` makes the calls of the other one; its `p2` asks for a
  datagram socket, so that its server stops at `listen`; its other programs are empty
  or those of p4.
* **`Q4/practice`.**  The server is that of `Q4/0`, and the client differs in what it
  catches while it connects, which ends alike.
* **Network namespaces and traffic control.**  Sequential scripts that configure
  the kernel; their state is the kernel's.
* **ns-3 examples.**  `first*`, `udp-echo`, `netanim`, `packet-sink`, `dumbell` and
  `fd-emu-ping` only give times and addresses to echo and ping applications of the
  library, which open no connection; the way of packets through the simulated
  network is the library's.
* **The group client's printing.**  One `recv` may return several messages, of
  which `printf` shows the first; its loop is that of the two-peer chat.
* **`beej/chat/udp/chat.c`** is never reached (the module `Programs`: both programs stop at the call before it).
* Printing, and memory use (`shout` never frees its message).
