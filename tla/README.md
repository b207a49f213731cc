# A verification of CPE464

The repository holds three programs of a networking course: a packet tracer
(`Program 1`), a chat server and client (`Program 2`), and a reliable file copy
over UDP (`Program3/RemoteCopy`), with the design documents of the last. This
directory holds TLA+ models of them, the TLC configurations that check the models
on small instances, and TLAPS proofs for every size.

## 1. Inventory

### Remote copy (`Program3/RemoteCopy`)

`rcopy` asks a server for a file and writes it to disk. The two speak a
sliding-window protocol over UDP, sent through a library (`libcpe464`) that drops
and corrupts packets on purpose.

| part | state | operations |
|---|---|---|
| `rcopy.c`, the client | `state`, `select_count`, the receiver's window, the output file | `filename`, FILE_OK, `recv_data`, `missing` |
| `rcopy.c`, `main` | `select_count`, a new socket for each attempt | attempts to get an answer to FNAME |
| `server.c`, main loop | one socket, the process table | receive FNAME, fork, `waitpid` |
| `server.c`, the child of one client | `state`, the sender's window, `eof_index`, the read position, two static counts | `filename`, `send_data`, `process`, `wait_on_ack`, `bye` |
| `window.c` | bottom, middle, top, a ring of packets and valid flags | add, get, remove, slide, tests |
| `packet.c` | the header | construct, deconstruct (checksum and size test) |
| `networks.c` | one socket per process | send, receive, select with a timeout |
| `libcpe464` | per process: a message count, a list of messages to drop, random events, an error rate | settings of the environment, `sendErr_init`, `sendtoErr`, `in_cksum` |
| `original/` | a stop-and-wait version, no window | the same states with one packet at a time |

Any number of clients meet one server, which forks a child for every FNAME packet
that is not corrupt and keeps no list of clients; a client that hears nothing for a
second tries again from a new socket. The child inherits the library's settings and
message count from the server. From then on the processes share nothing: the client and the child exchange datagrams (DATA and
END_OF_FILE one way, RR and SREJ the other). RR *n* acknowledges everything below
*n*; SREJ *n* asks for packet *n* again. Hard here: packets lost, corrupted,
duplicated, reordered or late, against timers on both sides (one second in the
child, ten in the client); sequence numbers reduced modulo the window size in six
places; two counts of retries that live in static variables; a variable read
before it is set; children that end while the server waits for a packet; late
answers to an attempt that was given up; sizes and checksums of damaged packets. The
copy is correct when the output is a prefix of the source at every moment, both ends
agree on what is acknowledged, an end that reports success is right, and both ends
come to an end. A connection begins correctly when a socket meets one child, its
answer is intact, and an attempt fails only because its message was lost.

### Chat (`Program 2`)

| part | state | operations |
|---|---|---|
| `server.cpp` | `open_sockets`, `clients` (handles), `num_open`, `num_clients`, `capacity` | `answer`, `process_packet` and its handlers by flag, `close_connection`, `resize` |
| `cclient.cpp` | handle, socket, `exit` | `init`, `communicate`, `send_message`, `broadcast`, `list_handles`, `janitor` |
| `message.cpp` | the fields of one message | `pack`, `unpack` |

One process serves all clients from a `select` loop; each client waits for the
answers to its own requests with a plain `recv`, although the server may push a
message at any time. Hard here: messages that arrive between a request and its
answer, TCP's lack of message boundaries, connections that close while the loop
over the table runs, and a table that moves its last entry into the hole.

### Packet tracer (`Program 1`)

| part | state | operations |
|---|---|---|
| `trace.c` | `next_type`, the buffers `pdu` and `psuedo_header` | read a packet, one function per header |
| `ethernet.c`, `ip.c`, `arp.c`, `udp.c`, `tcp.c`, `icmp.c` | the fields of a header | `_init`, `_print`, the data behind the header |
| `checksum.c` | none | `in_cksum` |

The tracer prints each packet of a capture file. A function takes a header off, frees
the buffer it was given and leaves what follows in a new one; a packet's buffers are
allocated in one function and freed in another. Hard here: lengths taken from the
packet or assumed, checksums over odd lengths, options and padding, and buffers that
no function frees. It is correct when a complete packet never makes it read outside a
buffer, and every verdict on a checksum is right.

## 2. Plan

Done, in this order:

1. **Remote copy: the connection**: `Packet`, `Window`, `PacketChannel`, `FileServer`,
   `FileClient`, composed in `RemoteCopy`; the abstract `WindowedTransfer` and the
   refinement; the proofs of every safety property.
2. **Chat**: `ChatTable`, `ChatStreams`, `ChatServer`, `ChatClient`, composed in `Chat`;
   proofs of types, of the table of connections (`ChatProofs`), and of what clients
   are sent (`ChatClientProofs`).
3. **`StopAndWait`**: `original/`, whose acknowledgements carry no number, against the
   same abstract transfer with a window of 1, and the proof that it implements it.
4. **`ErrorInjection`** and **`Connections`**: the library's settings, and how
   connections begin; all its safety properties proved. **`DuplicateRequest`**
   composes two `RemoteCopy` connections at one client.
5. **`Checksum`**, **`PacketBytes`**, **`Tracer`**: the bytes of packets and frames, and
   `BytesProofs`.
6. **`TransferProofs`**: `RemoteCopy` implements `WindowedTransfer` for every constant.

Every safety property of a passing run is now a theorem. Left: `RequestsAnswered` and
`AddresseeRight` for a `recv()` of several messages, where only part of what they say is
true; what remains true of the stop-and-wait copy under late packets besides
`WrittenCorrect`; the table of the chat after `resize`.

## 3. Modules

| module | models |
|---|---|
| `Packet` | the packets, their flags, sequence number and payload class (`packet.h`) |
| `Window` | `window.c`, one operator per function, on a record |
| `PacketChannel` | both directions of the connection: send, receive, a timer that may run out, a closed socket (`networks.c`, UDP, `sendtoErr`) |
| `FileServer` | the child: one action per outcome of `filename`, `send_data`, `process`, `wait_on_ack`, `bye` |
| `FileClient` | `rcopy`: one action per outcome of `filename`, FILE_OK, `recv_data`, `missing` |
| `RemoteCopy` | the two composed, the timing rule, fairness, all properties |
| `WindowedTransfer` | what the protocol promises: chunks released, delivered in order once, acknowledged, and two ends that declare the transfer complete only when it is |
| `RemoteCopyInvariant` | the inductive invariant |
| `StopAndWait` | `original/`: the child and `rcopy` of the stop-and-wait copy, over the same `PacketChannel` |
| `MCRemoteCopy` | the sets of faults of the runs |
| `ErrorInjection` | the library: from the environment and `sendErr_init` to what may become of a process's n-th message |
| `Connections` | several `rcopy` processes up to their answer, the server's main loop, its children up to their first packets |
| `MCConnections` | the scenarios of the run: environments, rates, network, clients |
| `ConnectionsProofs` | theorems about how connections begin |
| `DuplicateRequest` | a client with two children, as two instances of `RemoteCopy` |
| `Checksum` | `in_cksum`, of both programs that have one |
| `PacketBytes` | `construct`, a flipped byte, `recv_packet`, `deconstruct` on bytes |
| `Tracer` | the packet tracer on the bytes of frames |
| `MCBytes` | the frames, and the two byte-level programs for one run |
| `PacketChannelProofs`, `RemoteCopyProofs` | lemmas on the channels and windows, theorems about the remote copy |
| `TransferProofs` | the refinement of `WindowedTransfer` as a theorem |
| `StopAndWaitProofs` | theorems about the stop-and-wait copy, its refinement included |
| `BytesProofs` | theorems about `in_cksum`, the bytes of packets, and the tracer |
| `ChatTable` | the server's two arrays as one sequence of entries: search, learn, close, resize |
| `ChatStreams` | the messages, the TCP streams of each client in both directions, what closing and resetting do |
| `ChatServer` | `serve()`: `Select` and `ProcessPacket`, one operator per handler (`server.cpp`) |
| `ChatClient` | the client: start, commands, one action per place that receives (`cclient.cpp`) |
| `Chat` | the two composed, fairness, all properties |
| `MCChat` | the symmetry of clients and names |
| `ChatProofs`, `ChatClientProofs` | theorems about the chat: types, names and the table of connections; what clients may rely on |

### Remote copy

**State.** `sstate`, `cstate` are the `state` of the two main loops; `swin`, `cwin`
the two windows; `pos` the read position of the source; `nudges`, `byes` the static
`send_count` of `wait_on_ack` and `bye`; `selects` is `select_count`; `outfile` the
chunks written, each with the class of its length; `sended`, `cended` say why an end
ended (history only).

**Data.** A payload is the number of the chunk of the source file it carries. Its
length is "full", or "short" for the last chunk when `ShortLast`. A packet that
fails `deconstruct` is `Corrupt`: none of its fields is used.

**Steps.** A state function runs until it blocks in `select`. `send_data` ends in a
`select(0)` that may see or miss a packet under way, so it is cut there (`POLL`);
`bye` is cut at its `select(1)` (`BYE_WAIT`). A function that takes a packet takes it
and does everything else in the same action.

**Timers.** With `"delay"` in `Faults`, a timer may run out although a packet or an
answer is on its way. Without it, the processes and the network are fast against
the timers of one and ten seconds: a timer runs out only when nothing else can
happen, and the client's long timer only once the server has ended.

**The network.** Each direction is a sequence of at most `Capacity` packets (what
does not fit is lost). `Faults` chooses among drop, flip, dup, reorder, delay, and
io (open and read fail). The answer to FNAME is never flipped: the library spares
the first packet of a process, and the child's first packet is that one.

### How connections begin

**State.** `cstate`, `selects` and `socket` are a client's state in `main()`, its
`select_count` and the socket it opened last: a client and a number are an address.
`cmsgs` and a child's `msgs` are the library's `m_MsgNo` of that process; `clientLib`
and `serverLib` are its settings. `requests` are the FNAME packets in the server's
socket, `answers` what has reached a client's open socket. `children` gives, for each
address, the children that hold a process entry, zombies included.

**Steps.** `Attempt` is `udp_client_setup()` and `filename()` up to its `select`;
`AnswerArrives` and `FilenameTimeout` its two outcomes with `main()`'s comparison of
`select_count` behind them. A turn of the server's loop has several steps, `parent`
says where it is. `Receive` is `recv_packet()` and `fork()` (`server.c:78`), or no
`fork()` for a corrupt packet; a `fork()` that fails (`ForkFails`) ends the server and
leaves its children. Then comes the loop of `waitpid()` (`server.c:90`), one `Reap` for
each child that has ended, also one that ends meanwhile, and `NoneToReap` when none is
left. Between the two the ended children and the new one are in the process table
together. `ChildFilename`,
`ChildSendData` and `ChildEnds` are the part of the child a client that still waits
can see; the copy itself is `RemoteCopy`.

**The library.** A rate is never, sometimes or always, and a random event a choice:
seeds are left out. An environment variable that is set, also to nothing, replaces the
program's own setting; a list of numbers to drop turns random drops off, and a list
of numbers to flip is read and has no effect. A listed message is always dropped, and
the first message of a process is spared by random events.

**The network** is `reliable`, or `unreliable`: then it loses packets, delivers an FNAME
twice, answers later than a second, and children and `fork()` may fail.

### Bytes

`PacketBytes` sends packets of the given lengths one after the other, flips at most
one byte (`errorFlipBits`), and receives them in the same buffer, which is never
cleared: a damaged size makes the checksum cover what earlier packets left. `Size`
is unsigned, and so is the length given to `memcpy()` (`packet.c:53`).

`Tracer` keeps `next_type`, the buffers with their addresses, and the set of
addresses that are allocated: `ip()` frees the `pdu` it was given and leaves
two new buffers, of which ARP, UDP and ICMP free one. An `_init` that is given too
little leaves its object unset, which its caller reads all the same: that, and
reading or freeing outside, is `UNDEFINED`, after which nothing is said. The next
packet is read only after `UNKNOWN` or `PAYLOAD`.

### Stop-and-wait copy

`sstate`, `cstate` are the `state` of the two main loops, with SELECT for the
`select` inside `wait_on_ack`; `seqNum` is `seq_num`, `sends` the static
`send_count`, `selects` and `expected` the client's `select_count` and
`expected_seq_num`. Channels, timers and faults are those of the remote copy. The
model takes a buffer size of at most 992 bytes: `filename()` receives at most 1000,
so that a longer first chunk would fail its checksum there.

### Chat

**State.** `table` is `open_sockets` and `clients` up to `num_open`, `capacity` the
length of the arrays, `readSet` what the last `select` found and `turn` the index of
the loop over the table. `cstate[c]` is the place in the client's program that
waits: `idle` in `select`, `confirm`, `length`, `handle` and `exit` in a `recv` of
their own; or the exception that ended the process. `backlog` holds the connections
`accept` has not returned yet, in order. `conn[c]` says who has closed a connection,
and whether its reset can reach the server: after a client closed with data unread,
or the server has sent to a closed client, a `send` may fail.

**Data.** A message is its flag, two names and the integer of its text. The texts,
lengths and sequence numbers of messages are left out: nothing reads the numbers. A
client connects once, so its name stands for its descriptor.

**Steps.** `Select` is one `select()` with `answer()`; `ProcessPacket` is one turn of
the loop that finds its descriptor in the read set: one `recv()` and the whole
handler, with its sends and its change of the table. Turns that find nothing are
skipped. Clients run between any two of them. A `send` to a client that is gone is
lost, or fails when the reset has arrived: then the server ends, with an exception
or a SIGPIPE, except in `confirm_handle()`, whose exception is caught. A failing
`recv()` (-1) is taken for a length and ends the server, as does a null name:
`server` says which.

**TCP.** With `Coalescing`, a `recv()` may return several messages, of which the
program reads the first header. That a message arrives in parts is not modelled.

**Users.** Each types at most `MaxCommands` commands, to any name, also unknown
ones; `MaxKills` clients are killed at any moment.

## 4. Runs

| run | instance | shows |
|---|---|---|
| `faults` | 4 chunks, window 3, capacity 2, every fault | type invariant, eight safety invariants, the inductive invariant `IndInv`, the refinement of `WindowedTransfer` |
| `ends` | 4 chunks, window 3, capacity 2, drop, flip and delay, fair | the child is killed only by a SREJ for what it has not sent; both processes end unless corrupt packets arrive without end |
| `lossless` | 4 chunks, window 3, no fault, fair | the copy completes and both ends know it |
| `short_last` | drop, short last chunk | *violated*: a chunk written with another's length |
| `stop_and_wait` | 3 chunks, capacity 2, drop, flip and io, fair | an ACK under way answers the chunk waited on; the refinement of `WindowedTransfer` with a window of 1; both processes end |
| `chat_rooms` | 3 clients, 2 names, one command each, one kill | types, the table, names, who receives what, one answer per request |
| `chat_resized` | 3 clients, table of 4, one command each, one kill, several messages to a `recv` | the server never blocks, whatever `resize` has lost |
| `chat_answers` | 2 clients, one command each, one kill, fair | a waiting client is answered or ended; the entry of one that is gone is freed |
| `chat_closed_externally` | 2 clients, one kill | *violated*: a reset connection ends the server |
| `connections` | 2 clients, 3 attempts, lists and random events, one duplicated FNAME, fair | types, one child per socket, an intact first answer, who is served, no zombies piled up, every client served or ended |
| `duplicate_request` | 3 chunks, window 3, two children | *violated*: a chunk in another's place |
| `checksums` | 7 lengths around the edges, every byte flipped; 9 kinds of frames, damaged and cut | damage is found out but in one byte, lengths stay in bounds but in one case, verdicts are right, buffers are freed once |

**Bounds.** `MaxRetries` and `MaxSelects` stand for the code's 10 and 9; 2 and 1
reach the same branches, since the counts are only compared and reset; `faults`, which
has every fault, takes 1 for both. Four chunks
with a window of 3 let the ring wrap around, a hole appear at the bottom, middle and
top, and the last chunk share a slot with the first. Two packets in each direction
are enough to overtake one another. `Faults = {}` with capacity 4 holds a whole window.

For `stop_and_wait`, three chunks give a first, a middle and a last one; `MaxSends` 3
(5 in the code) lets a packet be repeated twice. Each direction holds at most two
packets: the packet and its repetition, an ACK and the late one before it.

Three chat clients are what it takes for one to leave from the middle of the table
while another's entry is moved, and two names let two of them want the same one
(the empty name, which is refused, is a third choice). One command each reaches
every handler, since joining, leaving and being killed are not commands. The table
of `chat_rooms` is never enlarged (`BufferSize` 8); in `chat_resized` it is, by the
third client, and keeps one descriptor and no name, so that there is nothing left to
say of names. In the code the arrays start at 1024 entries.

`connections` has two clients and three attempts (`MaxSelects` 2, 9 in the code): enough
for a listed first, middle and last attempt, an answer to an old socket, and a child
of one client that ends while the other is served. `Burst` 2 is the messages of a child
that can reach a waiting client: with the first listed, its client takes the first
DATA packet for an answer. The scenarios are all lists that differ at the first two
messages, a rate of always, and, for one client, every random event over an
unreliable network (`MaxDuplicates` 1: one FNAME comes twice).

`checksums` has a `MaxPacketLength` of 260 instead of 1400: the packet sizes 244, 245,
255 and 256 lie on both sides of those (245 to 255) whose low byte can be flipped to
one below the header's 11, and above 256 the other bytes of the size matter. Odd and
even lengths and an empty payload are there. The first packet received is intact and
leaves its bytes in the buffer, the second may be damaged at any byte. The frames are
one of each protocol, with odd lengths, IP options, padding, a length above 255, each
cut at the edges of its headers, and a TCP frame with every single byte flipped; two
frames in a capture show what the first leaves allocated.

**Fairness.** A process that can run is run (`WF` on each process), and a `select`
with a timeout returns (`WF` on each timer). Nothing is assumed of the network. The
liveness run `ends` therefore excludes only the case in which a corrupt packet is in
flight again and again, which resets the counts of the retries: in the code that
happens with probability zero, but the program does nothing to prevent it. `lossless`
excludes the client that received its answer on the last attempt, see section 6.
In `connections` every process that can run does, and a client's `select` returns;
nothing is assumed of the network or the library, so that a client may also give up.
In `stop_and_wait` corruption needs no such exception: a corrupt packet uses up a
wait of the child, and only the child's packets keep the client going.
In `chat_answers` the server and each client that has something to receive keep
running; no user is assumed to type anything. One message to a `recv()` is assumed:
with several, a request behind a message is never seen, and its client waits for ever.

**Deadlock.** Checked in every run of both file copies: when both processes are gone
the system stutters by `Ended`. Not in those of the chat, which come to rest when
every user has typed what the bound allows, nor in `connections`, where the server
waits for packets for ever, nor in `checksums`, where a capture ends.

## 5. Proofs

`RemoteCopyProofs` proves, for every number of chunks, window size, capacity, set of
faults and limit on retries, that `RemoteCopy!Spec` keeps

- `TypeOK`, `OutputIsPrefix`, `WindowsAligned`, `NeverOutOfWindow`,
  `UnackedBuffered`, `ReceiverBufferSound` without further assumption;
- `EofMeansComplete`, `HandshakeMeansComplete`, `AckedIsWritten` under
  `EofIndexHarmless`: the uninitialised `eof_index` is not the number of a chunk.
  With `EofGarbage = {0, 2}` TLC finds the first two violated.

None of these is inductive: that the output is a prefix depends on what the
receiver's ring holds, that on what was in flight, and that on what the sender's
ring holds. `IndInv` (module `RemoteCopyInvariant`) says all of it at once:

- *in flight to the client* (`ToClientInv`): the answer to FNAME, corrupt packets,
  `DataPacket(k, k)` for a *k* below the sender's middle, or END_OF_FILE, and then
  everything is acknowledged;
- *in flight to the server* (`ToServerInv`): an RR at most the receiver's bottom, a
  SREJ, a corrupt packet, or the RR of END_OF_FILE after the client ended;
- *the sender* (`SenderInv`): the ring's slots hold sent packets, and every
  unacknowledged one is in its slot;
- *both windows* (`WindowsInv`): sender's bottom <= receiver's bottom <= sender's
  middle;
- *the receiver* (`ReceiverInv`): a valid slot holds the packet of its number, and
  only in MISSING (or after the end);
- *the end* (`EofInv`): what END_OF_FILE and the states around it imply.

The proof has one lemma per action or group of actions that changes the same part.
`ServerFrame` and `ClientFrame` cover the actions that leave the windows alone,
`ReceiverMoves` those that advance the receiver. The module begins with the arithmetic
of the ring: two numbers less than a window apart have different slots
(`IndexInjective`), a packet stored is the one got back (`AddToBufferGet`), and what
is valid after a slide was valid before (`SlideValid`).

`ServerSurvives` (`SurvivalCorrect`) is proved under `FillsWindow`, `WindowSize <=
NPackets`, whatever the faults. It needs, on top of `IndInv`, that a slot once
written stays written: every number that was sent finds a packet in its slot, if not
always its own (`SentStored`), a SREJ never asks for less than 1 (`SrejNumbered`), and
a child that may nudge has a packet unacknowledged or has sent the whole file
(`NudgeHasPacket`). In the latter case the bottom may name a packet that does not exist,
whose slot holds one of an earlier round if the file has filled the window: that is
where `FillsWindow` is used.

`TransferProofs` proves that `RemoteCopy!Spec` implements `WindowedTransfer`
(`TransferCorrect`), for every value of the constants and under `EofIndexHarmless`. With
`IndInv` it needs only that a child that runs has no reason for its end (`SenderRuns`).
A step of the child releases a chunk, acknowledges, confirms or leaves the abstract
variables alone (`ServerMoves`); a step of rcopy writes chunks, ends at END_OF_FILE or
leaves them alone (`ClientMoves`). What `IndInv` says before and after the step
(`TransferFacts`) bounds them: what is written is at most what was sent, what is
acknowledged at most what is written, so the sender's middle does not move when its
window slides.

`ChatProofs` proves, for any clients, names, numbers of commands and kills, and
initial size of the table, that `Chat!Spec` keeps `TypeOK` (`ChatTypes`) and
`NamesUnique` (`NoNameTwice`). The second is inductive with the first: every handler
leaves the table alone, closes one connection or learns a name that a whole search
did not find (`HandleTable`), and closing, enlarging and appending keep names
different (`CloseConnectionUnique`, `ResizedUnique`, `AppendUnique`). It does not need
that the table is complete, and so holds after `resize` too.

It also proves, for the same constants,

- `NeverBlocks` (`ServerNeverBlocks`), also after `resize`. It rests on `OnePlace`: a
  connection is in the backlog once, or in the table once, and in neither before its
  client connects. So the entry the loop has just handled is the only one of its
  connection, the entry that `close_connection` moves into its place is not handled
  in this round, and all those above stay readable;
- `OpenSocketsComplete` (`TableComplete`) under `NeverEnlarged`: fewer clients than the
  arrays hold at the start, less two (1022 in the code). The entries are then fewer
  than that too, by a pigeonhole argument (`TableFits`), so `resize` is never called,
  nothing is null (`Whole`), and the established connections are those in the backlog
  and in the table (`AllPlaced`).

`ChatClientProofs` continues with what a client may rely on:

- `Registered` (`RegistrationKept`), under `NeverEnlarged`. What is inductive is
  `EntryKept`: the entry has the client's name from the moment the confirmation is
  sent. A client's first request carries its own name (`OwnRequests`), and nothing is
  under way to or from one that has not connected (`Unused`);
- `RightAddressee` (`AddresseeRight`), when a `recv()` returns one message
  (`~Coalescing`), also after `resize`. What makes it inductive is that a name in the
  table is the name of the client whose connection the entry is (`EntryNamed`): a
  name is learnt from that client's own first request, `close_connection` moves a name
  and its descriptor together, and `resize` forgets names before descriptors. A message
  passed on goes to the entries of its name only (`PassesOn`);
- `OneAnswerPerRequest` (`RequestsAnswered`), on the same condition. By `Turns`, a
  client that waits has exactly one request of its kind under way and no answer
  (`Asked`), or one answer and no request (`Told`); one that does not wait has neither
  (`Quiet`). A step of the server turns `Asked` into `Told` for one client
  (`TakesOne`); it could drop an answer only on a connection it has closed, and it
  keeps none of those (`ConnOpen`).

Each step is first reduced to what it does to connections (`TableChange`,
`ClientChange`) and to confirmations (`AnswersChange`, `StateChange`), so that the
invariants need no case per handler.

`ConnectionsProofs` proves, for any number of clients and attempts, any scenarios
(lists, rates, network) and any number of duplicates, that `Connections!Spec` keeps all
its safety properties. `ScenariosAssumption` only says what a scenario is made of.

- `TypeCorrect`: with the types, that a client which waits has opened one socket more
  than it counted attempts (`AttemptsCounted`), so that numbers of sockets stay in bounds.
- `ProcessesCorrect`, by `ProcessesInv`: at most `peak` children run, and while the
  server waits for a packet they have at most `peak` entries. `fork()` adds one entry;
  the loop of `waitpid()` ends when only children that run have one.
- `FirstAnswerCorrect`: a child that has not answered has sent nothing
  (`AnswerIsFirst`), so its answer is message 1, which no random event meets.
- `OneChildCorrect`, by `SocketsInv`: requests under way have different addresses
  (`RequestsDiffer`), an address whose request is under way has no child yet unless it was
  delivered twice (`RequestsUnserved`), and one that is to come has neither
  (`SocketsToCome`).
- `ServedCorrect`, by `ServedInv` on top of `SocketsInv`: while nothing but listed
  messages is lost, a client that waits after a message that is not listed has its
  packet, a child with all messages so far listed, or an answer on the way
  (`OnItsWay`), so that it does not time out (`NoTimeout`). One that gives up has made
  its last attempt and all messages before that are listed. Of the last message nothing
  is said: when it is not listed its answer comes and is thrown away (section 6).

`StopAndWaitProofs` proves, for any file, limits and socket buffer, that the
stop-and-wait copy keeps

- under every fault, `TypeOK` (`TypeCorrect`) and what it writes in order
  (`WrittenCorrect`), by `AnyInv`;
- under `InTurn`, which allows packets to be lost and corrupted but not late, duplicated or
  overtaken, `AckAnswersLast` (`AcksInStep`) and the refinement of `WindowedTransfer`
  with a window of one (`TransferCorrect`). The inductive invariant is `LockStep`: the
  client expects the chunk just sent or the one after it; on its way is at most the
  packet of the child's state, behind an FNAME_OK that is still waited for; and when
  an ACK is, the other direction is empty. Without `InTurn` both are false (section 6).

`BytesProofs` has three parts. For all of them `in_cksum()` is a function that adds up the
bytes by halves, as in the runs.

- *The checksum.* `InCksumCorrect`: for every sequence of at most 65792 bytes
  (`Summable`; the sum then fits into 32 bits) `InCksum` is 0 exactly when the
  definition of RFC 1071 holds. First, the recursive function exists and adds up its
  terms one by one (`SumsByHalves`, `TotalByTerms`). The library's induction theorems
  take an operator, which the provers cannot instantiate; the proofs use instead that a
  set of numbers has a least element (`LeastNatural`, from `WFMin` and the strict subset
  ordering of finite sets) and its consequence for prefixes (`PrefixInduction`). Then two
  folds leave the sum modulo 2^16 - 1, and 0 for 0 only (`FoldedValue`), and swapping
  the bytes of all words multiplies it by 256, which has an inverse (`ScaledZero`).
- *Packets.* `MemcpyBounded` (`MemcpyInBounds`) follows from the four bytes of the size
  alone. `DamageFound` (`ReceivedAsSent`, under `SmallPackets`: less than 2^15 bytes, 1400
  in the code, so that the high byte of a size, inverted, is too large):
  `construct()` makes the sum a multiple of 2^16 - 1 (`ConstructSum`), and inverting a
  byte *b* changes it by 255 - 2*b*, or 256 times that, which is not one (`FlipFound`);
  a flip in the three high bytes of the size is refused for the size (`WireSize`).
  `LengthsAssumption` and `FillsAssumption` say that payloads fit and are bytes.
- *The tracer*, for any frames (`FramesAssumption`: sequences of bytes). `TraceInv` has
  the types and counts the allocated buffers (`Allowance`), which gives `TraceTypeOK`
  (`TraceTypeCorrect`) and `BuffersBounded` (`BuffersFreed`). `FrameInv` relates what
  the tracer holds to the frame: the header to be taken off next is that of the frame,
  its buffers are allocated and different (`HeaderInv`), and the verdicts are those of the
  frame's own bytes (`SumsInv`). `DefinedOnComplete` (`TraceDefined`) is inductive
  with it; `VerdictsAreRight` (`VerdictsCorrect`) follows with `InCksumCorrect`, since a
  header has at most 60 bytes and a segment with its pseudo header at most 65547.

Model-checked only: the liveness properties (`BothEnd`, and those of `ends`, `lossless`,
`chat_answers` and `connections`), which need fairness and are out of the prover's
reach.

## 6. What the violation runs mean

See `findings` in `PROJECT.json`. `duplicate_request` needs two children for one
socket; `OneChildPerSocket` says when that happens: the network delivers an FNAME twice,
and nothing else leads there.

`ServerSurvives` says that the child ends in `sendtoErr()` only when a SREJ names a
packet that was not sent yet. It needs a file of at least a window, and nothing else:
`SurvivalCorrect` has no condition on the faults.

The models also have these behaviours, which no run is kept for:

- with a file shorter than the window, the first nudge after everything is
  acknowledged (`server.c:270`) looks in an empty slot; `sendtoErr()` of 0 bytes ends
  the child, and END_OF_FILE is never sent (`RemoteCopy` with `NPackets` 2,
  `WindowSize` 3, no fault: `ServerSurvives` is violated);
- in the stop-and-wait copy, an ACK that arrives after its timer ran out passes for the
  ACK of the next packet (`original/server.c:216`: it has no number), and the copy ends
  with a chunk missing (`StopAndWait` with `"delay"` in `Faults`: `TransfersInOrder` is
  violated; without, an ACK is never in flight when its timer runs out);
- a list of messages to drop that contains 1 drops the FNAME_OK of every child, for
  each counts from the server's 0; the client takes the first DATA packet or
  END_OF_FILE for the answer (`AnswerArrives`);
- a list in `CPE464_OVERRIDE_ERR_FLIP` flips nothing, and turns random flips off,
  though `SettingsManager.h:16-18` says that a list performs the event; an empty
  `CPE464_OVERRIDE_ERR_DROP` turns random drops on;
- a flip of the low size byte of a packet of 245 to 255 bytes makes `memcpy()`'s length
  wrap around (`packet.c:53`; `MemcpyInBounds` allows this case only); for an FNAME
  that is the server's main process;
- `resize()` copies bytes where entries are meant (`server.cpp:500-501`), so that three
  quarters of the connections are never served again (`Chat` with `BufferSize` 4:
  `OpenSocketsComplete` is violated). In the code that takes a 1022nd client, and an
  `fd_set` is full before it comes unless the server starts with descriptors closed;
- `udp_init()` refuses every datagram with less than 20 bytes of data and leaves its
  object unset (`udp.c:30`; `DefinedOnComplete` excepts `IsShortUdp`); the buffers of
  TCP's checksum, of unknown types and the pseudo headers of the other protocols are
  never freed (`BuffersBounded`: at most two for each packet).

And these disagreements:

- the answer to the tenth FNAME is received and then thrown away, because
  `select_count` is compared after `filename()` succeeded (`rcopy.c:70`;
  `RcopyStateDiagram.svg`: "Receive Filename ACK" leads to the wait for data);
- a message already under way is taken for the acknowledgement of an exit
  (`cclient.cpp:123` "wait for ACK from server"; `EXIT_EX`);
- a SREJ may name a packet that was not sent yet, and the server then sends what its
  slot holds (`ServerStateDiagram.svg`: "SREJ / resend packet");
- `recv_data()` sends an RR, not a SREJ, for a packet out of order
  (`RcopyStateDiagram.svg`);
- `in_cksum()` reads no byte behind a packet of odd length: it takes the last byte
  alone (`libcpe464/checksum.c:75-79`), although the comment above it says that it goes
  off the end of the data by one byte and that this byte must be zeroed (lines 37-42).
  `ReceivedAsSent` and `InCksumCorrect` hold for odd lengths with any bytes behind them;
- `handle_request_response()` copies a null pointer when the index is `num_open`, as
  when a client leaves while another lists (`server = "null"`);
- a message that arrives during a list ends the client (`LIST_EX`), and one that
  arrives before its confirmation does (`MYSTERY_EX`).

## 7. Not modelled

- *Remote copy*: packets cut because `recv_buf()` reads too few bytes (`original/`,
  buffer sizes above 992); a window size of 0, which is an argument nobody checks
  (`server.c:164`); the parsing of arguments; `CPE464_OVERRIDE_PORT` and the debug output
  of the library; errors of system calls that end the process before it has sent
  anything. The bytes of packets are in `PacketBytes`, not in `RemoteCopy`, which
  knows a damaged packet as `Corrupt`: `ReceivedAsSent` says when that is right, the
  low byte of the size excepted. Several clients are in `Connections` only: children
  share nothing but the process table.
- *Chat*: the byte that `strcpy()` writes behind the name it copies into a hole, whose
  buffer has `strlen()` bytes and no room for the terminator (`server.cpp:281-282`;
  `CloseConnection` copies the name as it is); messages that arrive in parts or are
  longer than one `recv()`, the bytes of a message, lines that `fgets()` holds back from `select()`, descriptors above the size of an
  `fd_set`, the parsing of what a user types.
- *Tracer*: what is printed but the verdicts; `pcap` itself.
- The course's sample programs, scripts, captured packets, diagrams and backups.
