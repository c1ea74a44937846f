# aprilsh in TLA+

A verification development kept beside [aprilsh](https://github.com/ericwq/aprilsh), a
remote shell in the manner of mosh: a client and a server keep two objects in step over
UDP (what the user typed, what the terminal shows), and a daemon starts one server process
for each session. Paths such as `network/sender.go` are relative to the repository.

## 1. The system

| Component | State | Operations |
|---|---|---|
| `Transport` (`network/transport.go`) | `receivedState` (the states received and not yet thrown away), `lastReceiverState`, `receiverQuenchTimer` | `ProcessPayload`, `processThrowawayUntil`, `GetRemoteDiff`, `Awaken` |
| `TransportSender` (`network/sender.go`) | `currentState`, `sentStates`, `assumedReceiverState`, `ackNum`, `pendingDataAck`, the timers, `shutdownInProgress`, `shutdownTries` | `tick` (`updateAssumedReceiverState`, `rationalizeStates`, `sendToReceiver`, `sendEmptyAck`, `addSentState`), `processAcknowledgmentThrough`, the questions about shutdown |
| `Fragmenter`, `FragmentAssembly` (`network/fragment.go`) | the id, instruction and MTU last used; the fragments of one instruction | `makeFragments`, `addFragment`, `getAssembly` |
| `Connection` (`network/network.go`) | sockets, remote address, sequence numbers, timestamps, round-trip estimate | `send`, `Recv`, `hopPort`, `pruneSockets`, detaching after 40 s |
| `UserStream` (`statesync/user.go`) | a sequence of keystrokes and resizes | `PushBack`, `Subtract`, `DiffFrom`, `ApplyString` |
| `Complete` (`statesync/complete.go`) | a terminal emulator and the output since the last tick (`diffBuf`), the echo ack | `ActLarge`, `DiffFrom`, `ApplyString`, `Reset`, `Clone`, `SetEchoAck` |
| Main server (`frontend/server/server.go`: `mainSrv`) | `workers` by port, `exChan`, `uxdownChan` | `run`, `startChild`, `closeChild`, `handleMessage`, `shutdown`, `uxServe` |
| Session process (`runChild`, `serve`, `startShellProcess`) | pty, shell, the network object of one session | start, serve, report, exit |
| Client (`frontend/client/client.go`) | the network object, overlays, the last frame drawn | `main`, `processUserInput`, `outputNewFrame`, ... |
| Prediction overlays (`frontend/overlay.go`) | predicted cells and cursors, epochs | `NewUserInput`, `cull`, `apply`, `Reset` |
| Readers (`frontend/read.go`) | a `reading` flag, the `done` channels | `ReadFromFile`, `ReadFromNetwork` |
| Terminal (`terminal/`) | parser, cursor, margins, modes, two frame buffers, ring of saved rows | `HandleStream`, `HandleLargeStream`, the handlers, `resize`, `Clone`, `Equal` |
| Encryption, compression, messages, flags, locale, termios, terminfo | | conversions and system calls |

How they interact. The main loops of the client and of `serve` each select over a timer,
the network, and the terminal or the pty; in every round they read what arrived
(`ProcessPayload`), feed what the user or the shell produced into `currentState`, look at
the reasons to stop, and call `tick`. `tick` cuts an instruction into fragments that the
`Connection` encrypts and writes. A session process runs these loops on one side and talks
to the main server on the other: it reports its key, the pid of its shell, the end of
`serve` and its own end through a Unix socket. `uxServe` reads the socket and hands each
message to `run` through a channel of capacity 1; `run` serves UDP requests to open and to
close sessions.

What is hard. Packets are lost, duplicated and reordered, and acknowledgements with them;
two bounded queues of states give up their oldest or refuse their newest members; a
timeout makes the sender go back to an older reference state while a packet is still under
way; both ends may ask for shutdown at once, or vanish; the acknowledged prefix of a
stream is subtracted on both sides on different occasions. In the daemon, several
processes and goroutines report over one channel, a key may come too late, a port may be
taken, and a shutdown waits for reports that a dead process does not send. The client
moves and changes sockets while answers are under way, with clocks of 16 bits. Predictions are
judged by frames and echo acks that belong to other moments than the screen they are
drawn on. What the client shows is a replay of what the server's handlers recorded, through a
new parser, after a change of size that came later in the original; and output that would
overrun the ring of rows is put aside and read again. The list of
such places, with the property that watches each, is `hazards` in `PROJECT.json`.

What makes each component correct:

- the protocol: queues stay ordered; nothing is acknowledged, referenced or thrown away
  that was not received; what the user typed is applied once, in order, in the end; a
  clean exit is one;
- fragments: only whole instructions that were sent come out, and all of them when
  nothing is lost;
- connection: an old datagram never moves the remote address, a reply comes to the socket
  that is open, a round-trip sample is of a round trip that took place;
- main server: a client gets the key of its own session, no process is forgotten, no port
  is given twice, a shutdown ends;
- overlays: a wrong prediction disappears, a right one is confirmed by a later frame;
- terminal: the cursor stays on the screen; no row is lost, doubled or mixed up while the
  ring turns; output is handled once, in order and in the end; the client's emulator
  becomes that of the server.

## 2. Modules

| Module | Models | Extends / composes |
|---|---|---|
| `SSP` | `Transport` and `TransportSender` at both ends, the two main loops, the network between them | |
| `UserStream`, `Complete` | the two kinds of state, as pure operators | |
| `StreamSync` | abstract: events go in at one end and come out at the other, once and in order; a clean close has delivered all; the promise may end with a disturbance | |
| `MCSSP` | `SSP` carrying `UserStream` one way and `Complete` the other, as the programs instantiate it; the delivery properties; `SSP` implements `StreamSync` | `SSP`, instances of the three above |
| `SSP_proofs` | the theorems about numbers, queues and acknowledgements in `SSP`, and those that rest on the order of the packets under way | `SSP` |
| `Keystrokes_proofs` | the theorem about the user streams that `SSP` carries, and what the folds of `UserStream` compute | `MCSSP`, `SSP_proofs`, `Folding` |
| `Fragments` | `Fragmenter`, `FragmentAssembly` and the datagrams between them; implements `Datagrams` | instance of `Datagrams` |
| `Datagrams` | abstract: what comes out went in, whole. `SSP` takes this for granted of the layers below it | |
| `MCFragments` | two instructions, two MTUs | `Fragments` |
| `Fragments_proofs` | the theorems about `Fragments`, that it implements `Datagrams` among them | `Fragments` |
| `MainServer` | `run`, `uxServe`, and the life of the child processes | |
| `MainServer_proofs` | the theorems about `MainServer` | `MainServer` |
| `Connection`, `MCConnection` | the `Connection` of a client and that of its server, the network and the clock | |
| `Connection_proofs` | the theorems about `Connection` | `Connection` |
| `PredictionEngine` | the engine of `frontend/overlay.go`, as pure operators | |
| `Prediction`, `MCPrediction` | the client's loop with its engine, the server's echo acks, the host | `PredictionEngine` |
| `Prediction_proofs` | the theorems about `Prediction` and its engine | `Prediction` |
| `Framebuffer` | cells, rows and the ring of `terminal/framebuffer.go`, as pure operators | |
| `Parser` | sequences, their parameters and what they do to the parser | |
| `Emulator` | the emulator's state and what several handlers share | `Framebuffer`, `Parser` |
| `Handlers` | one operator for each `hdl_` function, and what is sent to the client | `Emulator` |
| `Terminal`, `MCTerminal` | the server's emulator, `HandleLargeStream`, resizes, frames, the client's copy | `Handlers` |
| `Folding` | what `FoldLeft` computes, for any operator: lemmas | |
| `Terminal_proofs` | the theorems about `Terminal` and its handlers | `Terminal`, `Folding` |

### SSP

A variable is a field of `TransportSender`, `Transport` or `Connection`, as a function of
the end. The methods of the `State` interface are constant operators, so that the module,
like the Go type parameters, does not depend on what is synchronised.

| Action | Code |
|---|---|
| `TickAssumingNewest`, `TickAssumingOldest` | the whole of `tick`: `updateAssumedReceiverState`, `rationalizeStates`, the difference, `Reset`, then `sendToReceiver`, `sendEmptyAck` or nothing, with `addSentState`, the write and its failure |
| `Recv` | `ProcessPayload` from the acknowledgement to the insertion, and what the main loop does at once with the result: `GetRemoteDiff` at the server, `outputNewFrame` at the client |
| `Input` | input or output fed into `currentState` |
| `StartShutdown`, `End`, `Abort` | the ways out of the two main loops, in the order of their conditions |
| `Lose` | the network; duplication and reordering are in `Recv` |

What is abstracted:

- time. A tick may happen at any moment. `updateAssumedReceiverState` gives the newest
  state as long as the sent states are young and the oldest one after a timeout; the model
  chooses. With "retry" in `Early` that timeout may expire at any moment,
  otherwise only when nothing is under way; with "shutdown" in it the ten seconds of a shutdown may be
  over at any moment, otherwise the tries are counted;
- the connection is whether the server has heard from the client (`hasRemoteAddr`);
- the terminal is the sequence of outputs that it has consumed; `Terminal` looks into it. The
  echo ack is in `Prediction`, the window size in `Terminal`;
- `Awaken`, the reset after hibernation, is left out.

What is kept although it looks odd: the insertion of a late state that overwrites its
successor (`InsertOutOfOrder`), the pointer into an array that is compacted before it is
used (`ReferenceState`), the cut of the queue of sent states at its old end
(`AddSentState`), the one object that is twice in `receivedState` and is subtracted from
twice (`RationalizedReceived`), the list of instructions that is made anew
(`AddInstruction`), and the difference that ignores its reference state (`Complete`).

`fed`, `obtained`, `accepted`, `overflowed` and `mishaps` are history variables. `mishaps` records, at the step where it
happens, that a difference `tick` sends fails the check of `sender.go:381` (`VerifyDiff`), that the
receiver applies one to another state than the one it refers to (`ReferenceMoved`), or that it writes a late state over
another. These are the three things that are known to go wrong (section 5); what is claimed of delivery is claimed until one of
them has happened, and not of a bounded number of keystrokes.

### Fragments

`Send` is `makeFragments` and the writes of `sendFragments`, which stop at the first
failure; `Recv` is the beginning of `ProcessPayload`. The bytes of a payload are known by
the instruction they belong to and their range; decompression and unmarshalling succeed
exactly on a range from the first byte to the last (`Decode`). Number and final flag share
16 bits on the wire (`OnTheWire`). What the network may do is chosen once (`weather`), so
that one run covers all eight networks.

### MainServer

`pc` is where `run` is: at the top of its loop, at the read of the UDP socket, waiting for a
key, in the wait of `shutdown`, done, or fallen into the nil dereference. `ux` is where
`uxServe` is. Each child has a stage, the state of its `serve` goroutine and the state of
its shell goroutine. A SIGTERM reaches a child that has a handler only while `serve` runs;
otherwise the process dies of it. `mishaps` records the four events after which the main
server's promise no longer holds; the properties say so explicitly.

### Connection

`SendFromClient` and `SendFromServer` are `send` with what follows the write: a hop of the
client (`hopPort`, `pruneSockets`), the detachment of the server. `RecvAtServer` and `RecvAtClient` are
`Recv` and `recvOne`, with what `ProcessPayload` then tells the connection of the newest acknowledged
state. What `Awaken` answers is an input. A packet remembers, for the properties, when it was
sent and what it echoes before the times were cut to 16 bits. Three things of the code to
know when reading it: a missing reply is sent as 0 while `recvOne` takes 65535 for none, so
that such a packet yields a sample that is no round trip (section 5), about which `SampleIsRoundTrip` says nothing; `timestamp16` is
modulo 65535 and `timestampDiff` modulo 65536, hence the one unit more; and beyond
`MAX_PORTS_OPEN` all sockets but the newest are closed, which `crowded` records.

### Prediction

A screen is its size, its cursor and its cells; a prediction of the engine is a cell or a
cursor with its epoch and its frame. The client's actions are the events of its loop
(`ProcessNetworkInput`, `ProcessUserInput`, `Paste`, `ProcessResize`, `Timeout`), each followed by the tick and by
`OutputNewFrame`; the server's are `ServeInput`, `ServeOutput` and `ServeTimeout`, each followed by `SetEchoAck`. The
host echoes, keeps silent or prints something of its own. Time is left out: any of the
oldest frames may have reached `ECHO_TIMEOUT`, and `pace` says whether predictions have waited long.
`unfounded` records that something was predicted without regard to what was there: a wide glyph, whose
two cells keep their marks, so that a newline in the last row then predicts cells that are empty but not
blank, which the screen seems to confirm; or a newline in a last row that is not blank (section 5).

### Terminal

An emulator is a record; `hdl_x(e, ...)` is the emulator after the function `hdl_x`. A control sequence
is a record of its name, its form and its parameters, and a stream is a sequence of them,
possibly cut in two by a read. `ActLarge` takes a stream; `HandleNext` runs one handler, records it in
`diffBuf` unless it is excluded, and `Rewind` puts the rest aside when the ring is full; `Feed` brings it
back. `ServeResize` is the user's change of size. `Send` is a tick that sends (`diffFrom`, and `ApplyString`
at the client), `Drop` one that finds nothing to send. `queue` is what a single parser makes of
everything that was written, which is what an application means.

The replay in the client is not always faithful, and the reasons are kept in `apart`:
"region", when the size sent is that of the scrolling region (`complete.go:205`, `emulator.go:739`);
"order", when the size has changed after some output, or within it; "again", when an application's request
for a size (`XTWINOPS`), handled by a client that has the size already, sets another; "parser", when what
was sent is read otherwise by the new parser of a clone (`emulator.go:833`), as a repetition or a
VT52 sequence is; "excluded", when a request that is not sent has changed the level
(`DECRQSS`); "dropped", when `Equal` does not see the difference and the tick drops what made it.
`jumbled` records that the parser, which has read the whole stream, was not as it would have
been before the rest that was put aside (`emulator.go:604`), or was reset by a handler (`RIS`). What
happens in those cases is not claimed to be right; `ClientAgrees` and `HandledInOrder` are about all
others. A behaviour stops when the cursor has left the screen, which three places allow;
`TypeOK` names them.

## 3. Runs

| Run | Shows |
|---|---|
| `ssp_safety` | Both ends, shutdowns from either side, failing writes, idle acks, packets lost and duplicated both ways and reordered on the way to the client, queues of 3 that overflow, a receiver that refuses at 1: the types (no queue is ever empty), the order of the queues, that numbers and acks are about real states, that the oldest sent state is known to the receiver, that nothing is accepted twice, that a clean exit is one |
| `delivery` | Keystrokes and resizes while packets are lost both ways, those to the server are reordered and sent again at any moment, and either end shuts down or the server vanishes: differences have the round-trip identity unless a keystroke comes straight after a resize (`KeystrokesRoundTrip`); the input comes out once and in order (`StreamSync` is implemented) and in the end, until one of the three mishaps; every shutdown ends |
| `fragments` | On all eight networks: `Datagrams` is implemented, the assembly is consistent; in order where fragments are in order; everything arrives where nothing is lost |
| `main_server` | Two sessions opened, closed, killed and shut down in every order: least free port, number of processes and of workers, keys, no forgotten process, and that a shutdown completes |
| `connection` | Packets lost, duplicated and reordered while the client moves and changes sockets and the server detaches: the server answers to where the newest packet came from, on a socket that is still open; it stays attached to a client it hears; a sample taken from a packet that echoes one is a round trip |
| `prediction` | Typing, pasting and resizing against late frames, late echo acks, a silent host and output of its own: predictions fit the screen, answered ones are gone, nothing is shown before the host has echoed something, and in the end the user sees the server's screen |
| `terminal` | Every control sequence from six states of the terminal, streams that fill the ring or are cut, one resize, frames at any moment: cursor, margins and rows stay in place (`TypeOK`), the scrollback is kept, output is handled once, in order and in the end, and the client's emulator becomes the server's |
| `ssp_reordered`, `ssp_late_ack`, `ssp_lost_output`, `ssp_resize`, `main_server_placeholder` | disagreements between the code and what it says of itself, section 5 |

Every property of a passing run is accompanied by a mutant of a modelled definition (an `M...`
operator next to it) that violates it.

Bounds, and why they are enough:

- `ssp_safety`: two ordinary numbers at the server and one at the client besides the
  initial ones and the shutdown's (`MaxNum`), two outputs, two packets under way to the
  client and one to the server. Two packets are what overtaking takes; `QueueLimit = 3`,
  `QueueDrop = 2` and `ReceivedLimit = 1` stand for 32, 16 and 1024, so that the cut and the
  refusal happen with these numbers; one retry stands for 16. The theorems in section 4
  remove these bounds for most of the properties;
- `delivery`: three events, each a keystroke or a resize, two ordinary numbers at the client and one at the server, two packets
  under way to the server, the timeout of the client at any moment, so that an instruction is sent again while the first is under way
  and either may come late. Two more bounds keep the run small (`ServerExitsEarly`, `NumberIsLeft`): the server starts a shutdown of
  its own before the second event, and the client has a number left for each event. With them each of the three mishaps
  still happens in the run, so that the bounds leave room for what is known to go wrong. The queue limits are the real
  ones and not reached;
- `fragments`: instructions of one to three fragments under the two MTUs, two ids, five
  fragments under way, so that a whole instruction and the start of another overtake each
  other. `NumLimit = 4` stands for 2^15, so that the longest instruction is just below it;
- `main_server`: two children, two attempts at a port, two workers at most, either no
  foreign port or two that leave a gap. Two children are what it takes to confuse keys and ports.

- `connection`: a clock of four units that wraps within the run, three packets of the
  client and two of the server, one move, at most two sockets and so a third that is one
  too many; every limit is one or two units, so that each is passed and not passed. Two
  packets under way to the server are what overtaking takes;
- `prediction`: a screen of two rows and three columns, so that the last column, the wide
  glyph at the edge and the newline in the last row happen within three keys; one resize to
  a single row; predictions always shown and inserting, or shown when they seem right and
  overwriting; one output of the host besides its echoes;
- `terminal`: three columns, three rows and two rows of scrollback, the smallest in which margins,
  wide glyphs and a full ring occur; six states to start from (new, full scrollback with
  a saved cursor, margins in origin mode, the alternate screen, left and right margins in
  insert mode, VT52); first any sequence or a long stream, then one of seventeen that read
  what the first has changed; one resize to fewer rows or to more of both.

`MaxUint64 = 9` stands for 2^64-1: a number that no ordinary state has.

Deadlock is checked in `prediction`, where the client's timer always runs. In the others it is not:
sessions and servers end, clocks reach their bound, and applications have written all.

Fairness. `delivery`: the timers of `calculateTimers` make an end tick as long as it runs (weak
fairness of the tick, whichever state it assumes), a packet repeated for ever gets through (strong fairness of `Recv`,
without which a network that loses everything would be a counterexample), and the main
loops look at their exits in every round (`End`). `fragments`: the reader goes on reading.
`main_server`: processes and goroutines go on, `shutdown` and `uxServe` take what is there, and a
`serve` that has been told to stop, or whose shell is gone, stops, which is what `delivery` shows
of it. `prediction`: what was typed is sent in the end and arrives, a frame reaches `ECHO_TIMEOUT`, and
the client hears of it, all of which `delivery` and the timers justify. `terminal`: the main loop goes
on handling, the goroutine that feeds a rest runs, and a tick that is due happens. Nothing is assumed of the user, of requests, of crashes, or of shells exiting by
themselves.

## 4. Theorems

All of them hold for every value of the constants under the assumptions named here, which TLC evaluates
on the instances of the runs. A theorem of a property a run checks names that property.

### SSP_proofs

For every interface of states whose methods stay within their types (`StatesClosed`, a hypothesis of each
theorem that both `UserStream` and `Complete` satisfy), every queue limit, every bound and every network:

| Theorem | Statement |
|---|---|
| `Invariance` | `Spec => []IInv` |
| `TypeCorrect` | `Spec => []TypeOK`; neither queue is ever empty |
| `QueuesStayOrdered` | `Spec => []QueuesOrdered` |
| `OnlySentNumbers` | `Spec => []NumbersWereSent` |
| `AcksAreTrue` | `Spec => []AcksNameAcceptedStates` |
| `FrontIsKnown` | `Spec => []FrontWasAccepted` |
| `CleanShutdown` | `Spec => []ShutdownWasAccepted` |

None of the parts is inductive alone. That the front of `sentStates` was accepted needs that every
ack under way names an accepted state; that an accepted number was sent needs the order of
the queues, since "was sent" is "not above the last number"; a clean shutdown needs both.
`IInv` is the conjunction of the six properties and of `NumbersBounded`, that no number exceeds
`MaxUint64`, which makes the number of the shutdown the last one.

The proof first characterises the steps by what they do to numbers, leaving the states
aside: `TickOutcome` (the queue grows at its end, is cut at its front, or stays, and at most one
instruction goes out), `ReceiveOutcome` (the acknowledged prefix goes, at most one number is
accepted) and `Quiet` (steps that touch neither queue). The lemmas on queues (`KeepFrom...`,
`AddSentState...`, `InsertOutOfOrder...`) say what the slices of the Go code keep; that `Min` of the
positions exists comes from the well-foundedness of the naturals. One lemma per action
then shows that it preserves `IInv`.

The last part of the module is about packets that arrive in order:

| Theorem | Statement |
|---|---|
| `OrderInvariance` | `Spec => [](IInv /\ OInv)` |
| `ReferencesAreAlwaysKept` | `Spec => []ReferenceIsKept` |
| `FrontIsAlwaysHeld` | `Spec => []FrontIsHeld` |
| `AckedStateIsAlwaysHeld` | `Spec => []AckedStateIsHeld` |
| `NothingIsAcceptedTwice` | `Spec => AcceptedOnce`, an action property |

`OInv` is about the packets under way, which the properties do not mention. For each end, until its
queue overflows, an instruction never throws away more than its reference, its reference is
not newer than its state, and what it throws away was accepted and is not beyond the front of
`sentStates`. For each end whose packets arrive in order the new numbers under way do not decrease
and are not below the newest received, and the newest received is what it acknowledges; if moreover the
other end has not overflowed, its front is held, and so is any state whose ack is under way and not
before the front. The last is what `processThrowawayUntil` could destroy: it takes the order of
the packets, the order of both queues and the truth of the acks to exclude that.

### Keystrokes_proofs

| Theorem | Statement |
|---|---|
| `KeystrokesAlwaysRoundTrip` | `Spec => []KeystrokesRoundTrip` |

It is about `SSP` with a client that sends user streams, on any network, with any server, any queue limit and any
runes. Besides `StatesClosed` its hypotheses are `ClientSendsUserStreams` (the methods of the client's states are those of
`UserStream`, as `NewTransportClient` has it), `OfAUser` (what the user does is to type graphemes, each a rune with
any number of combining ones behind it, and to resize the window, as the client does before anything is typed,
`client.go:1000`; a combining rune alone is excluded because it would join the grapheme before it) and `NumbersSuffice` (the ordinary
numbers, 2^64-1 in the code, are not used up: else the last of them would start a shutdown). The instance of `delivery`
satisfies all of them.

The property itself excepts the differences in which a keystroke comes straight after a resize (`KeyAfterResize`): for
them `DiffFrom` makes the list of instructions anew, as `ssp_resize` shows. The exception is about the difference between two
states, not about the session: a resize and a keystroke that are sent apart are covered, and so is whatever follows one that
went wrong.

`KInv` says where everything lies in what was typed (`fed`). There is a position for each number, not decreasing, and
a front `b`, such that every sent state is what was typed from `b` up to the position of its number, the current
state is all from `b` on, and every difference under way is the one that puts the events between the positions of
its two numbers behind a stream (`Added`). Neither position nor front is kept by the code: `rationalizeStates`
moves `b` for all states at once, and the differences under way do not notice because they depend on
positions only. That two states share exactly the older one as a prefix, so that `Subtract` and `DiffFrom` find it, is
`WithoutPrefix` and `OfParts`; that one instruction with all the runes is cut into the same graphemes again by the
receiver is `CutsTheLast`, `AddedIs` and `AddedApplies`, on the lemmas of `Folding`; that keystrokes and then resizes are put behind the
stream as they were is `ResizeApplies` and `InputApplies`. An end that shuts down sends its last number
again and again; `KInv` has to say that then nothing has been typed since (`last = MaxUint64`).

### Fragments_proofs

Assumptions: `SizeAssumption`, `IdAssumption` and `FitsAssumption` of `Fragments` (an instruction is not empty,
ids stay below 2^64-1, and the fragments of an instruction can be numbered in 15 bits).

| Theorem | Statement |
|---|---|
| `Invariance` | `Spec => []IInv` |
| `TypeCorrect` | `Spec => []TypeOK` |
| `AssemblyIsAlwaysConsistent` | `Spec => []AssemblyIsConsistent` |
| `OnlyWholeInstructions` | `Spec => WholeInstructions`: `Fragments` implements `Datagrams` |
| `OrderIsAlwaysKept` | `Spec => OrderIsKept`, an action property |

`IInv` says that there is a cut of each instruction, one MTU per id, of which every fragment under way and
every fragment in the assembly is a piece. The cut is quantified existentially because the code does not
keep it: `makeFragments` cuts by the MTU of the moment. From the cut follows that fragments `0` to the final
one, in order, are the whole instruction, which is the step of the refinement.

### Connection_proofs

Assumption: `ConnectionAssumption`, on the limits and the clock.

| Theorem | Statement |
|---|---|
| `Invariance` | `Spec => []IInv` |
| `TypeCorrect` | `Spec => []TypeOK` |
| `TargetIsAlwaysNewest` | `Spec => []TargetIsNewest` |
| `HeardIsAlwaysAttached` | `Spec => []HeardIsAttached` |
| `AnswersAreAlwaysHeard` | `Spec => []AnswersAreHeard` |
| `SampleIsAlwaysRoundTrip` | `Spec => []SampleIsRoundTrip` |

`IInv` adds to the types that every packet under way was made by its sender at the time it carries
(`PacketsAreMade`, `StampsAreCounted`), that the server's expected number and target are those of one packet of the client
(`ServerFollows`), that what was heard was heard no later than now (`HeardBefore`), and that the
newest socket is open (`LastSocketIsOpen`). That a sample is a round trip although both clocks are cut
to 16 bits is arithmetic modulo the clock, with the limit of 5 s that `recvOne` applies. It is said of samples taken
from a packet that echoes one (`Echoed`) and was not under way for as long as the timestamps take to wrap; the others are no
round trips (section 5).

### MainServer_proofs

Assumption: `MainServerAssumption`; any number of children, ports and workers.

| Theorem | Statement |
|---|---|
| `Invariance` | `Spec => []IInv` |
| `TypeCorrect` | `Spec => []TypeOK` |
| `PortIsAlwaysLeast` | `Spec => []PortIsLeast` |
| `WorkersAreAlwaysLimited` | `Spec => []WorkersAreLimited` |
| `KeyIsAlwaysOwn` | `Spec => []KeyIsOwn` |
| `NoSessionIsEverForgotten` | `Spec => []NoSessionIsForgotten` |

`IInv` is `Types`, `Sessions` (which process owns which entry of `workers`, at which stage, and which of its reports are
still to come), `Keys` (whose key is on its way or in `exChan` while `run` waits for one) and `WorkersAreLimited`: at most `MaxWorkers` processes, and
at most `MaxWorkers - 1 + Attempts` workers with the placeholders, since the limit is looked at before they are added (`server.go:720`): 104 for
a limit of 100.
The least port is found by `getAvailabePort` in the sorted list of those in use; that finitely many ports can be sorted, and
that the scan then finds the least gap, is proved by a least counterexample (`PortsCanBeSorted`, `LeastAvailable`).

### Prediction_proofs

Assumptions: `EngineAssumption` (a row, two columns) and `PredictionAssumption`; any size of the window, any
keys, modes and texts, any number of outputs.

| Theorem | Statement |
|---|---|
| `Invariance` | `Spec => []IInv` |
| `TypeCorrect` | `Spec => []TypeOK` |
| `PredictionsAlwaysFit` | `Spec => []PredictionsFit` |
| `OnlyUnansweredEverRemain` | `Spec => []OnlyUnansweredRemain` |
| `NothingIsEverShownBlindly` | `Spec => []NothingIsShownBlindly` |

`IInv` has five parts. `Types`, and `Numbered`, how the numbers of the frames go up from `remote.echoAck` over the server's
to those of the keys not sent yet. `Predicting`: the engine is `Sound`, which is `PredictionsFit` in terms of the engine alone and
more: every active cell has its row in `rows`, or `cull`, which walks the rows, would not judge it; no cell
is of an epoch later than the present one, or a later confirmation would show it; an inactive cell has forgotten
`orig`. `Silent`: while the host has printed nothing, its screen is the client's or erased. `Blind`: then, and as long as nothing is `unfounded`,
no epoch is confirmed, and none can be, since every prediction of the engine remembers (`orig`) what that screen shows
in its cell (`Guesses`). The last two hold each other up: without
`Guesses` a `cull` could confirm an epoch, without `Unwritten` a new screen could.

The lemmas follow the engine: what each of its steps keeps of `Sound` and `Guesses` (`ResetHas`, `KillEpochHas`,
`CullHas`), then each handler (`GlyphHas`, `NewlineHas`, `CursorForwardHas`, ...), then a round of the client's
loop (`RoundHas`) and a step of the server (`ServedHas`), under which all actions fall. `cull`'s loop over the
cells and the folds `Kept` and `FlattenSeq` are recursive functions; that they are defined, and what they keep, is
proved by a least counterexample (`UpTo`).

### Terminal_proofs

Assumption: `TerminalAssumption`, that sizes are numbers and that what is written consists of pieces of
control sequences; any size of the terminal and of the scrollback, any sequences, and any number of them.

| Theorem | Statement |
|---|---|
| `HandleLike` | a handler treats alike two emulators that are `Like` |
| `OutputInOrder` | `Spec => []HandledInOrder` |
| `ClientFollows` | `Spec => []ClientAgrees` |

Two emulators are `Like` each other when they differ in nothing but what the client does not have or compare: the parser,
the flags of the keyboard, the capabilities, the answers to the host, the selection it stores and the count of rows. `HandleLike` says
that this survives every handler that the parser can make (`IsHandler`): that what a handler does
with the screen, the cursor, the modes or the size never depends on what only one end has. That is not obvious, for handlers
ask for the kitty keyboard, answer, or reset all of the terminal; what the parser makes of a
sequence (`MadeHandler`) is needed because some handlers go wrong with other parameters. The proof follows the
code: one lemma for what each function of `Framebuffer`, `Emulator` and `Handlers` keeps, then `MoveLike`, `EditLike`, `ModeLike`
and `AnswerLike` for the groups of handlers. A handler that is not recorded leaves the emulator `Like`
it was (`ExcludedLike`), except a `DECRQSS` that changes the level, which is the reason "excluded".

`ClientFollows` rests on `Typed`, what the variables hold, and `Followed`: as long as `apart` is empty, the server's emulator is
`Like` what the client's becomes when it is given the server's size first and handles `diffBuf` then. This is
inductive although `ClientAgrees` is not. Setting the size an emulator has changes nothing (`SameSize`), so
a frame with and without a size are one case; a request for a size must be the first thing after
a frame and must ask for the same when it is repeated, which are the reasons "order" and "again".

`OutputInOrder` rests on `Ordered`: the parser that will have read what was put aside is the one that has read
everything that was written (`told`), and what it makes of the rest, after `todo`, is `queue`. The step of `Write`
is that reading two streams one after the other is reading both at once (`StreamsInARow`).

Handlers, streams and parsers are folds. `Folding` proves, for one operator that is a constant of the module, that the
choice by which `FoldLeft` is defined exists, goes along the sequence (`Steps`), keeps what the operator keeps
(`Keeps`), and goes over two sequences in a row as over one and the other (`InARow`). Each fold instantiates the module with its
operator.

The attempt to prove `ClientAgrees` showed a fifth reason for which a replay fails, "again", which the instance of the run has no room
for: the zeros of `CSI 8 ; 0 ; 0 t` stand for the size of the scrolling region, and there is none any more when
the request is handled a second time. It also showed that `TypeOK` is not true of every instance (below).

### Only model-checked

The refinement of `StreamSync`, until one of the three mishaps, which is checked on the instance of `delivery` and would need an invariant on what the server has under way, received and applied at each of these moments; liveness, since the prover covers neither fairness nor `ENABLED`; of `Terminal`, `ScrollbackIsKept` and `TypeOK`. The
latter is a property of the instance: a resize to fewer rows, requested by the application, moves the cursor above the screen
(`terminal/emulator.go:163`), a tab stop that was set before the screen became narrower moves it beyond the right edge
(`:423`), and the counts of SU and SD reach cells that do not exist (`terminal/handler.go:811`). Induction over data needs
induction theorems that take an operator as a parameter, which no prover here can instantiate; a least counterexample
replaces them, for one definition at a time or, as in `Folding`, for an operator that is a constant.

## 5. Findings

Each run stops at a counterexample; `findings` in `PROJECT.json` quotes the lines.

1. `ssp_reordered`: a state that arrives late is inserted over the next younger one
   (`network/transport.go:328`), which was acknowledged and is then gone.
2. `ssp_late_ack`: the reference state is a pointer into an array that is compacted before
   it is used (`network/transport.go:285`), so that a difference is applied to another state. Input
   is then applied twice.
3. `ssp_lost_output`: the difference between terminals is the output since the last tick
   whatever the reference state (`statesync/complete.go:222`). After a loss it is incomplete.
4. `ssp_resize`: a keystroke after a resize in one difference drops the resize
   (`statesync/user.go:156`).
5. `main_server_placeholder`: the log line after a message dereferences the missing child of a
   placeholder (`frontend/server/server.go:580`).

`FrontIsHeld`, `AckedStateIsHeld` and `AcceptedOnce` are stated for an end whose packets arrive in order,
because of the first of these; `FrontWasAccepted` and its like hold until the queue of sent states
has overflowed once, because the cut gives up the acknowledged state. Likewise `NoSessionIsForgotten`
holds until `startChild` has given up waiting for a key, and `KeyIsOwn` until then and for requests that were
answered with a key at all.

The proofs have shown two properties to have held only because the instances were small. Both are now stated
with the case that breaks them:

- with three children `startChild` can take a message of the first child, which is already serving, for the
  key of the second, answer the request without a key, and then give the second child's key to the request for the third.
  It takes whatever comes next through `exChan` for the key, whoever sent it. `KeyIsOwn` claimed more before;
- while the host has echoed nothing, a newline in a last row that is not blank is predicted to blank it
  (`frontend/overlay.go:687`), and the blanks, not what is there, become the `originalContents` of the next predictions
  (`:229`). A key that is the character already there then counts as an echo, and what is typed next is
  shown: a one-row window `aaa`, Enter, `a`, `b`. `NothingIsShownBlindly` now excludes what was predicted in
  this way (`IsUnfounded`).

Modelling the terminal and the connection has shown places where the code does what its author can hardly
have meant. They are in the model as they are in the code; no document of the repository
speaks of them, so there is no run for them:

- `resize` to fewer rows moves the cursor up by all the rows that go, even beyond the top
  (`terminal/emulator.go:163`);
- `scrollUp` within margins counts rows as saved that are not (`terminal/framebuffer.go:255`), and the
  full frame is recognised by equality (`:774`), so that a jump over it is not noticed; with a
  bottom margin of one row no output is ever handled (`:770`);
- the counts of SU and SD are not limited to the rows there are (`terminal/handler.go:811`);
- a packet that echoes no timestamp says so with a reply of 0 (`network/network.go:519`, "-1 for c++"), while the receiver looks for 65535
  (`:726`, "-1 in c++"); it takes a sample, the low bits of its own clock, and uses it if it is less than five seconds;
- a repetition in VT mode looks the mapped rune up again (`:304`, `:2287`);
- CSI ? h and CSI ? l without a parameter change the compatibility level;
- ESC Z in VT52 mode leaves the parser within an escape (`terminal/parser.go:1565`);
- ECH with the cursor beyond the right margin gives `eraseInRow` a negative count, which then slices a row past its
  start (`terminal/framebuffer.go:527`); it takes four columns, and `EraseInRow` leaves the row alone;
- XTWINOPS 22 and 23 read a second parameter that need not be there (`terminal/handler.go:2240`);
- in origin mode CUP may leave the screen, and text to the right of the right margin goes
  on beyond it.

## 6. Not modelled

- Encryption (a datagram that does not decrypt is a lost one), compression, the byte formats of
  protobuf, messages and flags, locale, terminfo, termios, logging, utmp: conversions and
  system calls without state of their own. `PROJECT.json` lists them with the rest.
- The display (`terminal/display.go`), which writes a frame in the capabilities of the user's terminal,
  and with it damage, the selection on the screen and the user's own view of the
  scrollback.
- The characters of a control sequence: `Parser` knows sequences and cuts of them, not what
  the state machine makes of ill-formed ones; nor a read that splits a grapheme.
- The values of colours and the tables of the character sets.
- `NotificationEngine` and `TitleEngine`, which format messages, and in the prediction engine the renditions and
  the underlining.
- SRTT and the timers as numbers (`calculateTimers`, `waitTime`, `sendInterval`): ticks happen at any moment. Hence
  nothing is said of how soon something happens.
- The readers' goroutines and the signals (`frontend/read.go`, `frontend/signal.go`): what they deliver is an input
  of the main loops. Suspending the client, and `fetchKey`, which runs ssh.
- `Awaken`: in `Connection` its answer is an input, in `SSP` it is left out.

## 7. Plan

1. Proofs: lemmas on `Framebuffer`, that `GetPhysicalRow` keeps rows apart, for a `TypeOK` of `Terminal` without resizes by the
   application; the refinement of `StreamSync` until a mishap, from `KInv`.
2. The readers' goroutines and the `done` channels of the main loops; the timers of `TransportSender`
   against the clock of `Connection`, with `Early` and `Assumable` of `SSP` as their abstraction.
