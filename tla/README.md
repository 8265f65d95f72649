# Verification of wl2k-go

wl2k-go is a Winlink client library in Go: it exchanges e-mail like messages
over radio links and TCP, with the FBB B2 forwarding protocol ("B2F") between
two stations, a mailbox of plain files, and drivers for modems. This directory
holds TLA+ models of the parts in which order, failure and concurrency matter,
TLC configurations for small instances, and TLAPS proofs for all instances.

## 1. The system: inventory

| Component | State | Operations | Hard behaviour |
|---|---|---|---|
| B2F session (`fbb/wl2k.go`, `fbb/b2f.go`) | `remoteNoMsgs`, `quitSent/Received`, `trafficStats`, the proposal block and the map of sent messages on the stack | `Exchange`, `handleOutbound`, `sendOutbound`, `handleInbound` | whose turn it is, positional answers, implied confirmation, failure between two steps |
| Handshake (`fbb/handshake.go`, `secure.go`) | remote SID, `;FW` addresses, challenge | `handshake`, `sendHandshake`, `readHandshake` | the end of the remote's lines is recognised by what follows |
| Mailbox (`mailbox/syncdir.go`) | `/in`, `/out`, `/sent` directories, `deferred` map, `sendOnly` | `Prepare`, `AddOut`, `ProcessInbound`, `GetInboundAnswer`, `GetOutbound`, `SetSent`, `SetDeferred` | survives crashes; written by other goroutines and processes during a session |
| Proposals, B2 framing (`fbb/proposal.go`, `fbb/b2f.go`) | offset, sizes, checksum | `parseProposal`, `parseProposalAnswer`, `writeCompressed`, `readCompressed` | offsets, chunk sizes, checksum, truncated input |
| Messages (`fbb/message.go`, `header.go`, `mid.go`) | none beyond one message | compose, write, read back | sizes in the header against the sections, a file that is cut |
| LZHUF (`lzhuf/`) | ring buffer, adaptive Huffman tree | `Reader.Read`, `Writer.Write`, `update`, `reconst` | tree invariants, tree rebuilt at a frequency limit |
| ARDOP driver (`transport/ardop/`) | TNC state, `connected`, `closed`, current connection, receive buffer, BUFFER count, broadcaster's receivers | `Open`, `Dial`, `Listen`, `Disconnect`, `Close`; `Read`, `Write`, `Flush`, `Close` of a connection | four goroutines, asynchronous state reports, timeouts, flow control |
| AGWPE driver (`transport/ax25/agwpe/`) | demultiplexer chain, bounded channels, frames outstanding | `RegisterPort`, `Dial`, `Listen`, `Read`, `Write`, `Flush`, `Close` | bounded channels, blocking sends, shutdown while frames arrive |
| Linux AX.25, Kenwood | kernel socket, serial port | dial, listen, a fixed command script | none of their own |
| Registry, URLs (`transport/`) | map of dialers | `RegisterDialer`, `DialURL` | none |
| Telnet (`transport/telnet/`) | none | CMS login, accept | login prompts |
| Hamlib (`rigcontrol/hamlib/`) | TCP connection | one command, one answer | a retry after a lost connection |
| Catalog | none | format a position report | none |

How they interact. A program opens a transport (`DialURL`, or a listener), and
hands the `net.Conn` to `Session.Exchange`. The session runs the handshake and
then alternates between `handleOutbound` and `handleInbound`; both call the
mailbox handler synchronously. Everything written is buffered in the transport,
and the session asks a transport that is a `Flusher` to flush, one that is a
`TxBuffer` for its length, and one that is a `Robust` for a slower mode. The mailbox
is shared with the program that composes messages (`AddOut`), which runs
concurrently, perhaps in another process.

What makes each part correct:

- session and mailbox together: a message is marked as sent only if the remote
  has stored it; nothing is lost, or transmitted again once stored; the two
  ends agree on whose turn it is and on which answer and which data belong to
  which proposal; a session that ends without error has drained the outbox;
  every session ends; what remains after a failure is delivered later;
- framing: what `readCompressed` returns is what `writeCompressed` was given,
  and an answer line means the same to its writer and its reader;
- drivers: bytes arrive in order and once; a call returns when the connection
  goes away; no goroutine blocks for ever; the driver can be used again after a
  connection has ended;
- messages: what the calls that compose a message make is written and read back as
  it was, and a file that is cut is not taken for a whole one;
- LZHUF: the tree stays a Huffman tree and its tables mutual inverses, the
  search tree stays a tree, what was written is what is read, and `Close` of the
  reader finds damage;
- login and handshake: no line of the session is lost in the login, both ends end
  up with the same idea of each other, and neither waits for ever.

The hazards behind these properties, each at its line, are listed in
`PROJECT.json`.

## 2. Plan

| Step | Modules | State |
|---|---|---|
| 1. two sessions, two mailboxes, a link that breaks; the abstract hand-over of custody; the inductive invariant and its proofs | `B2FExchange`, `Custody`, `B2FCustody`, `B2FInvariant`, `B2FExchangeProofs`, `B2FSafetyProofs`, `B2FMailProofs`, `B2FSessionProofs` | done: every invariant and the refinement |
| 2. an established ARDOP connection with its flow control | `ArdopConn` | done |
| 3. compression, as operators checked against what a file must give back | `LzhufCode`, `Lzhuf` | done |
| 4. a block of messages byte by byte: answer line, frames, checksum, decompression, parsing | `Message`; `Transfer`, which composes the framing with `LzhufCode` and `Message` | done |
| 5. the AGWPE driver | `Agwpe` | done, one connection |
| 6. telnet login and the contents of the handshake | `Login` | done |
| 7. ARDOP links one after the other: dial, listen, received data | `ArdopTNC` | done; of `Disconnect` only the one the control loop starts, no cancelling |
| 8. proofs for the login and the drivers | `LoginProofs`, `ArdopTNCProofs`, `ArdopConnProofs` | done: the invariants of `Login`, `ArdopTNC` and `ArdopConn` |
| 9. the same for AGWPE (`DialMissesNothing`, `FlushMeansDrained`, `OnlyDropsLose`) | `AgwpeProofs` | done |

Modules of the steps 2 and 5 to 7 contain no RECURSIVE operator, so that they can be
proved about. `LzhufCode` needs recursion and bit operations and stays with TLC, and
with it `Lzhuf` and `Transfer`; `Message` has three recursive operators and stays there too.

## 3. Modules

| Module | Contents |
|---|---|
| `B2FExchange` | the specification: constants and their assumptions, one action per step of `Exchange`, mailbox operations, faults, fairness, properties |
| `Custody` | the abstract specification: pending, stored, released |
| `B2FCustody` | the refinement mapping to `Custody` |
| `B2FInvariant` | the inductive invariant `ExchangeInv`, by named parts |
| `MCB2FExchange` | instances for TLC |
| `B2FExchangeProofs` | `TypeCorrect` |
| `B2FSafetyProofs` | the two peers and the wires: `ProtocolInvariant`, `SentIsReceived`, `DataIsProposed` |
| `B2FMailProofs` | the mailboxes and the reports: `MailInvariant`, `ReportedIsInOutbox`, `ReportsAgree`, `NothingTwice`, `Refinement` |
| `B2FSessionProofs` | how sessions end: `ExchangeInvariant`, `TurnsAlternate`, `CleanEnd`, `NoErrorWithoutFault` |
| `ArdopConn` | one established ARDOP connection: control loop, broadcaster, the goroutines in `Write`, `Flush` and `Close`, an external TNC |
| `ArdopConnProofs` | `ConnInvariant`, `TypeCorrect`, `FlushCovers` |
| `ArdopTNC` | ARDOP links one after the other: dialling, listening, received data, the end of a link |
| `ArdopTNCProofs` | `TypeCorrect`, `LinkInvariant`, `OwnLink`, `WithoutHoles` |
| `LzhufCode` | the algorithms of package `lzhuf` as operators on records |
| `Lzhuf`, `MCLzhuf` | a `Writer`, the file, a `Reader`, call by call; instance |
| `Message` | composing, writing and reading a message, as operators |
| `Transfer`, `MCTransfer` | a block of proposals, its answer line and its messages, byte by byte; instance |
| `Agwpe` | the AGWPE driver: demultiplexers, chains, port, one connection, an external TNC |
| `AgwpeProofs` | `DataIsInOrder`, `DialledMissesNothing`, `FlushedIsDrained` |
| `Login` | telnet login and B2F handshake between two stations, or with a CMS |
| `LoginProofs` | `LoginInvariant`, `ReadersEmpty`, `HandshakeInvariant`, `BothKnow`, `FailureHasReason` |

### The exchange

Correspondence with the code. `pc[p]` is where peer `p` is in `Exchange`:
`start` (before `Prepare`), `handshake`, `outbound` (the first call of
`outbound()` in `handleOutbound`), `propose` and `answer` (in `sendOutbound`),
`send` (the loop that transmits, then the rejections and the choice of
turnover), `confirm` (the `Peek(1)` after the block), `mark` (the loop that
reports), `inbound` and `receive` (`handleInbound`). `props`, `todo`, `acc` and
`rej` are the live locals of these frames; they vanish when `Exchange` returns.
`out`, `sent`, `inbox`, `torn` and `writing` are directories and survive crashes.
`deferred` is the map in memory, cleared by `Prepare`. `wire[p]` is the FIFO of units
that peer `p` has not read; a unit is what one write loop emits before its reader acts
(handshake, block up to `F>`, `FS` line, one message from `SOH` to `EOT`, `FF`, `FQ`,
`***`).

Abstractions, and why nothing a property speaks about is lost:

- A unit cut in the middle by a broken link is dropped: every reader of the code returns
  the same error for an end of file inside a unit as for one in front of it, and
  stores nothing before it has verified the checksum of the whole message. Only
  `Peek(1)` (`src/fbb/b2f.go:99`) is content with the first byte of a unit that is cut
  afterwards: the sender then reports its block, as if the whole unit had arrived, and
  fails at the next read.
- The remote's `;FW` address is one, so `GetOutbound`'s test is membership in
  `Addressed`. `Rank` is `sortProposals`' order, total because ties are broken by
  MID.
- A write to a peer that has returned, or over a dead link, vanishes unless it is a
  message. The code looks at the errors of three writers, `writeCompressed`,
  `sendHandshake` (`src/fbb/handshake.go:163`) and `writeProposalsAnswer`
  (`src/fbb/b2f.go:330`); for the last two the model has the session fail at its next read
  instead, with nothing in between that a property sees. The error of `conn.Close` at the
  end of a session (`src/fbb/wl2k.go:285`) is left out: nothing is sent or stored after it.
- `OpenFails` is the fault that an inbox file is there and cannot be opened:
  `GetInboundAnswer` logs it and accepts the message again. `unread` holds those files until
  the next session.
- A process that dies in `AddOut` leaves the outbox as it was; the model tears inbox
  files only.
- Robust mode, status updates, logging, traffic byte counts and the contents of the
  handshake do not influence the control.
- `SetSent` of a file that is not in `/out/` ends the process with `log.Fatal`; the model moves the
  message anyway and `RenameHasSource` states that this never happens.

### The ARDOP connection

Correspondence with the code. Each goroutine has its own actions and they
interleave at the points where the code blocks or another goroutine can see the
difference.

- The control loop (`runControlLoop` in `tnc.go`) reads `line`. `HandleReport` is the
  `switch` on the message, with `updateBuffer` and `eof`; the report then waits in
  `ctl` until `Broadcast` hands it over, as the unbuffered `in.Send` does. `CloseTNC`
  is the end of the loop at the end of the TNC's stream (`tnc.close`).
- The broadcaster (`broadcast.go`): `reg` is its list of receivers, `togo` those that
  have yet to get the message `cast`, `msgs[r]` the channel of receiver `r`,
  `gone` the channels it has closed. `Listen` is not a step of its own but part of
  `WriteListen` and `CloseListen`, which block with it.
- `pcW` is where the writing goroutine is: `listen`, `send`, `wait` are the points
  in `Write` at which it blocks, `flush` is `Flush`. `pcC` is the same for `Close`,
  called by another goroutine at any time.
- `locked` and `waiters` are the `flushLock`: `waiters` holds the goroutines whose
  `WaitChan` has not been closed.
- `tx` and `line` are the lines to and from the TNC, `queue` its transmit buffer.
  `taken`, `aired`, `ok`, `flushed`, `seen` and `flushedTo` are history: `seen` is the
  number of chunks that were queued when the TNC made the report that ended the last
  `Write` (`k` in the report, which the code does not have), `flushedTo` its value
  when `Flush` last returned without an error.

Abstractions, and why nothing a property speaks about is lost:

- A chunk is the data of one `Write`, and BUFFER counts chunks where the TNC counts
  bytes. The code compares the number with zero only.
- A receiver that its owner has closed is removed at once. The code removes it when
  the broadcaster next meets it, which it does without waiting.
- `NEWSTATE DISC` is not told apart from `DISCONNECTED`: both end the connection with
  `eof` in the control loop.
- A send on a closed channel and a write error in the control loop are the program's
  `panic`; `pcW` or `pcC` is then `"panic"` and goes nowhere.
- The broadcaster's 500 ms run out only for a receiver whose owner is stuck in a
  blocked send to the TNC. A goroutine that waits for messages takes them long before.
- A goroutine in `Write` whose receiver was dropped reads zero messages from a closed
  channel without end (`conn.go:117`) until the link ends; in the model it waits for that.
- After an error the user writes no more (`stop`). It flushes whenever it likes; the
  session flushes once after the many writes of a message (`writeCompressed`).
- The TNC is external. It queues data, reports BUFFER whenever the length of its
  queue changes, answers a damaged frame with CRCFAULT, and ends a connection on
  command or on its own.

### Compression

`LzhufCode` is the package as operators on records; names follow the code. `huff` is
the adaptive tree (`freq`, `prnt`, `son`), `tree` the search tree (`lson`, `rson`,
`dad`). Loops are recursive operators. `newLZHUFF`, `update` and `reconst` are the
Huffman part; `InitTree`, `InsertNode` and `DeleteNode` the search part, with
`JoinSons` for the case of two sons; `WriteByte`, `advance`, `encode`, `encodeChar`,
`encodePosition`, `putCode` and `encodeEnd` the `Writer`; `Read`, `decodeChar`,
`decodePosition` and `ReadBits` the `Reader`. A file is a sequence of bytes with its
checksum and length in front, as `Close` writes it. The widths of bytes, of the bit
register and of the checksum and the tables of the position code are the code's; the
sizes of alphabet, window and lookahead and the frequency limit are constants. The
format without a checksum is left out: the session never uses it.

`NewReader` starts at `N - R` where the writer starts at `N - F`, as the code does.
Positions are relative, so nothing depends on it as long as both have enough blanks
in front; `ReaderStart` states that as an assumption.

`Lzhuf` calls these operators as a program would: any number of `Write`s, `Close`, an
optional damage (one bit flipped, or the end cut off), and `Read`s with buffers of any
of the given sizes, closed at any time.

### Messages

`Message` has the calls that compose a message (`NewMessage`, `SetBody`, `AddFile`),
`Bytes`, which is `Write`, and `ReadFrom` with `readSection`. A message is a record of
`header`, `body` and `files`; a header maps names to lists of values and has only the
names that decide how the rest is read. A byte is a digit, a separator, a letter or a
name of the header with its colon. The line breaking of `StringToBody` is kept, with the
largest line (`LineLimit`) and the largest token of a Scanner (`ScanLimit`) as
constants; character sets and encoded words are not.

### A block of messages

`Transfer` starts with the proposals of a block (`sprops`), among them perhaps one of an
older kind or one message twice, and follows `handleInbound`: `Answer` decides and writes the line,
`parseProposalAnswer` reads it. `AnswerFromOther` is another program's line with an
offset request. Then `SendHeader`, `SendChunk` and `SendEnd` put the bytes of
`writeCompressed` on the `wire`, and `Receive` is one turn of the state machine
that `readCompressed` is, with the place in it in `rx.st`. At the end of the stream
`ReadCompressedEOF` keeps the code's habit of taking a byte that is not there for 0
before it looks at the error. A message that is complete is decompressed by `Data`,
with three outcomes, `ok`, a panic, or a loop that never ends, and then parsed, which may
be an error. The link may flip a bit of one byte or turn it into NUL, STX or EOT, and may
end. A file of fewer than six bytes (`src/fbb/b2f.go:413`) does not come out of the
compression and is left out, as is the slice at the offset (417): the messages that are sent
have offset 0, as all answers of this program ask. In `Message` a size in the header has no sign: `Atoi` takes
`-5` too, and `make` would panic (`src/fbb/message.go:367`).

### The AGWPE driver

A frame passes three demultiplexers (`tnc`, `port`, `conn`), each with a channel of one
place (`in`), a mutex and a goroutine (`run`). A client is a channel (`resp`) for some
kinds of frames, one frame or all of them; `req[l]` is a caller that holds the mutex
until `run` has taken its request. A chain is the goroutine between two
demultiplexers. `u` is where the user's goroutine is, `op` what it waits for
outstanding frames for.

- Receiving a frame and handing it to the first client is one step if that client has
  room: nobody can see the state in between. If not, the frame stays in hand, and
  `run[l].todo` is the set of clients that have yet to get it, in the order they
  registered (`First`). `got` keeps the frames `Read` was given.
- `over` holds the clients whose channel is closed; `"nil"` in it says that `Frames`
  was called on a demultiplexer that had been closed since `Chain` looked.
- The TNC is external. It handles a command at once, answers `d` only for a connection
  it has, and need not know the kinds `g` and `Y`. A data frame it has taken is counted
  later (`lag`, `out`), and earlier frames may be acknowledged before that. It acts until
  the user is done.
- `owed` is what of the frames that were counted when `Flush` was called is still
  outstanding; `piled` says that the last `Write` found frames outstanding. Both are
  history.
- The user flushes only after a write, and closes after an error.
- `FlushTimeout` may return nil: a goroutine that finds the time over between two
  questions ends without an error. `late` says that a wait was given up. The step is
  possible where the goroutine waits for an answer or is about to ask, not while it is
  registering for the answer.
- Smaller differences: the wait for connect frames (`handleInbound`) begins with the
  registration of the port and not just before it (`port.go:32`), when no connect frame
  can come; a connect frame always says that we are connected with the station we called
  (`conn.go:239` gives up otherwise); reads and writes have no deadlines (`conn.go:141`,
  `166`), which a session sets only for the line with which it reports an error.

### Login and handshake

A line is a record of what its readers tell apart. `buf[e]` is the `bufio.Reader` end `e`
reads through at the time; `Fill` gives it any non-empty prefix of what has arrived.
Login and session have readers of their own, and `EndLogin` discards the first
(`swallowed`). A response is the pair of challenge and address for which it was
computed. The scenario (who listens, the message of the day, what a CMS says, what the
password function returns) is chosen in `Init`. The message of the day has at most one
line, of every kind that `readHandshake` tells apart. With two lines, a SID and then one
that ends in ">", the dialling end would take the handshake for finished and read the
master's SID as the first command of the session.

### ARDOP links

`ArdopTNC` has the goroutines in which a connection begins and ends: the control loop
(`state`, `eof`, received data), `DialBandwidth` (`call` is `arqCall`, `get` the `MyCall`
after it, whose answer must arrive before `tnc.data` is set), the listener, and the user
who reads and closes. `chans` are the channels that were `tnc.dataIn`, `cur` the present
one; `conns` the connections, each with the channel it was given. Commands and data come
on one stream or (`IsTCP`) on two that overtake each other. Receivers have no bound
here; the bound and its time-out are in `ArdopConn`. A link takes seconds to be made, so
everything about the last one has arrived by then (`Connects`).

A frame that finds the channel full (`DataCap`) for a minute is gone (`thrown`), and a
`Disconnect` is started (`disc`), which runs later and ends whatever link it finds. The
minute is not a state of its own: the control loop waits, and the step is the end of the wait,
with room or without. In `Disconnect`, `eof` and the DISCONNECT to the TNC are one step;
that `eof` may run while the control loop is in the middle of its own, or closes the channel the
control loop is sending on, which is a panic, is not modelled. `CloseTimeout` is the ABORT
after thirty seconds.

## 4. Runs

### The exchange

All bounds are constants of the cfg: `Mid` (at most four messages, three of one
peer so that a block of `MaxBlockSize = 2` does not hold them, one of the other
so that both ends have turns with and without messages), `MaxFaults`. The number of
sessions is not bounded.

| Run | Checks | Shows |
|---|---|---|
| `exchange_faults` | `TypeOK`, `SentImpliesReceived`, `OneTurn`, `CleanEndDrains`, `ErrorsHaveCause`, `ExchangeInv`, `ImplementsCustody`, `SessionEnds`, `Delivered` | with three faults of any kind at any step, over any number of sessions: nothing is marked as sent that is not stored, the two ends agree on turns, a clean session has drained the outbox, an error has a cause, and the exchange implements `Custody`; `ExchangeInv` is the invariant the proofs use; with fair scheduling every session ends and every message is delivered |
| `exchange_compose` | `DataMatchesProposal`, `StatsAgree`, `NoRedundantTransfer`, `RenameHasSource` | a fourth message is composed while sessions run (blocks may turn out empty), one peer only sends and defers what it is offered, and a failed write leaves a truncated inbox file: data still belongs to its proposal, the statistics agree, nothing is sent twice unless an inbox file could not be opened, `SetSent` finds its file |
| `torn_inbox` | `SentImpliesReceived` violated | see findings |

Three faults suffice for a failure in a session, another in the session that
repairs it and a third in the one after that; two blocks suffice for
`handleOutbound` calling itself and for a second turn of the same peer. Messages that
are for somebody else (outside `Addressed`) are left to the proofs, which hold for any set.

`OneTurn`, `CleanEndDrains` and `ErrorsHaveCause` are checked without concurrent
composition. With it an `AddOut` between the two calls of `outbound()` makes an
empty block possible, whose answer never comes: both ends then write, and the
session ends with an error.

Fairness (`Fairness` in `B2FExchange`). Weak fairness of `SessionStep(p)`: the
goroutine that runs `Exchange` is scheduled, and what was written on a live link
arrives. Weak fairness of `EndAddOut(p)`: a `WriteFile` that has begun ends.
Weak fairness of `Connect`: stations connect again when both are idle; this is a property
of the operator, and `Delivered` needs it because one broken session
delivers nothing. Nothing is assumed of faults or of new messages.

### The ARDOP connection

| Run | Checks | Shows |
|---|---|---|
| `ardop_serial` | `TypeOK`, `FlushCoversCounted` | over a serial line with damaged frames, with a TNC that may die and a user who writes and flushes in any order, a flush that returns has everything transmitted that was queued when the TNC made the report that ended the last write |
| `ardop_flush` | `FlushMeansDrained` violated | see findings |
| `ardop_live` | `CloseReturns`, `ControlLoopLive`, `EofReleases` | with all queues at their limit no goroutine waits for ever: the control loop goes on, `Close` returns, the end of the link releases the writer |

Bounds. `MaxWrites = 3` lets one chunk be transmitted, one queued and one written, which
the counterexample of `ardop_flush` needs; with three damaged frames (`MaxFaults`) a chunk
uses up its three attempts.
`RecvCap = 3` is the capacity `Listen` gives a channel. `TxCap` and `LineCap` stand for the
buffers of the operating system; the only question is whether they are
full. `ardop_live` sets all three capacities to 1, so that the circular wait happens with
few messages: `Write` waits for the TNC to read (the line is taken up by the
DISCONNECT of `Close`), the TNC for the control loop, that for the broadcaster, and
the broadcaster for the receiver of the same `Write`. `MaxNoise = 3` reports that
concern nobody fill the queues. The wait is resolved by the time-out of the
broadcaster alone, which is what the mutant of `ControlLoopLive` removes. A `Write` whose
receiver has been dropped misses its BUFFER report and returns only when the link
ends, which is why no run claims that every `Write` returns. These cfgs say `CHECK_DEADLOCK
FALSE` because a connection that is closed, and on which nothing is written any
more, has no step left.

Fairness (`Fairness` in `ArdopConn`). Weak fairness of each goroutine's steps: it
is scheduled, and its timers fire. Weak fairness of `ModemStep` and `Transmit`: the
TNC reads its lines and transmits what it has queued while a connection exists.
Nothing is assumed of calls, faults, the end of the link or the end of the TNC.

### Compression and transfer

| Run | Checks | Shows |
|---|---|---|
| `lzhuf` | `RoundTrip`, `CloseVouches`, `SearchTree`, `CodesSound` | every text of up to ten letters, and longer ones that begin with a text chosen to fill the window, comes back from its file; no flipped bit and no cut end of a file passes `Close`; both trees are sound after every call |
| `transfer` | `AnswersAgree`, `DeliveredIsSent`, `CleanLinkDelivers`, `MessagesKept` | both ends read the answer line alike; with one damaged byte anywhere, or a link that ends anywhere, only the message that was sent is delivered, and nothing gets through that `Data` panics or hangs on or that does not parse; without faults everything accepted is delivered; every message that up to three calls compose is read back as it was, and if it is cut anywhere that is found |

Bounds. Two letters, a window of 16 and a lookahead of 3 let matches of every kind
occur within ten letters, and `MaxFreq = 9` has the Huffman tree rebuilt several times in
such a text. The start text in `MCLzhuf` leaves a node with two deep sons that is deleted
when the window comes round: the case of `DeleteNode` that short texts do not reach.
Codes of up to 16 bits and all 2048 positions do not occur in such a small alphabet;
`CodesSound` looks at `putCode` and the position tables by themselves. Files of texts of
up to three letters are damaged. In `transfer` the bytes are the eighteen that `Message`
tells apart; a chunk has eight of them, so that a message has several; blocks have two
proposals, of a message with a body and one with an attachment. `MaxFreq` is so large
there that the tree is not rebuilt, which `lzhuf` has. `MessagesKept` is a property of
the operators of `Message`, looked at in the initial state: ten texts with every
kind of line end, around lines of exactly the limit and one more, and four attachments,
an empty one and some with line ends in them, in all orders of up to three calls.

`DeliveredIsSent` holds for one damaged byte: the eight-bit sum finds it. `Data` does
not call `Close` on the reader, so the 16-bit checksum of the compressed file is never
looked at. With `MaxAltered = 2` TLC finds two damaged bytes whose sum is right and a
file that passes and makes `Data` panic.
`AnswersAgree` allows one offset request in a line; with two (`MaxOffsets = 2`) the digits
of both are taken for the first.

### The AGWPE driver

| Run | Checks | Shows |
|---|---|---|
| `agwpe` | `FlushMeansDrained` | an accepted connection, or one that nobody accepts, with two writes, a failing registration, a TNC that counts and answers late or never and a lost TCP connection: a flush that returns in time has every frame acknowledged that was counted when it was called, and every frame written if the last write found none outstanding |
| `agwpe_live` | `OnlyDropsLose`, `DialMissesNothing`, `CloseReturns`, `EofReaches` | a dialled connection, with two data frames from the remote, a cancelled dial and a lost TCP connection: frames are neither reordered nor repeated, and lost only where a full or closed demultiplexer drops them; `Close` returns, and the end reaches the reader unless its frame was dropped |

Bounds. With one place behind `Read` instead of ten, the second of two frames from the
remote leaves the demultiplexer waiting with the mutex taken. Two writes let the second
find the first outstanding. Dialled and accepted connections, writes and frames from the
remote are divided between the runs to keep both within minutes; each run fires the steps
of its own.

Fairness. Weak fairness of each goroutine, whatever its `select` chooses. Strong fairness
of `FlushTimeout`: the minute of `Flush` passes however often the TNC is asked in
between, which enables and disables the step. The user of these runs reads; with
`Reads = FALSE` TLC shows a `Close` that waits for the mutex for ever, because `run` is
waiting for someone to take a data frame. `CloseReturns` is about connections the user was
given: one that is refused because nobody accepts it (`port.go:57`) has no reader, and its
`Close` hangs in the same way when more frames have come than the channel holds.

### Login

| Run | Checks | Shows |
|---|---|---|
| `login` | `NothingSwallowed`, `HandshakeAgreed`, `FailsForAReason`, `LoginEnds` | for all scenarios, all ways the lines can arrive and one broken connection: the reader of the login holds no line of the session, both ends know each other afterwards, a failure has one of the reasons listed in `Reason` (a connection that broke; a line that `readHandshake` refuses, a SID or a `;FW` line, from the CMS or as message of the day; a challenge nobody can answer; no SID from the CMS; a message of the day that reads like a prompt), and login and handshake end |

The listening end is the master, as the programs that use the package have it. If the
dialling end were, it would speak at once after the password and the listener's discarded
reader could hold its lines: that is the mutant of `NothingSwallowed`. Fairness is weak
fairness of every end and of the CMS: a server that accepts and says nothing is
excluded, and would hold `DialContext` for ever, because the login has no deadline.

### ARDOP links

| Run | Checks | Shows |
|---|---|---|
| `ardop_tnc` | `TypeOK`, `NoHoles`, `ReadsOwnLink`, `EofReaches` | two links one after the other, dialled or accepted, over two streams: a connection reads its own link's data in order, without a hole but the frames thrown away, and then its end, and `dataIn` is never a closed channel |

Two links suffice for something of one to reach the next; three data frames, shared
between them, for one lost in front, one read and one overtaken by the end, or, with
`DataCap = 1`, for one read, one thrown away and one read after it. The three properties
except a link that ended after its CONNECTED and before there was a
`tncConn` (`orphans`): `eof` then does nothing, the connection never ends, and data of
the next link goes to it. Fairness: the goroutines run, and a user with a connection
reads.

### Findings

`torn_inbox`: `ProcessInbound` writes the inbox file in place. If the write is
interrupted the truncated file makes `GetInboundAnswer` reject the message in the next
session, and the sender marks it as sent.

`ardop_flush`: `writeCompressed` writes a message in many chunks and calls `Flush` once,
to "block until the whole message has been transmitted over the air"
(`src/fbb/b2f.go:492`). `Write` takes any BUFFER report for the one that covers its data.
In the trace the third `Write` is ended by the report that the first chunk has left;
the report that the second has left says 0 and opens the lock, and `Flush` returns nil
while the third is still on its way to the TNC.

Known limits, seen with other constants than those of the runs, where the code and its
comments disagree:

- One file in `/out/` that does not parse (because `AddOut` is writing it) hides all
  the others from `GetOutbound`; the session ends cleanly without sending them
  (`CleanEndDrains` with a message of `Mid` outside `Composed`).
- `Exchange` documents `ErrConnLost` for a connection that is closed early; a failed
  write returns the transport's error instead.
- `ArdopConn`: the control loop opens the lock before the report is broadcast while `Write`
  sets it afterwards, so that it can stay set with nothing left that would open it. And
  the CRCFAULT of an earlier chunk makes `Write` send its own again, which the TNC then
  queues twice: CRCFAULT is documented as "Prompt to resend last frame" (`command.go:18`).
- `Agwpe` with several writes: `Write` waits for a count above zero so that `Flush` does not
  see the count from before its frame (`conn.go:157`). With frames already outstanding it
  cannot tell, and if they are acknowledged before the new one is counted, `Flush` returns
  early. `piled` makes the exception in `FlushMeansDrained`; without it TLC shows this.
- `ArdopConn` with a TNC that dies (`MayDie = TRUE`): `Close` blocks in `Listen`, outside
  both of its time-outs (`CloseReturns`).
- A message file that is cut is read without an error if its last attachment is empty:
  `ReadFrom` overwrites the error of the attachment that is cut
  (`src/fbb/message.go:352`), and the attachment's own `err` is never read. `CutFound`
  makes the exception; without it TLC finds the file.
- `StringToBody` promises to break long lines, but its Scanner gives up at a line of
  65536 bytes, and that line and everything behind it is missing from the body without an
  error (`MessagesKept` with a text beyond `ScanLimit`). Line breaks are put between
  bytes before the text is converted, so that a character of two bytes can be torn.
- The checksum of a compressed message is not verified, as said above, although
  `src/lzhuf/reader.go:25` asks the caller to.

## 5. Proofs

All theorems hold for every value of the constants that satisfies the named assumptions
of the module (`ASSUME`s that TLC evaluates on every run), and for behaviours with every
fault the model has. Further hypotheses are stated in the theorem; there are three, and
each is there because the property is false without it:

| Hypothesis | Theorems | Why |
|---|---|---|
| `~TornWrites`: a failed write leaves no file | `SentIsReceived`, `Refinement` | `torn_inbox` is the counterexample otherwise; the code would guarantee it if `ProcessInbound` wrote to a temporary name and renamed |
| `ComposedBefore`: no `AddOut` beside an `Exchange` | `TurnsAlternate`, `CleanEnd`, `NoErrorWithoutFault` | an `AddOut` between the two calls of `outbound()` (`src/fbb/b2f.go:125`) can make the second load nothing: an empty block, whose answer never comes |
| `Master = "listener"` | the theorems of `LoginProofs` | a dialling end that speaks first after the password can be read ahead by the listener's login reader, which is thrown away |

### The exchange

`TypeCorrect`: `Origin` maps messages to peers, `Rank` is an injection into the naturals,
the sets are finite subsets, the bounds are naturals and blocks are not empty. `TypeOK`
is inductive because it bounds `todo[p]` by the indices of the current block exactly
in the two locations that loop over it.

No other property is inductive. Whether `ReportSent` is safe depends on what `acc` means,
which depends on what the remote has read. `ExchangeInv` has three layers, each proved on
top of the ones before, for each ordered pair of peers.

`ProtocolInv` relates the two peers through the wires (`ProtocolInvariant`):

- `FrameInv`: which locals may be non-empty where;
- `HandshakeInv`: handshake lines come first, and are read before anything else;
- `WireInv`: half duplex; a unit in flight from a live peer determines where
  that peer is, and nothing flows the other way;
- `TurnInv`: a peer about to write the next block has read everything, and the
  other listens;
- `AnswerInv`: an `FS` line in flight answers the block that its reader has
  proposed, position by position, and what it rejects the remote has a file of;
- `DataInv`, `SendInv`: messages in flight are the first of those awaited, in order;
- `OwedInv`: what is being transmitted has a file at the remote, or the remote
  still waits for it and has written nothing that could be taken for a
  confirmation.

It speaks of the files the remote holds, complete or cut (`Held`), and is therefore
unconditional, as is `DataIsProposed`; with `~TornWrites` a file that is held is whole,
which gives `SentIsReceived`.

`MailInv` is about one mailbox and its session (`MailInvariant`): a message is in one
place (`PlaceInv`); what is proposed, transmitted or to be reported is in `/out/` and in one
of the lists only (`ReportInv`, `FlightInv`); what is awaited is not there
yet, or its file could not be opened (`WantInv`);
what one end counts as sent the other counts as received, and the other way round except for what is
about to be reported (`StatInv`). `ReportedIsInOutbox`, `ReportsAgree` and `NothingTwice`
follow. `Refinement` maps `EndAddOut` to composing, `ReceiveMessage` to storing and
`SetSent` to releasing; every other step stutters. The one step with a precondition, the
release of a message that is stored, is `OwedInv` and `ReportInv`.

`SessionInv`, under `ComposedBefore`, is about how sessions end (`ExchangeInvariant`): the
outbox always loads, so that a block is not empty (`LoadInv`); who says `FF` or `FQ` is
drained, and stays so until its next `Prepare` (`DrainInv`); while a peer awaits an
answer the other attends to it (`WaitInv`); and as long as nothing has failed the link is
up, and a session that is over has left `FQ` for a peer that is about to read a line
(`CauseInv`).

One lemma per action or group of actions (`StartKeeps`, `ReadBlockKeeps`,
`ReceiveKeeps`, ...) is split by the parts of the invariant the action can
disturb, over lemmas on `Append`, `Tail` and prefixes of the wires.

### The login and the handshake

`LoginInv` says that the two ends are in lockstep: at most one line is under way
or in a reader (`OneLine`), which end may have written it is determined by where both
ends are (`Lockstep`), and nothing has been swallowed. `EndLogin` is then harmless because
the other end waits for a line from the one that throws its reader away: the dialer
discards its reader as it writes the password, and the listener discards its own when it
has read it, while the dialer, the slave of the session, waits for the master's handshake.

The handshake is about what the lines say. `HandshakeInv` compares each end with the whole of
what the other says after the login (`ToDialer`, `ToListener`): what is in the reader and on
the wire are the lines after the first `k` of it, in order (`Follows`), and `handshakeData`
is what those `k` lines say (`LearntSid`, `LearntFw`, ...). `Fill`, and a break
that cuts the wire, keep `k`; reading a line adds one. What is left is to know the
dialogues (`Speech`, `Reply`): the last line to the dialer is a prompt, with a SID before it and no
earlier prompt, unless there is a reason to fail; the last line to the listener is the
command. `BothKnow` follows because an end is done only at the last line, and
`FailureHasReason` because the dialer gives up only at a line for which there is a reason;
the listener, which has always read a SID before the command, never does.

### ARDOP links

The properties depend on what goroutines that lag behind will do. `LinkInv` has two parts.
The first holds always: `StreamInv` (what can be on its way from the TNC, by link: a
CONNECTED comes before what ends its link, and data and endings of a link are gone before the next
is made), `ShapeInv` (whose receiver is registered when) and `Ordered` (the data of
the present link is on its way in order). The second holds while no link has ended before
its `tncConn` was made (`orphans = {}`): whoever counts on the present link, because
CONNECTED is still to be read (`PendingInv`), because `MyCall` is under way (`GetInv`) or
because there is a connection (`ConnInv`), finds it made and not ended (`Alive`), and
before a connection exists nobody else has claimed it (`Unclaimed`); what was passed to `dataIn`
since `connected` was set is of that link and in order, with every number that is missing
in `thrown` (`GotInv`, by `Gapless`), and the rest is on its way from the next number on
(`FlowInv`). The end of a link either finds a connection,
and then `eof` gives the next a channel of its own, or somebody counting on the link, and
then it is an orphan, or nobody. `ClaimInv` is preserved by every step, by lemmas for what
can happen to a claim: nothing is claimed, a connection is made, read from, passed data, its data is thrown
away (`ThrownClaims`), CONNECTED is passed on, the link ends (`EofClaims`), and a
`Disconnect` runs, which is the end of a link that may be another than the one it was
started for (`DisconnectClaims`).

### An established ARDOP connection

`Flush` trusts a lock that `Write` sets when it has seen a report, some time after the
control loop has handled it, and that the control loop opens when it handles BUFFER 0. The report
that ends a `Write` may be about another chunk, so that nothing can be said of the chunks by
themselves; what holds is about the reports. Each carries, as a ghost, how many chunks the
TNC had queued by then (`k`). On their way to the control loop the reports are in the order
of `k`, and a report of an empty queue does not count more than has been transmitted
(`ReportInv`, with `Sorted` and `Wrong`); those the control loop has handled and `Write`
has not seen, in the broadcaster and in the receiver's channel, count no more than any still
to be handled (`HandledInv`, with `Ahead` and `Late`). The report that opens the lock
therefore counts at least what the one counted that closed it, and `LockInv` says that
whoever finds the lock open has that transmitted. `Registered` says that each receiver is registered once and by
whom, so that a report is delivered once. The TNC may die at any time, and the broadcaster
may drop a slow receiver: reports then get lost, which leaves the writer waiting and keeps
the order. No hypothesis is needed.

### The AGWPE driver

What goes to a client `c` is in one of eleven places in a row (`Way(c)`): what has been
read, the channel of the client, the hands of its demultiplexer, that one's channel, the
chain above, and so on up to the stream from the TNC. A step leaves the way as it is, moves the first
frame of a place to the end of the next, drops it, empties places, or lets a frame in at
the far end (`Step`); that is shown once, action by action, for the data and for the counts of
outstanding frames. Everything about order is then a statement on pairs of frames of a way
(`Sorted`), which any such step preserves.

- `DataInv`: data is in order, none follows a disconnect (`DataOrder`), and what is on the
  way and what was dropped together are what the remote has sent. This is
  `DataIsInOrder`.
- `CloseInv`, `DiscInv`: a demultiplexer is closed after the ones above it, and a disconnect
  in hand, or the cancelling of the data's client, means that no data is behind it.
- `WireInv`, `DialInv`: `newConn` has the chain registered at each level before it goes on
  to the next, and on a dialled connection there is no link before that (`Wired`), so
  that a frame of data always meets a client; this gives `DialledMissesNothing`.
- `CountInv`: at most one count is under way, unless a wait was given up (`late`), and only
  while somebody waits for it (`Exact`). What it means depends on who asked (`Means`): to a
  `Write` that found nothing outstanding, a positive count says that its frame is counted
  (`Counted`), so that a later zero is about that frame too; to a `Flush`, a zero says that the
  TNC has nothing left of what was counted (`Settled`, with `Owing` and `Few`). This gives
  `FlushedIsDrained`.

No hypothesis is needed. `late` and `piled` are part of the property itself, and with a connection
nobody dialled `DialMissesNothing` says nothing: on an accepted one, data may come
before `newConn` has asked for it.

### Only model-checked

Liveness (out of the prover's reach, as is ENABLED). Everything about compression, messages and transfer: what the
recursive operators of `LzhufCode` and `Message` compute for every input cannot be proved with
this prover, which has no induction over data.

## 6. Not modelled

- Of messages: addresses, `Validate`, dates, the MID's hash, character sets and encoded
  words; and the catalog. These parse or format one value in memory, and a model would
  repeat the string handling line by line.
- Kernel AX.25 sockets: calls into the kernel and libax25. Kenwood: a fixed script on a
  serial port. Transport registry: a map and URL parsing.
- Hamlib: one request and one answer, tried up to three times on a new connection. The
  code keeps nothing between commands, and a rig's state is not the program's.
- AGWPE: `Port.Close`, `Listener.Close`, `SendUI`, `Version`, ports other than 0 and
  several connections at once. ARDOP: `TNC.Close` and a `Disconnect` by the user, cancelling a
  dial, the beacon, settings, `Listener.Close`.
- The gzip experiment, status updates and robust mode of a session.

Hazards seen while reading that no property of the runs speaks about, besides those
`PROJECT.json` lists with a note:

- `src/fbb/b2f.go`: the status goroutine reads the buffer that the writing loop consumes
  (436, a race on a progress display); the header's length byte wraps for a title of more
  than 252 bytes (406); an offset the remote asks for is not compared to the size (417);
  the error of the last write is overwritten (489).
- `src/fbb/message.go:465`: the error of `Header.Write` for a message without a MID is
  dropped, and the message is written without its header.
- `src/lzhuf/writer.go:182`: a code longer than 16 bits would lose its head; such a tree
  needs tens of thousands of letters with counts like Fibonacci's.
- `src/fbb/handshake.go:106`: a `;PQ` line of fewer than five characters.
- `src/mailbox/syncdir.go:108`: only the inbox is searched, so a message moved to the
  archive is accepted again.
- `src/transport/ax25/agwpe`: connect, disconnect and unregister frames are built without
  the port number, so that the assertion of `Port.write` fails on every port but 0
  (`port.go:125`); a payload that arrives in two segments ends the connection to
  the TNC (`frame.go:76`); `Flush` may return nil after its time-out (`conn.go:117`; the
  model has it, and `FlushMeansDrained` excepts it).
- `src/transport/telnet/listen.go:47`: a silent caller blocks `Accept` for everyone.
- `src/transport/ardop`: a state left from the last link makes a dial fail (`tnc.go:615`),
  any CONNECTED is taken for the dialled one (`tnc.go:618`), `Close` of an old connection
  ends a newer link (`conn.go:184`), a listener that waits for `Accept` loses its receiver
  after 500 ms (`listen.go:110`), 16-bit lengths wrap (`frame.go:68`).
- `src/rigcontrol/hamlib/rigctld.go:190`: a command whose answer was lost is sent again.
