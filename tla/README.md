# neuron_tcp_server: specification and checks

TLA+ models of the Neuron Modbus TCP server and its firmware tools, the TLC
configurations that check them, and TLAPS proofs. Paths and line numbers refer
to the repository; `server.c` stands for
`neuron_tcp_server/neuron_tcp_server.c`.

## 1. The system

One single-threaded daemon serves Modbus/TCP clients with `epoll`, and talks
over SPI to up to three boards, each with its own microcontroller ("the board").
Boards have coils, registers and a UART; the daemon exports the UART as a pseudo
terminal. Two tools flash boards, over SPI and over RS485. libmodbus is kept in
the repository: the RS485 tool is a client of it, the daemon takes its listening
socket from it, and devices behind the exported serial lines talk to it.

| component | state it keeps | operations | hard parts |
|---|---|---|---|
| TCP event loop (`server.c`) | sockets, epoll ready list, per connection `rd_buffer`, `wr_buffer` | accept, read, parse, reply, queued send, close | edge-triggered wakeups, partial sends, requests cut anywhere or several per read, clients that leave |
| buffer pool (`server.c` 101-141) | linked stack `b_stack` | `pool_allocate`, `get_from_pool`, `repool_buffer` | a buffer with two owners, a ring, an empty pool |
| Modbus dispatch (`nb_modbus.c`) | the deferred firmware request | `nb_modbus_reqlen`, `nb_modbus_reply` | address ranges, counts beyond 8 bits, exceptions for writes that were done |
| SPI driver (`armspi.c`) | message buffers, `uart_q` | one- and two-phase operations | failed ioctl, wrong checksums, characters that ride on other operations |
| UART receive path (`armspi.c`, `armpty.c`) | board queue, `uart_q`, local buffer | `queue_uart`, `read_string`, `read_qstring`, `armpty_readuart` | lengths that are stale when used, three queues that fill independently, lost wakeups |
| PTY transmit path (`armpty.c`) | terminal settings and packet status | `armpty_readpty`, `armpty_setuart` | settings that change between two system calls |
| firmware over SPI (`armspi.c`, `nb_modbus.c`, `fwspi.c`) | page address, `prev_addr`, the board's flash | `start_firmware`, `send_firmware`, `finish_firmware` | answers lag one operation behind, retries |
| server start (`server.c` 354-533, `arm_init`, `armpty_open`) | board handles, descriptors watched, links in `/dev/extcomm` | `arm_init`, `add_arm`, `armpty_open`, registration, choice of interrupt or polling | steps that fail and are ignored, what an earlier run left |
| firmware over RS485 (`fwserial.c`) | page, error count | choice of the image, `flashit`, `verify` | calls that fail or are answered late, giving up |
| board tables (`armutil.c`) | constants | `parse_version`, `firmware_name`, `check_compatibility` | which image fits which board, registers that mean other things in old firmware |
| libmodbus, client (`modbus.c`, `-rtu.c`, `-tcp.c`) | socket or line, transaction number, receive buffer | one per function code, `send_msg`, `_modbus_receive_msg`, `check_confirmation`, recovery | late, cut, damaged answers, the peer closing, resynchronisation |
| libmodbus, server (`modbus.c`, `-rtu.c`, `-data.c`) | mapping, `confirmation_to_ignore` | `modbus_receive`, `modbus_reply` | message borders on a line shared with other slaves, address checks |
| checksum (`spicrc.c`) | constants | look-ups | - |

The event loop calls `nb_modbus_reply` for a complete request; that performs SPI
operations, any of which may bring a UART character into `uart_q`; interrupts,
polling and terminal events make the same loop call `armpty.c`. A Modbus request
may ask for a firmware update, which the loop runs before its next `epoll_wait`.

What makes the parts correct: every buffer has one owner; each request gets one
reply, in order, and gets it; no wakeup is lost; characters arrive once and in
order and none is left behind; a reply tells the truth about what the board did;
an image reported as transferred is in the flash and fits the board; every UART is
served; a client call gets the answer to its own request, or fails and recovers; a
slave executes its own requests and no others.

## 2. Modules

| module | models | checked by |
|---|---|---|
| `BufferPool` | the pool, with its pointers, as operators on a record | through `TcpServer` |
| `TcpServer` | `main`'s loop, `parse_buffer`, `nb_send`, `close_event`, `nb_modbus_reqlen`; clients and kernel; the refinement mapping to `ModbusSession` | `tcp_*` |
| `ModbusSession` | abstract: what a client is promised | `tcp_session` |
| `MC*` | instances for TLC: symmetry, view, boards, requests | |
| `ArmUart` | board UART to terminal | `uart` |
| `ArmPty` | terminal to board UART | `pty` |
| `Firmware` | flashing over SPI, by `fwspi` and by the server | `fw` |
| `ModbusReply` | `nb_modbus_reply` and the SPI operations below it | `reply` |
| `ArmUtil` | the board tables, as operators | through `FwSerial` and `Startup` |
| `FwSerial` | `fwserial`, and the boot loader it talks to | `fwserial` |
| `Startup` | `main` up to its loop, and how the loop then serves the UARTs | `startup` |
| `ModbusFrames` | bytes of messages, where a message ends | through the next three |
| `ModbusMaster` | a libmodbus client over RTU or TCP, the line and the server | `master` |
| `ModbusMapping` | the tables of a libmodbus server and `modbus_reply` on them | through `ModbusSlave` |
| `ModbusSlave` | libmodbus servers that share an RS485 line with a master | `slave` |
| `TcpServer_proofs` | proofs about `TcpServer`: types and buffers; streams, wakeups, refinement | `tlapm` |
| `ArmUart_proofs` | proofs about both directions of the serial bridge, `ArmUart` and `ArmPty` | `tlapm` |
| `Firmware_proofs`, `ModbusReply_proofs`, `FwSerial_proofs`, `Startup_proofs`, `ModbusMaster_proofs`, `ModbusSlave_proofs` | proofs about the module of that name | `tlapm` |

Actions carry the names of the C functions or of the branch they stand for; the
line ranges are in `PROJECT.json` under `map`. An operator marked "Mutant" is a
wrong version of the definition below it. It is used by no specification: a
property is worth its run only if some such version violates it.

**TcpServer.** One step of the server is one system call with the computation up
to the next, so that clients and the kernel act between any two. Lengths are
counted in tokens that carry their connection and position, so that a reply that
is lost, doubled, swapped or sent to the wrong client is visible. epoll is modelled
as the kernel does it: wakeups put a socket on the ready list, `epoll_wait`
evaluates its events and takes it off. `blocked` records that some `send()` has
met a full queue. From then on the code returns a queued buffer to the pool
(finding 1), so the safety properties speak of the time before; the paths behind
(EPOLLOUT, endless walks, the crash after a fatal send error, systemd's restart)
are modelled all the same and the type invariant is proved for them too.
After a mix-up of buffers a read buffer may hold something that is no request;
`Announced` then allows any length.

**ArmUart.** Characters are numbered on arrival. A step is one SPI message; the
UART receives in between. A message fails in the ioctl (the board saw nothing),
in its first or in its second checksum (the board has handed over its character).
The terminal is assumed to be open. `OtherOp` is any operation for Modbus or the
other direction.

**ArmPty.** The application writes and calls `tcsetattr` between any two system
calls of the server. A packet status is read alone, before data.

**Firmware.** Addresses are counted in pages. The board's answer to an operation
tells whether the operation before succeeded. `Plan` is the sequence of images the
callers send; the version comparison in `arm_firmware` is taken as passed (it is
`CheckFirmware` of `Startup`). An empty settings file (a confirming operation only) is left out.

**ModbusReply.** A value is the number of the request that wrote it. `Means`
states the addressing rule independently of the code's arithmetic. What the board
does with addresses it does not have (`Available`) is taken from how the code reads
its answers: it acts on the cells from the address on that exist and says how many
those were.

**ModbusMaster.** Answers are sequences of bytes, because the receiver finds the
end of a message from bytes in it, and what is left of one message is read as the
beginning of the next. A CRC byte carries what it is the checksum of, so that a
checksum matches exactly the bytes it was made from. The request is written in one
step; the server answers, refuses or loses it; bytes are delivered in any pieces;
a serial line swallows or changes bytes; a TCP peer may close. `torn` records that
an answer was given up in its middle without the sleep that lets the rest arrive:
neither a bad CRC (modbus-rtu.c:389) nor an oversized answer (modbus.c:439) nor a
timeout without link recovery is followed by one, and `OwnAnswer` and `Recovers`
speak of the time before. `SleepSuffices` says that no answer is later than the end
of a recovery sleep, which is what the response timeout is for.

**ModbusSlave.** Each slave hears the requests to all and the answers of the
others, has its own `confirmation_to_ignore`, and its owner calls `modbus_receive`
and `modbus_reply` in turn. A frame is transmitted whole, perhaps damaged; the
slaves read it in any pieces and at their own pace. A timeout happens only when
nobody has anything to say, sleeps end at any time. `waits` says after what the
master lets the line fall silent before it goes on. A table is a function on its
offsets; a store outside extends its domain, so that `InTable` sees it.

**FwSerial.** Each Modbus call has the outcomes `ModbusMaster` has for a client
without recovery: done and confirmed, not done, done without an answer, refused,
done with an answer that comes too late and is taken for that of the next call.
The boot loader (external) is a page register, a page buffer and the flash. A
page is a sequence of chunks, a chunk is the place in the file it came from.

**Startup.** Opening a device, reading versions, opening the interrupt line, every
step of `armpty_open` and writing the mask may fail as long as `MaxFaults` allows.
With `--check-firmware` (`neurontcp.service` has it) a board whose files are newer is
flashed before its terminals are opened and its version read again (`CheckFirmware`);
what it is then is a choice of the instance (`Flashed`): as before, newer, or dead.
An update a client asks for at run time is not part of this module. A board has
several UARTs, each with its own terminal, links and outcome of `armpty_open`;
`armpty_readuart` reads UART 0 only, and `Served` speaks of that one.
`link` and `link0` are the two families of names in `/dev/extcomm`; an earlier run
may have left the first. What `armpty_readuart` then does is the subject of
`ArmUart`; here it empties the UART. The options are given parsed, and the listening
socket and the epoll descriptor are taken as made.

## 3. Runs

| run | instance | shows |
|---|---|---|
| `tcp_pool` | 2 connections, 3 buffers, 2 requests each, arbitrary cuts and both in one read, so that `parse_buffer` takes the third buffer; sends do not block | `PoolPartition`, `RepliesInOrder`, `PoolSuffices`, `DataIsAnnounced`, `ClosedForCause`, `TypeOK` |
| `tcp_blocked` | 1 descriptor for 2 clients, 2 buffers, 4 requests, replies of 2 tokens, send queue of 1, `accept` with errors of its own; may stop | `PoolPartition`, `RepliesInOrder`; all EPOLLOUT, hang, crash and restart paths, and an empty pool behind them |
| `tcp_session` | 1 connection, 3 pipelined requests, fair | `ImplementsSession` (refinement of `ModbusSession`), `Served` |
| `uart` | polled and interrupting board, 7 characters, 4 failures, fair | `InOrder`, `NoOverrun`, `RemainSound`, `Flushed`, `TypeOK` |
| `pty` | 3 settings, one of them B0, 4 characters, 1 failure, fair | `LineInOrder`, `AnnouncedIsSet`, `WrittenIsRead` |
| `fw` | the three flows, 3 + 1 pages, 4 faults, fair | `CompleteIsBurned`, `Ends`, `TypeOK` |
| `reply` | 2 boards of 3, every function, 2 requests, 1 failure | `ReadsAreExact`, `WritesHitTarget`, `AckedIsWritten` |
| `master` | RTU and TCP with and without recovery, 3 calls, the first of every kind, 2 faults, fair | `OwnAnswer`, `Recovers`, `CallReturns`, `TypeOK` (no overrun) |
| `slave` | 2 slaves, 3 requests, the first of 23 kinds, with and without recovery, 1 damaged frame, fair | `ExecutesOwn`, `Heard`, `InTable`, `ComesToRest`, `TypeOK` (no overrun) |
| `fwserial` | 10 combinations of command line and board, all file sizes, 4 faults, fair | `OkIsBurned`, `Programmed`, `FitsBoards`, `Ends`, `TypeOK` |
| `startup` | 36 mixtures of 3 boards of 5 kinds or none, up to 2 UARTs each, 4 command lines (as the service file has it, with `--check-firmware`, with `-b` and `-t` and a device less, with one interrupt line), old links or none, 2 faults, fair | `LinksLead`, `Served` |
| `tcp_bug_eof` | | violated, see section 5 |

### Bounds

* TcpServer: a request has 1 or 2 tokens and is cut anywhere, a buffer holds two
  requests; three requests in a row (`tcp_session`) split a buffer twice. Two
  connections suffice for every interference, since the loop handles one at a time
  and the pool is all they share. With `SizeMod > MaxLen` (`tcp_pool`,
  `tcp_blocked`) a full buffer is parsed, a read that brings both requests is split,
  and the socket is read again until `EAGAIN` (`ReadAgain`): the loop as it was
  meant. `SizeMod < MaxLen` (`TcpServer_bug_uint8`) mirrors 256 < 260: with the real
  constants a read that fills the buffer is never parsed (260 % 256 = 4 is less than
  a header) and the next read, of length 0, closes the connection. In the liveness
  run the stream is shorter than `SizeMod`. An empty pool is never met in `tcp_pool`
  (that is what `PoolSuffices` says); `tcp_blocked` meets it, behind a blocked send,
  where `PoolPartition` no longer binds. The closing branch for an empty pool is
  therefore covered by `CausedCloses` (section 4) and by no run.
  `SYMMETRY` is used for safety only. `VIEW` hides the contents of buffers
  nobody owns, which `get_from_pool` resets before anyone can look at them.
* ArmUart: buffer 4, local queue 4, message 2, board queue 4 stand for 256, 256,
  240, 256: the order of the sizes and the wrap of the 8 bit length (0 means full)
  are kept. Seven characters fill any one of the three queues and begin the next;
  four failures exceed the three tries.
* Firmware: 3 pages have a first, a middle and a last one; 4 faults allow an error,
  an error during the way back and a third one later.
* ModbusReply: a "byte" counts to 4, the limits for coils are 5 and for registers
  3, as 2000, 1968 > 256 > 125, 123; addresses lie at the edges of the ranges of 2
  (100) within groups of 8 (1000).
* ModbusMaster: lengths are the real ones. Three calls: one disturbed, one that
  meets what is left of it, one that must be well again; the later calls read or
  write one register, so that their answers have the shape of late ones. Two faults
  allow a disturbance of the recovery itself. Transaction numbers wrap at 2.
* ModbusSlave: lengths are the real ones. Three requests: one of every kind, legal
  and not, to slave 1 or to all, then two that slave 2 must not miss. Requests with
  function 23 or 16 look longer or shorter when they are read as confirmations.
* FwSerial: 2 chunks for 8, the settings behind page 2 for 56, at most 4 errors for
  200; files of 0, 1 and 2 pages reach no, some and all of the program area. 4
  faults spoil two pages in two ways each.
* Startup: the real number of boards; firmware before 4.0, a board without
  interrupts, one without a UART, one with both, one with two UARTs for the four a
  handle has room for. Two faults fail both UARTs of a board, or one step of two.

### Fairness

`WF(Server)`, `WF(ReadUart)`, `WF(Sender)`: the process is scheduled and its system
calls return (all sockets are non-blocking; an SPI ioctl is bounded). `SF` of
`AcceptOne`: `fcntl` and `epoll_ctl` on a new socket may fail, but not for ever.
`AcceptErrors` lets `accept` itself fail with a connection pending (`ECONNABORTED`,
`ENOBUFS`, ...): the loop ends (server.c:620-625), and the connection waits for the
edge of the next one. `DataIsAnnounced` (in its second part), `Served` and the theorem
`NothingForgotten` speak of an `accept` without such errors; `tcp_blocked` has them.
`Fairness` of ModbusMaster and ModbusSlave, `WF(Tool)`: the library goes on when it
can, timeouts and sleeps end; that the server answers is not assumed (`Lose`, and
`Timeout` needs silence only). `WF(Woken /\ Iterate)`: `epoll_wait` returns for an
interrupt or when its time is over; that clients come by is not assumed.
Nothing is assumed of clients, applications or boards. For a polled board
`WF(ReadUart)` includes the poll timeout of the loop.

## 4. Proofs

`TcpServer_proofs` proves for any finite sets of connections and buffers, and any
lengths (assumptions `ConnAssumption`, `LenAssumption`, `BufAssumption`):

* `TypeCorrect`: `Spec => []TypeOK`, including the paths after a blocked send.
* `PoolSafe`: `Spec => []PoolPartition`.

`PoolPartition` is not inductive. It counts owners and does not say which
connections may be handled. The inductive invariant is
`Inv == TypeOK /\ OpenInv /\ PoolInv`:

* `OpenInv`: only open connections are ready, in the batch, in a handler or own a
  read buffer; a batch holds one event per connection and none for the one in
  hand. Without it `close_event` could run for a connection whose slot was reused.
* `PoolInv`: until a send blocks nothing is queued, no two connections share a
  read buffer, none reads into the buffer being sent, and *exactly* the other
  buffers form the free list.

The first section holds what the pool operations do to a free list, stated
through `IsFreeList` (a duplicate-free sequence linked by `next`): taking the top
leaves the tail (`GetFree`), returning an unlinked buffer puts it in front
(`RepoolFree`), `pool_allocate` gives the whole set (`AllocateFree`). Each lemma
exhibits the new sequence.

It goes on from there, for the same constants:

* `Ordered`: `Spec => []RepliesInOrder`.
* `BuffersLast`: `Spec => []PoolSuffices`. `PoolInv` is enough: the buffers that are
  not free are read buffers, one per connection at most.
* `NothingForgotten`: `Spec => []DataIsAnnounced`, when there are descriptors for
  all connections (`Cardinality(Conn) <= MaxFd`); pending connections are part of it
  where `accept` has no errors of its own. Without descriptors it is false: TLC
  shows a connection that arrives while the only descriptor is taken: `accept`
  fails, and it is not announced again when the descriptor is free.
* `CausedCloses`: `Spec => ClosedForCause`.
* `Refinement`: `Spec => ImplementsSession`, when a send queue holds the replies to
  all requests of a client (`RepliesFit`), so that no `send()` blocks. After a
  blocked send the code returns a queued buffer to the pool and does not
  implement the session (`TcpServer_bug_partial`).

`RepliesInOrder` sees the end of the stream only. The inductive invariant
`StreamIInv` adds to `Inv`:

* `StreamInv`: for every connection there are numbers k, a, l, g, s, h such that k
  requests were answered, the next a tokens are in its read buffer and l more in
  the receive queue; of the k replies g tokens were received, s are on the way and
  the last h are still in the buffer `parse_buffer` is sending (`Streams`);
* `QuietInv`: until a send blocks nothing waits for EPOLLOUT, so that `main` never
  comes to its send loop.

`NoticeInv`, for `NothingForgotten`, says at every step what `DataIsAnnounced` says
at `epoll_wait`: unread data has an entry in the ready list or in the batch, or the
read loop is at this connection and will not be left before a short read. The
session counts the complete requests among the tokens that were sent and the complete
replies among those handed to `send()` (g + s); with `Streams` the last token of a
reply is handed over only when its request, the k-th, has arrived, so that each step of
the loop is a step of the session or leaves its state alone.

`ArmUart_proofs` proves for queues, messages and buffers of any size, any number of
characters and failures (`QueueAssumption`): `TypeCorrect` (`TypeOK`),
`CharactersInOrder` (`InOrder`), `BuffersHold` (`NoOverrun`), `RemainTrusted`
(`RemainSound`). The four are proved together. `InOrder` speaks of what
has reached the terminal; the invariant `OrderInv` says that terminal, buffer, local
queue and board queue, one behind the other and followed by the character that comes
next, rise strictly. A step cuts these sequences elsewhere or drops a part, and both
keep a rising sequence rising (`CutFromRemote` and the lemmas next to it). `NoOverrun`
needs the sizes of what `remain` promises, hence `RemainSound`; `TriesLeft` keeps the
countdown of tries in its type.

For the other direction (`ArmPty`) it proves `WrittenInOrder`: `PtySpec => []LineInOrder`,
for any settings, sizes of reads and failures. The invariant names k, how many characters
have left the terminal: what waits in it is k + 1, k + 2, ... (`Waiting`), and the board
has a rising sequence of numbers up to k, all of them while no operation failed (`Written`).
`StatusKept`, that a status seen by `epoll_wait` is still there at the read that
clears it, is what keeps that read from swallowing characters.

`ModbusReply_proofs` proves `WritesOnTarget`, `WritesDone` and `ReadsDone` (the action
properties `WritesHitTarget`, `AckedIsWritten`, `ReadsAreExact`) for any boards, cells,
address ranges, limits and width of the count (`ReplyAssumption`). A step is one
request, so that types are all the invariant there is; the work is in the arithmetic:
the division of an address into board and register agrees with `Means`
(`TargetIsMeant`), and a count reduced to its low bits that passes the check of the
answer is the whole count (`LowBits` and the lemmas on each function).

`FwSerial_proofs` proves for any number of pages, chunks, errors and failures:

* `TypeCorrect`, `ReportedIsBurned` (`OkIsBurned`) and `NoErrorIsProgrammed`
  (`Programmed`), when the program ends where the settings begin at the latest and
  the settings end within the flash (`FilesFit`; section 5 shows what happens to
  others). The settings have one page at most (`MAX_RW_PAGES`), which is what the
  buffer for them holds;
* `FirmwareFits` (`FitsBoards`), when the registers the choice depends on tell what the
  board is made of (`RegistersTell`): register 1004 the base board, with `--calibrate`
  or `--final`, and hw_version the combination of base and upper board otherwise. The
  image then fits the base board and, with `--final`, the upper board the user named.

Both hypotheses hold for the instance of run `fwserial`. A late answer is taken for
that of the next call, so the invariant follows the one answer that may be under
way (`AnsOK`, `Stale`): while chunks are sent it is one of `modbus_write_registers`
or, before the first, of the page register, and a page all of whose calls
succeeded has none. `FlashCore` keeps pages apart: an image found at a wrong place of
the flash or in the page buffer is one that was burned in its own place before.

`Startup_proofs` proves `LinksLeadHome`: `Spec => []LinksLead`, for any number of
boards and UARTs, hardware, command line, leftovers, updates and failed steps.
`LinkInv` says so at every step for the UARTs opened so far, and that the numbers of
terminals are below `pts`, so that no two UARTs get the same.

`Firmware_proofs` proves for programs of any size and settings of a page, at any place
below the read-only page, any bad pages and any number of faults (assumption `FirmwareAssumption`):

* `TypeCorrect`: `Spec => []TypeOK`; the address stays in the image or directly
  behind it, and `len` is what is left from there.
* `ConfirmedImage`: `Spec => []CompleteIsBurned`.

An operation tells only about the operation before, so `CompleteIsBurned` says
nothing about a transfer under way. The inductive invariant adds

* `PlaceInv`: the sender is at the first page, at the page behind `prev`, or back
  at `prev`;
* `SentInv`: until an ioctl fails the pages before `prev` are burned, and `prev`
  itself if the board will say so when it is asked next;
* `PlanInv`: an image is sent once, and the program before the settings. The
  confirming operation of the program goes to the page behind it, which may be
  the first of the settings; in the other order it could destroy them.

What one operation may do, whatever goes wrong in it, is the lemma `OneOperation`;
the steps of the sender use only that.

`ModbusSlave_proofs` proves for any slaves, tables, requests and choices of recovery
and patience, and any number of damaged frames:

* `TypeCorrect`: `Spec => []TypeOK`. Whatever lengths the bytes on the line announce,
  a slave reads nothing behind the 256 bytes of its message, and never asks for 0 bytes.
* `ExecutesOwnOnly`: `Spec => []ExecutesOwn`.
* `StoresInTable`: `Spec => []InTable`, when the registers begin at address 0.
  `ModbusSlave_bug_before` shows the store before the table that is possible otherwise.
* `HearsAll`: `Spec => []Heard`, when the requests are whole (`Announced`: each has the
  bytes that its function code and its counts announce, and at most 253 of them, which is
  what fits into a message; the requests of the run `slave` are such). A slave that heard
  less than a request announces would wait for the rest of it.

`RequestsAssumption` says that the requests are sequences of bytes with a function code
below 128 whose byte counts cover the values they write (`CountsAgree`), and
`MappingAssumption` that the tables come from `modbus_mapping_new_start_address`. The
invariant says of each slave (`SlaveIs`):

* `Reading`: how far it has read. What is read and what `length_to_read` promises end
  where the bytes read so far say, so that a request that is answered has exactly the
  length its function code and its count announce (`Ended`). This is what
  `modbus_reply`, which looks at fixed places of the request, relies on (`WholeBody`,
  `ReplyGood`).
* `Owed`: there is an n such that what it has executed are requests of the first n sent
  ones, in order (`Ran`), and the bytes that it has read and not yet read are due after
  these (`Due`). A message with a matching checksum ends with the last byte of a
  checksum of just its own bytes, so it is enough to follow these bytes: each one in a
  message to this slave or to all belongs to a request after the n-th, they come in
  the order of the requests, and behind the last byte of a request come only later ones.
  An answer carries the id of the slave that sent it, so that no other slave takes it
  for a request (`Cargo`, `NoisyIs`: noise does not make checksum bytes). However the
  borders of the messages shift, dropping and reading bytes keeps this
  (`DueRest`, `DueTaken`), and so does a further frame (`DueMore`).
* `MapIs`: its tables have the ranges and the values they should have, and the memory they
  were allocated with.

A CRC is taken to tell any two messages apart; that is the model's assumption on it.

`Heard` needs more: not only that what a slave executes was sent, but that the borders of
the messages it sees are those of the frames. Its invariant (`Hear`, of which TLC checked
an earlier form on the run `slave`) says which of four things is the case on a line whose
master rests after every failure:

* `Orderly`: the master may send. What every slave has before it, read or not, is a row of
  whole foreign requests each followed by its whole answer (`Row`, `Lined`), and it has
  executed all that it had to (`Heeded`).
* `Asked`: an undamaged request is being worked off. Each slave still has it before it
  behind such a row, or has taken it, or has executed it, or has seen that it is for
  another slave (`HasAsked`). `RequestWhole` and `AnswerWhole` say that the length which
  `modbus_receive` finds from the first bytes of a request or of an answer is that of the
  frame, for all function codes, so that a slave reads row by row (`LinedReads`); and
  `ReplyAnswered` that modbus_reply answers with such a frame, or with an exception.
* `Spent`: an answer stayed away, was damaged or was an exception. Nothing that a slave
  has before it ends with a checksum of a request for it (`Mute`), however it is read
  (`MuteMatch`), so nothing more is executed until the line rests.
* `Odd`: a request was damaged. Either it is mute, or it is whole behind one byte of noise:
  then the slaves read it shifted, and with its first bytes they have lost it
  (`OddReads`).

The exception that a slave sleeps on is why `Heard` asks for the rest after exceptions
too: when it comes at last the others read it as a request (`WakeUpHears`).

`ModbusMaster_proofs` proves for any calls with 16 bit numbers (`CallsAssumption`), any
backends and choices of recovery, and any number of disturbances:

* `TypeCorrect`: `Spec => []TypeOK`. Whatever the line delivers, a client reads nothing
  behind the 256 or 260 bytes of its message and never asks for 0 bytes.
* `AnswersOwn`: `Spec => []OwnAnswer`, when recovery sleeps outlast the answers under way
  (`SleepSuffices`) and no transaction id is taken twice (`IdsSuffice`): either there are
  at most `TidMax + 1` calls, or all contexts are serial ones. With more calls over TCP an
  answer of 65536 calls ago carries the id of the running one, and nothing else tells
  them apart.
* `Recovery`: `Spec => []Recovers`, when recovery sleeps outlast the answers under way.

Neither property is inductive: they speak of calls that have returned, not of what is on
the line. Three invariants do that.

* `Typed` says how far a message has been read (`Reading`): what was read and what
  `length_to_read` promises end where the function code and the count among the bytes
  read say. Hence a complete message is one whose end follows from its own bytes
  (`Whole`), and of two such messages none is the beginning of the other
  (`WholeOnce`): a receiver that begins at the beginning of a frame stops at its end.
* `Single`, for contexts with link recovery: between calls the line is empty; in a call
  there is its request, or the frame that answers it and nothing else (`Alone`; on a
  serial line perhaps a damaged frame, whose checksum does not match, `NoiseDamages`);
  and when nothing has gone wrong since the last call returned, that frame is the whole
  reply (`Calm`), which `check_confirmation` accepts (`ReplyAccepted`).
* `Numbered`, for TCP: every id was taken once, the bytes under way are whole frames
  (`Cut`), each an answer to a request that was made (`Sent`), and of these only the
  running call's has its id. An answer to an earlier call is dropped as a whole, so the
  next message begins at the beginning of a frame again.

TLC has checked the three on the instance of the run `master`, where the number of calls
is just `TidMax + 1`. As everywhere, a CRC is taken to tell any two messages apart.

Only model-checked: what is liveness (`Served`, `Flushed`, `WrittenIsRead`,
`AnnouncedIsSet`, `Ends`, `CallReturns`, `ComesToRest`), which needs fairness and
`ENABLED`.

## 5. Where code and comments disagree

Checked as a run that must end in a violation: `tcp_bug_eof`, server.c:725. Data and
FIN come in one wakeup: the end of file is never read, the connection and its buffer
stay.

The following are stated in the modules too, each with a configuration that shows
the trace (`tlc -config X.cfg M`, with `-continue` where there are several
properties):

| configuration | module | property | place |
|---|---|---|---|
| `TcpServer_bug_partial` | `MCTcpServer` | `QueuedNotPooled` | server.c:254, a partly sent reply is queued *and* returned to the pool |
| | | `QueuedIsArmed` | server.c:214, EPOLLOUT is not armed when the buffer is used up |
| | | `FatalSendContained` | server.c:657, `break` leaves only the inner loop |
| `TcpServer_bug_outloop` | `MCTcpServer` | `OutLoopEnds` | server.c:661, `==` for `=` |
| `TcpServer_bug_undrained` | `MCTcpServer` | `DataReadCompletely` | server.c:686, no buffer, the edge is spent |
| `TcpServer_bug_uint8` | `MCTcpServer` | `CompleteRequestsParsed` | nb_modbus.c:42, size as `uint8_t` |
| `ArmUart_bug_lost` | `MCArmUart` | `NoCharLost` | armpty.c:241-244, characters are taken from the local queue and written with length 0 |
| `ArmPty_bug_settings` | `ArmPty` | `SettingsReachUart` | armpty.c:176, 186, a status that comes late is dropped |
| `Firmware_bug_sender` | `Firmware` | `OnlyImagePages` | armspi.c:651, the confirming operation burns the page behind the image |
| | | `ConfirmedIsBurned` | armspi.c:663, stale answer after a failed ioctl |
| | | `UpdateHasProgram` | nb_modbus.c:462, swapped arguments |
| `Firmware_bug_endless` | `Firmware` | `RepeatedErrorEnds` | armspi.c:665, a bad page is repeated for ever |
| `ModbusReply_bug_range` | `ModbusReply` | `LegalReadServed` | armspi.c:316, 8 bit count |
| | | `MissingCoilRefused` | armspi.c:323, one phase |
| `ModbusReply_bug_deferred` | `ModbusReply` | `FirmwareRequestRuns` | nb_modbus.c:195, one slot |
| `ModbusMaster_bug_tid` | `MCModbusMaster` | `AnswerMatchesRequest` | modbus.c:378-394, without recovery the rest of an answer that timed out is read as the beginning of the next |
| `ModbusMaster_bug_crc` | `MCModbusMaster` | `AnswerMatchesRequest` | modbus-rtu.c:389, after a bad CRC the line is flushed without a sleep |
| `ModbusSlave_bug_exception` | `MCModbusSlave` | `HeardByTheRule` | modbus.c:679, an exception that is slept on comes when the others no longer expect it |
| `ModbusSlave_bug_before` | `MCModbusSlave` | `InTable` | modbus.c:954, the write address is not compared with the start of the table |
| `FwSerial_bug_pages` | `MCFwSerial` | `OkPrinted` | fwserial.c:115, a page is OK without one of its chunks |
| | | `TryingAgainHelps` | fwserial.c:127, after one late answer every attempt fails |
| | | `Programmed` | fwserial.c:121, a program that reaches behind page 56 loses its end |
| | | `FitsBoards` | armutil.c:193, the interrupt mask of firmware before 4.3 is taken for the base board |
| `FwSerial_bug_endless` | `MCFwSerial` | `Ends` | fwserial.c:122, the same with settings: pages 56 to the end are written again and again |
| `Startup_bug_gpio` | `MCStartup` | `Served` | server.c:734, mask register but no line: neither interrupt nor polling; the same without `-i` for the board, which `Served` leaves out (`LineGiven`) |
| `Startup_bug_found` | `MCStartup` | `BoardsFound` | armspi.c:506, one failed version read leaves the board out |
| | | `NoStaleLink` | armpty.c:82, links of boards that are gone stay and lead to others' terminals |

## 6. Not modelled

* The split of an SPI message into transfers and the tables of the checksum
  (`spicrc.c`): the models use only whether a checksum matches.
* Reading options (`parse_ilist`, `parse_slist`, getopt) and becoming a daemon.
  (`parse_slist` ends its copies one byte behind their end, server.c:327; what is
  then opened depends on the allocator.)
* libmodbus: opening and configuring serial lines and sockets, RTS control, raw
  requests, protocol-independent TCP, the Windows branches, `float` and byte
  helpers. They hold no state the protocol depends on. `modbus_reply` believes the
  number of values of a write rather than its byte count (modbus.c:836, 866); the
  requests are assumed to agree in the two (`CountsAgree`).
  A slave's answers are always sent: a write to the serial line that fails
  (`send_msg`, modbus.c:179-203) is not modelled for a slave. Without link recovery
  the answer is lost, which to the master is a frame that was damaged; with it the
  slave sleeps, flushes and writes again until it can.
* Settings files of more than one page: `load_fw` of `fwspi` and `fwserial` reads them
  whole into a buffer of one page (fwspi.c:58, 311; fwserial.c:53, 329) and overruns
  the heap, after which a model could say nothing (`FirmwareAssumption` and
  `FwSerialAssumption` exclude them; the server itself refuses more than 255 bytes).
* A board that an update at start leaves without the register for its interrupt
  mask although it had one, or whose version cannot be read back (`Startup` has both,
  `Served` is checked without): it keeps its interrupt descriptor, so that the loop
  may be left without a poll time, or a register that is no longer the mask, and its
  UART waits for the next start.
* `neuronspi.c` and `bandwidth-client.c` (manual tests), installation scripts and
  the device tree.

## 7. Plan

Done: all the modules of section 2 and the proofs of section 4, which state every
property of the runs but the liveness properties.
