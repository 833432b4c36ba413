# Verification of the nrf-ethernet firmware

This directory holds TLA+ models of the nrf-ethernet gateway: the firmware that
receives packets from an nRF24L01+ radio and offers them over Ethernet, and the
USB boot loader that installs it. TLC checks the models on small instances;
TLAPS proves the most important results for every value of the constants.

Contents: 1 inventory; 2 modules; 3 runs, bounds and what they show; 4 fairness;
5 proofs; 6 what the models say about the code; 7 what is not modelled; 8 plan.

## 1. Inventory

The firmware runs on ChibiOS/RT (preemptive, fixed priorities, mutexes with
priority inheritance, mailboxes, event flags) with lwIP on an STM32F107. Neither
is part of the repository; both are modelled as external, by what the code uses.

| Part | State | Operations | Talks to |
|---|---|---|---|
| Radio driver, `firmware/nrf24l01p.c` | two mailboxes of buffer pointers and two rings of 10 buffers; the chip's registers and FIFOs | thread `nrf_radio` (`nrf_irq`, `nrf_check_tx`); `nrf_recv`; `nrf_send`; `nrf_kick_loop` | chip over SPI; pin interrupt; `data_rx`; httpd |
| Sensor table, `firmware/data.c` | `data_table`: 32 entries (ttl, board, message, data); `data_mutex` | threads `data_rx`, `data_clean`; `data_json`, `data_dump` | `nrf_recv`; `rawd_push`; readers in httpd and the console |
| Raw feed, `firmware/net/rawd.c` | 3 connection slots, `buf_frame`, `rawd_mutex` | `rawd_push`; threads `rawd_push_loop`, `rawd_loop` (`rawd_new`) | `data_rx`; lwIP |
| Boot loader, `bootloader/usbdfu.c` | DFU state, the last transfer `prog`, flash, idle timer | control requests, completion of a status request, the polling loop | USB host; application |
| HTTP server, `firmware/net/httpd.c` | one request at a time, a 512 byte output buffer | accept, receive, parse, handler, close | lwIP; table; `nrf_send` |
| Lights, `firmware/blink.c` | an event mask per light | `blink`, three `blinker` threads | everyone |
| Start-up, `firmware/main.c` | order of initialisation | `main`, `heartbeat`, pin interrupt | everyone |
| Console, `firmware/console.c` | the shell thread | `console_poll`, four commands | table; USB serial |
| USB serial, `firmware/usb_device.c` | the descriptors, which are constants | driver call-backs: events, requests | ChibiOS; `request_hook` resets the board |

Priorities: `nrf_radio` and the Ethernet thread NORMALPRIO + 1; `data_rx`,
`data_clean`, shell NORMALPRIO; httpd and both rawd threads LOWPRIO + 2; lwIP's
own thread LOWPRIO + 1; lights and heartbeat LOWPRIO.

What is hard about each part, and what makes it correct:

* Radio. The chip raises flags at any time, the pin interrupt fires on edges
  only, and STATUS is read and cleared in two transfers. The driver unlocks the
  mailbox between dropping its oldest entry and refilling the buffer that entry
  named. Correct means: packets reach `data_rx` whole, in order, once; a full
  mailbox loses the oldest; what is posted is sent; nobody is blocked for ever.
* Table. A zeroed slot looks like one of key (0, 0); readers block while they
  hold the mutex. Correct means: the table lists exactly what was heard
  recently with room for it, once, with its last value, and a reader sees one
  instant of it.
* Raw feed. One buffer for all frames, three threads, one mutex held across
  network writes, connections that die between test and use. Correct means: no
  connection leaks or is used after its deletion, no client is refused for a dead
  one, clients get whole frames in order, and the latest one in the end.
* Boot loader. A host that repeats what it gets no answer for, a timer beside
  it, power that fails between two half words, an application started without
  a look at it. Correct means: after a download the application is the one
  that was sent, and nothing half written is started without cause.
* HTTP server. One thread and one output buffer for everybody, an error path
  that closes what may never have been opened, requests taken apart by searches
  in a buffer that is not terminated. Correct means: each client gets its own
  answer, every connection and netbuf is given back once, OK means queued, and
  no byte an earlier request left in memory is sent by radio.
* Lights. Events that merge while a blink is under way, three threads that
  start while `main` uses two of the lights itself. Correct means: each light
  comes to rest as it should, and no blink is swallowed.
* Start-up. Threads that run before `main` is done, an interrupt armed after
  the chip that raises it, resets that spare the chip. Correct means: nothing is
  used before its initialisation, and the radio is left waiting for an edge that
  has been in no other case than the two of section 6.
* Console and USB. A shell thread on the heap that ends and is made again, on a
  bus that comes and goes. Correct means: the user gets a shell again.

`PROJECT.json` lists every hazard at its line, with the properties for it.

## 2. Modules

`Nrf24Chip` (external): CE pin, CONFIG mode, interrupt flags, both FIFOs, the
transmission under way; packets on the air are numbered. It may start with
whatever an earlier run of the firmware left: a reset by USB request
(`usb_device.c`) resets the micro-controller only.

`NrfRadio` extends it with the driver. `nrf_radio` outranks its callers, so one
action runs from one blocking point to the next: an SPI transfer, the 5 ms sleep
of `nrf_standby`, the event wait. A `chSysLock` section of `nrf_radio` that
contains such a call does not stay locked across it and is several actions.

| Action | Code |
|---|---|
| `Boot`, `BootRxMode` | `nrf_radio` up to its loop (297-326) |
| `WaitEvent` | 329 |
| `IrqStatusRx`, `IrqStatusNoRx` | `nrf_irq` 245-255 |
| `RxBegin`, `RxEnd` | `nrf_rx` and the post, 185-204 and 257-261 |
| `IrqStandby`, `IrqRxMode` | TX_DS branch, 263-274 |
| `IrqClear` | clearing the flags and the test of `nrf_check_tx`, 280-288 |
| `CheckTxStandby`, `CheckTxFetch`, `TxConfig`, `TxStart` | `nrf_check_tx`, `nrf_tx`, 289-292 and 206-214 |
| `RecvCall`, `RecvResume` | `nrf_recv` without and with blocking |
| `SendCall`, `SendResume`, `SendKick` | `nrf_send`, likewise, and the kick |

A mailbox is the sequence of buffer indices posted; its semaphores are its
length, less a promise to a thread that was woken and has not run. A payload
transfer is two actions so that a buffer can be seen half written (`Torn`) or be
overwritten half way through a transmission.

`LossyQueue` is what the receive path promises: a bounded FIFO that loses only
its oldest element and only when full. `RxImplementsQueue` states, with INSTANCE
and a refinement mapping, that `NrfRadio` implements it.

`NrfRadioInv` holds the inductive invariant, `NrfRadioProofs` the proofs.

`Nrf24Spi` is the same driver one level down: each transaction, from `spiSelect`
to `spiUnselect`, is a step of a script (`Setup` for 297-326, `RxDone`, `TxDone` and
so on for the rest), with the command bytes and register values of
`nrf24l01p.h`, and the chip decodes what it is sent. `RadioPort` has the chip
operations of `NrfRadio` - mode, flags, FIFOs - as the actions of a chip alone,
and `ImplementsPort` states that the SPI traffic amounts to these. So the two
models agree on what the chip is told. `Nrf24SpiProofs` proves it.

`SensorTable`: `UpdateTable` is `update_table` under its mutex, `Sweep` one pass
of `data_clean`, `ReaderLock`, `ReaderEntry` and `ReaderUnlock` the readers, which
may block at every entry. A key is (board_id, msg_id), a value the rest of a
frame. A history (`Heard`) follows the frames that `update_table` is given, whatever it
makes of them, except one that finds every slot in use for another key.
`SensorTableProofs` holds the proofs.

`Httpd`: `Accept`, `Recv` or `RecvFails`, `ParseFails` or `Dispatch` are
`httpd_process` up to the handler (lines 204-261), which is a list of steps: put a
piece (`NetPut`, with `NetFlush` when the buffer is full), take and leave the mutex
of the table, queue a message (`NrfSend`). `HandlerDone`, `Finalize`, `Close`, `Delete`
follow, or `Close`, `BailFree`, `Delete` on the error path. Output is told apart
piece by piece, not byte by byte. A write that blocks is a `NetFlush` that does
not come.

`HttpRequest` is what `Httpd` leaves out of `Recv`: the searches of `httpd_process`
(211-258) and `path_sendraw`, over the characters of the first segment in a buffer
that keeps what earlier requests left behind it. Bounds that the code computes
unsigned are unsigned. `MCHttpRequest` gives it short separators.

`Gateway` composes `Httpd` with the way of a packet: the receive mailbox as
`LossyQueue` promises it, `data_rx` with `update_table` and `rawd_push`, the thread
that writes to the raw clients, and the console's dump of the table. Of each only
its locks and waits are left; a write to a client, or to the console, is one
step that may take any time. `WebServer` says that `Httpd` is what is left of it
when one looks at the web server only: to `Httpd` whoever else takes `data_mutex`
is one of the others (`OthersLock`), to `Gateway` it is the console, and `update_table`,
which takes and leaves it in one step.

`HttpdProofs` holds the proofs about `Httpd` and `Gateway`, `HttpRequestProofs` and
`RawdProofs` those about the modules they are named for, `DfuProofs` those about
`UsbDfu` and `DfuSession`, `BoardProofs` those about `Startup`, `Console` and `Blink`.

`Rawd`: `PushCall`, `PushFrame` are `rawd_push`; `PushWake` to `PushDone` the
push thread, with the test of a connection (`PushTest`), the write (`PushWrite`)
and the end of a write that blocked (`PushWritten`) apart; `Accept` to
`NewGreeted` the accepting thread. `Network` is what lwIP and clients do:
connect, stop reading, read on, half close, die. A `netconn_write` either copies
at once, waits (the data being read from the caller's buffer when it ends), or
fails; its result is ignored, as in the code. A state read through the null pcb
of a dead connection comes from address 0, where the boot loader's vectors are;
none of them reads as ESTABLISHED.

`UsbDfu`: `Dnload`, `DnloadEnd`, `Abort`, `OtherRequest`, `GetStatus` are the cases
of `usbdfu_control_request`; `RunCommand`, `ProgramStart`, `ProgramWord`,
`ProgramEnd`, `Manifest`, `StatusOnly` those of `usbdfu_getstatus_complete`; `Tick` is
a timer step of the main loop; `PowerLoss` may come anywhere. The flash refuses
to program a word that is not erased.

`DfuSession` composes it with a DfuSe host that erases, sets the address, sends
the blocks, polls after each and repeats whatever is not answered, with tools
that ask for something else in between (`Look`), and with a power supply that
fails. `MCDfuSession` gives it an image for TLC.

`Blink`: `blink` sets an event in a mask, `BlinkStart` to `BlinkEvent` are the loop of a
`blinker`, `Hello` and `HelloDone` what `main` does to the lights, `Heartbeat`, `Request`
and `RadioPacket` the callers. Time goes in ticks of 50 ms (`BLINK_DELTA`).

`Startup`: `Order` is `main` and what it calls, cut where another thread can come
in; `Held` and `Created` say what each step initialises and starts, `Needs` and the
definitions before it what each thread uses once it runs. The radio thread goes
through its set-up and its loop (`RadioStatus`, `RadioAck`, `RadioCheck`: STATUS is read
in one step and cleared in another). `Raise` is a flag of the chip with the pin's
interrupt, if it is an edge and `extStart` has armed it; nothing but the order of the
code keeps a flag from coming before that. `HttpdSend` is a request that makes the
radio transmit. `request_hook` and `PowerCycle` start everything anew, the first with
the chip as it was.

`Console` extends `Startup` with the bus - reset, address, configuration - and with the
shell thread: `PollCreate` and `PollRelease` are `console_poll`, `Command`, `Return` and
`Exit` the shell, whose working area comes from a heap with room for `Heap`.

## 3. Runs

| Run | Instance | States | Shows |
|---|---|---|---|
| `NrfRadioDriver` | 3 buffers, FIFO 3, 5 packets, 4 messages | 316 k | order, ownership of buffers, accounting of interrupts, refinement of the queue; `nrf_send` returns, queue drained and listening again unless an edge is missed |
| `NrfRadioLastPacket` | 2 buffers, FIFO 2, 3 packets, 3 messages | - | counterexample: the comment at line 268 (section 6) |
| `Nrf24SpiSafety` | FIFO 2, 3 packets, 3 messages, registers as after power-on or as other firmware left them | 11 k | the chip is configured before it is on the air; the SPI traffic implements `RadioPort` |
| `SensorTable` | 3 slots, 4 keys with (0, 0), 2 values, ttl 2 | 181 k | the table lists the keys heard recently with room for them, once, last value (`ListsRight`); snapshot; silent sensors forgotten, however often readers come, as long as they return |
| `RawdSafety` | 2 slots, 3 clients, 2 frames | 1.5 M | slots, writes and order of frames; no client is refused for the sake of a dead one |
| `RawdLive` | 2 slots, 2 clients, 2 frames | 55 k | last frame arrives |
| `HttpdSafety` | 2 clients, all kinds of request, answers of 0, 2 and 3 pieces, buffer of 2 | 23 k | own output, resources and the lock of the table returned, OK means queued |
| `HttpRequestSafety` | 2 requests, whole or cut off, in a buffer of 18 | 552 k | requests taken apart correctly, nothing stale sent |
| `GatewayServed` | 2 clients, 2 packets, mailbox of 1 | 154 k | packets flow and clients are served while the other ends read; the table does not change while it is listed |
| `DfuSession` | 3 pages of 2 words | 1.8 k | what runs is the image, or the update was cut off; nothing is done twice; the timer keeps out; an update that is not cut off for ever ends |
| `BlinkLights` | the three lights | 6.7 k | lights at rest are right; a blink signalled during another is seen after it |
| `BoardStartup` | one radio, one host, heap for 2 shells | 12 k | order of initialisation; the edges the radio can miss are the two that `NoLostEdge` names; the shell comes back |

Bounds and why they are enough:

* `MaxPackets`, `MaxSend`, `MaxFrames`, `MaxRequests`, `MaxClients` end histories that
  only grow. With 3 buffers 5 packets wrap the ring, fill the mailbox, drop and
  wrap again; the FIFO overflows with 4; 4 messages that come while the radio
  thread sleeps in `nrf_standby` fill the transmit mailbox and block the sender.
  Deadlock checking is off in these runs because everything stops once the bounds
  are reached.
* The number of slots, keys and raw clients always exceeds what fits by one, so
  that the full case occurs; (0, 0) is among the keys. `RawdLive` has as many
  clients as slots, which liveness can be checked for; refusals are in
  `RawdSafety`.
* The ttl is short because only its end matters; 180 differs in nothing but the
  number of sweeps.
* The stream's buffer holds 2 pieces, so that answers of 3 pieces flush in the
  middle and leave a piece behind for `net_finalize`, and those of 2 flush at the
  very end. Two clients are enough for one to find what the other left; they are
  numbered in the order they connect.
* In `HttpRequest` separators and paths keep their structure (what is a prefix of
  what, where CR and LF are) and lose their length; the message is one byte, so two
  hex digits. Two requests are needed: the first fills the buffer the second, cut
  off anywhere, is searched in. `MemSize` holds the longest.
* In `GatewayServed` a mailbox of 1 with 2 packets drops one; a second packet waits
  for `rawd_mutex` while the first is written. One row of output is enough for a
  reader to hold the mutex across a write.
* Two words of a page are enough for a loss of power inside one; three pages
  for a mistake of one page in either direction to stay in the application. No
  bound is needed on requests, retries and losses of power: any number of them
  leads through finitely many states. The same is true of `Blink` and `Console`.

Each property has a mutant: a plausible error in a definition that the run of
the property must notice. They are the operators named `Faulty...`.

## 4. Fairness

* Radio: `nrf_radio` has the highest priority of the threads concerned, so weak
  fairness of its steps; a transmission ends (it is shorter than 1 ms); the
  threads below run because those above keep blocking. Nothing forces a packet
  to arrive or a client to send.
* Table: a ChibiOS mutex is handed over by the unlock to the waiter of the
  highest priority, and no reader outranks `data_rx` or `data_clean`, so both get
  it though readers come back at once: strong fairness of the two. Nothing is
  assumed of the readers, whose streams have no timeout: that none of them keeps
  the mutex for ever is the premise of `SilentForgotten` (`ReadersReturn`).
* Raw feed: the same of the mutex, weak fairness of both threads. That clients
  keep reading is not justified by the code - there is no send timeout
  (LWIP_SO_SNDTIMEO is 0) - and so is a premise of each property
  (`ClientsRead`), not part of the specification.
* Gateway: threads run when they can (`Scheduling`), httpd unless it writes to its
  client, and a mutex is handed over as above: strong fairness of `DataLock`,
  `DrxTable` and `DumpLock`. `EndsRead` says that the clients of both servers and the USB
  host read, so that `NetFlush`, `Finalize`, `FeedWrite` and `DumpDone` come,
  `ClientsAsk` that a client that connects sends a request or goes away. Neither is
  justified by the code, which has no timeouts; both are what `PacketsFlow` and `Served` depend on, and each fails
  without them (section 6). Nothing forces a packet or a client to come.
* Boot loader: the loop polls for ever. For a whole update, strong fairness
  that the host's transfers, answers and status stages get through: it repeats
  them, and a link that loses every one cannot be updated over. A stop of the
  losses of power (`Undisturbed`) is a premise of the property.
* Lights: threads run when they can and time goes on.
* Console: `main` gets through its initialisation and polls for ever, and a host on an
  active bus takes what a command prints. `ShellReturns` has as its premise that the
  bus stays active and that the processor has not stopped.

## 5. Proofs

All theorems are proved by TLAPS to the last leaf, from the named assumptions
on the constants only (`ChipAssumption`, `DriverAssumption`, `SpiAssumption`,
`TableAssumption`, `HttpdAssumption`, `RawdAssumption`, `DfuAssumption`, `ImageAssumption`,
`HeapAssumption`, `GatewayAssumption`, `RequestAssumption`, `BufferAssumption`,
`SeparatorAssumption`, `ClientAssumption`), which TLC evaluates in the runs. TLC has
also found each invariant below to hold, under the constants of the run of its
module.

* `NrfRadioProofs`. The invariant `IInv` (in `NrfRadioInv`) says that each mailbox
  holds exactly the buffers behind its index on the ring, in ring order, with room
  whenever a buffer is being filled (`RxRing`, `TxRing`); that what `nrf_irq` remembers of STATUS is still set
  (`StatusInv`); that an owed read finds a payload (`ReadInv`); that a receive-only
  node has an event for each flag it has not seen (`EdgeInv`); that queued
  messages and a full mailbox have a cause to be looked at (`KickInv`). None of
  the properties is inductive without them. From `Inductive` follow ownership
  (`RxOwned`), order of delivery (`InOrder`, through the sequence of everything
  delivered, queued and in the FIFO), the refinement of the lossy queue
  (`Implements`: initial state, then every step is a step of the queue or a
  stutter), `ReadFinds`, `BacklogGrows`, `NeverDeaf`, `TxIntact` and
  `TxNeverForgotten`.
* `SensorTableProofs`. The invariant is the type invariant together with
  `FreeIsZero`, `OneEntryPerKey`, `ListsTheRecent` and `ZeroKeyListed`: that a
  swept slot is zero is what makes a search by key alone correct. Proved:
  `TypeCorrect`, `Recent`, `NeverEvicts`. A second invariant says that a
  reader without the mutex is back at the start with no output, and that one
  with it has put out the listing of the entries it has passed (`ReaderInv`); no
  writer moves while it has it. From this `OneInstant`: what a reader has put out
  is the table of one instant, entries in order, none left out and none twice.
* `Nrf24SpiProofs`. A script is followed by the step it is at. During the start
  (`Booting`) a step k of `BootScript` tells which registers have been set
  (`SetBefore`), what CONFIG holds and that CE is low; afterwards (`Serving`) all are
  set, and each place of the loop tells what its script has left. A mode changes
  only with CE low and after the sleep that lets a transmission end. From this
  `NeverMisconfigured`, whatever the registers held at first, and `TrafficIsPort`:
  every transaction maps to an operation of `RadioPort` or to a stutter, with
  the meaning of each kind of transaction (`PortSetMode`, `PortCe`, `PortFlush` and so
  on) as a lemma. Without `Booting` neither is inductive: that the set-up has
  run shows in nothing else the loop looks at.
* `RawdProofs`. `HeldInv` says who owns `rawd_mutex` at which place, what `rawd_new`
  has found and not yet taken (`NewInv`), that every connection is in the mailbox,
  one slot or the hands of `rawd_new` (`SlotInv`), and that the push thread waits for
  the one in its slot (`WriteInv`). Proved: `NoConnectionLost`; `TargetLives`, since the
  mutex is held from the test to the end of the write. `RoomInv` says that room that was
  there when `rawd_new` got the mutex has been found or is yet to come (`Seated`), since a
  dead connection stays dead. `FrameInv` counts, for each
  client, how often the latest frame was sent and may still be (`Due`, `Coming`):
  never more than two together, which is what `TwiceAtMost` needs.
* `HttpdProofs`. `HeldInv` says which connection and which netbuf the thread holds at
  each place, the places of the error path among them; `AnswerInv` that the pieces
  sent, then those in the buffer, are what the steps of the handler taken so far
  have put (`Progress`), and so that the buffer is empty when a handler starts.
  Proved: `NothingLeaks`, `OwnAnswer`, `OkIsTrue`, for answers and buffers of any length.
  `LockInv` says that httpd has `data_mutex` from the lock of a listing to its unlock and
  at no other time (`LockedListing`): from the place of the two in the handler's
  steps (`PastLockPlace`). In the gateway `DumpInv` says the same of the console. With
  both (`MutexOwned`) nobody unlocks what is another's, so every step of `Gateway` is
  one of `Httpd` or a stutter (`ServesTheSame`), what `Httpd` promises holds there
  (`PromisesKept`), and the table stands still while it is listed (`ListingUntorn`).
  Without `LockInv` the refinement fails: httpd's unlock could take the mutex from
  the console. `OrderInv` follows the packets: the mailbox is in order and later than
  the one `data_rx` has, which is in the table before it is in the feed (`OrderKept`).
* `HttpRequestProofs`. What a search returns is the least place of a separator, which
  exists in a set of naturals that is not empty (`Least`, from the library's
  theorem on finite sets), so no induction over characters is needed
  (`SearchResult`, `SearchFinds`). `SentFromPacket` holds of whatever lies in the
  buffer: a message was decoded from the last 32 characters of the packet
  that httpd looks at, none of them overwritten with a NUL and none behind its end,
  although the bounds of two searches wrap and lead behind it: `dlen` counts from the
  true end. For `Understood`, that a request that came whole is taken apart as the
  client put it together, the separators must be what they are in HTTP:
  `SeparatorAssumption` (they begin with characters the searches pass, methods
  differ within both, paths have no NUL) and `ClientAssumption` (none stands before
  its place in a request). `NothingStale` follows from both. The invariant is
  `PacketInv` (the packet is what the client sent, up to a NUL; `FromPacket`) with the
  two properties.
* `DfuProofs`. Of `UsbDfu`, with a host that sends anything in any order: the type
  invariant with what `ran` and `open` mean for the DFU state. Proved: `TypeCorrect`,
  `Once` (a repeated status request never programs again), `Spared` (the timer never
  interrupts a download). Of `DfuSession`: `HostInv` ties the place of the host in its script to the state
  of the loader, which may be one transfer ahead of the answers; `FlashInv` says
  which pages are erased and which hold the image after the transfers that were
  carried out, with a part of a page while one is programmed; `TornInv` what an
  update leaves to the next start. Proved: `SessionIsLoader`, that an update is a
  behaviour of `UsbDfu`, step by step, so that `Once` and `Spared` hold of it
  (`OnceInSession`, `SparedInSession`); `NothingRefused`, `RunsImage`, `TornByCutOnly`, for
  every image, page size and number of pages.
* `BoardProofs`. What `main` has initialised and created by each place of `Order`
  (`MainInv`), which of its places each state of the radio thread and of the shell
  implies (`RadioInv`, `ShellInv`), and that a flag of the chip has an event pending or
  was missed, except while `nrf_irq` is between reading and clearing (`RadioInv`; that
  `nrf.th` is set before the interrupt is armed is what makes it inductive). Proved, of
  `Startup` and `Console` together and through any resets: `UsedWhenReady`, and `EdgeSeen`,
  that there are no other ways to miss an edge than the two named.
  Of `Blink`, which has no variable in common with these, the invariant
  `LightsInv`: each light is blinked with one sign only, red and green not before the
  heartbeat and the web server have started (`SignInv`); the blink each blinker
  starts with takes the two ticks `main` sleeps before `hello` (`FirstBlink`), which
  toggles an even number of times (`HelloInv`). Proved: `LightsAtRest`. Without the
  ticks it is false: a blinker that started late would undo a toggle.

Every invariant that a run checks is proved. The theorems called `Inductive`, and
`SessionInductive`, `LightsInductive`, `MutexOwned`, `LockedListing`, `ServesTheSame`,
`OrderKept`, `SentFromPacket`, `ReadFinds`, `NeverEvicts`, `SessionIsLoader` and the
`TypeCorrect`, state definitions that no run checks: the proofs cover them for every
instance.

Only model-checked:

* all liveness, for TLAPS does not reason about fairness here: `SendReturns`,
  `TxDrained`, `ListensAgain`, `SilentForgotten`, `LastFrameArrives`,
  `UpdateEnds`, `PacketsFlow`, `Served`, `BlinkSeen`, `ShellReturns`;
* `LastPacketBackToRx`, which is false (section 6);
* that the searches of `HttpRequest` and the other definitions agree with C: the
  proofs begin where the modules do.

## 6. What the models say about the code

* Counterexample. "go back to rx mode if it was the last packet"
  (nrf24l01p.c:268) does not always happen. If the chip sets TX_DS between the
  reading of STATUS (245) and the clearing of the flags read (280) - possible
  while a received packet is handled during a transmission - the pin stays low,
  no edge follows, and the radio is deaf until the next `nrf_send`. All other
  progress properties say "or an edge is missed" (`MissedEdge`), and
  `ReceiveOnlyNeverDeaf` shows that a node that never sent is not exposed. `TxDrained`
  and `ListensAgain` rest also on the web client's not posting for ever.
* Only 5 ms of sleep keep the radio from listening before `extStart` has armed its pin
  (nrf24l01p.c:158 and main.c:119). Were `main` held up for as long, a packet heard
  then would leave the pin low and the radio deaf until the next `nrf_send`.
  `NoLostEdge` states this and the case above as its two exceptions.
* One payload is read per RX_DR, so the driver never catches up with packets it
  fell behind by (`BacklogNeverShrinks`): they are delivered late by as many
  packets, and with three of them the chip discards all that follow.
* `TxBufferIntact` holds only while the transmit mailbox is not full: with ten
  messages queued the eleventh post reuses the buffer being sent.
* A board that sends messages of key (0, 0) may be listed twice for a while.
* `rawd_push`, and with it the reception of packets, waits for the slowest raw
  client, and `update_table` for the slowest reader of the table: `PacketsFlow` needs
  `EndsRead`. A reader that never reads on also stops `data_clean`: `SilentForgotten`
  needs `ReadersReturn`.
* `httpd` has no receive timeout: one client that connects and stays silent keeps
  all others out for as long as it stays. `Served` needs `ClientsAsk`.
* `data_rx` calls `rawd_push` before `rawd_init` if a packet is heard during the 400 ms
  of `hello` (main.c:120 and 136): the mutex is not initialised and the thread
  pointer is null. `InitBeforeUse` states this as its one exception.
* A request without headers makes the search for the blank line run into what an
  earlier request left in the buffer, and may be refused for it. For a first
  segment shorter than the version suffix the unsigned bound of the loop wraps;
  `NoStaleMessage` holds all the same.
* The descriptor of end point 2 announces packets of 8 bytes and `ep2_config` sets
  16 (usb_device.c:93 and 226); nothing is ever sent there.
* `cmd_net` dereferences `netif_default` and its `dhcp` without a test.
* The boot loader starts a half written application after a loss of power in
  the middle of an update, if the first word is in place
  (`TornOnlyIfInterrupted` is the most that holds).

## 7. Not modelled

* The contents of JSON, HTML, dumps and console output: layout and formatting.
* The USB descriptors: constants that `get_descriptor` returns by type and index and
  that nothing else depends on.
* A `netconn_recv` that fails and leaves the netbuf as it was, which is not
  initialised (httpd.c:204 and 275): it is taken to be null, as lwIP sets it.
* Block 1 of a download, which no DFU tool sends.
* `nrf_ext_irq` calls a kernel function that is not meant for interrupt
  handlers; the model delivers its event. What it may do to the kernel's lists is
  in the kernel, which is not part of the repository.
* MAX_RT, which the chip cannot raise without auto-acknowledge (`Nrf24Spi` shows
  that it is off whenever the chip is on the air); `nrf_has_data` and
  `nrf_read_addr`, which nothing calls.
* Flash errors (ignored by the loader) beyond the refusal of words not erased;
  transfers of odd length, after which the loader programs a byte of an earlier
  transfer: words are the unit of the model.
* Board and build configuration (`lwipopts.h`, `mcuconf.h`, `halconf.h`, `chconf.h`,
  linker scripts) and the hardware design: constants without behaviour. The ones
  that matter are constants of the modules (MBSZ, NC_COUNT, the accept mailbox)
  or are assumed where they are named (no timeouts, thread priorities).
* `ENABLED` and fairness in proofs, and what recursion over data computes.

## 8. Plan

Done: the radio driver with its queue, and its SPI traffic; the sensor table, the
raw feed, the web server and its parser, the gateway composed; start-up with
console, USB and lights; the boot loader and a whole update. Each has a proof of
every invariant and safety property its runs check.

Left:

1. `NrfRadio` and `RadioPort`: the two models of the driver meet in the operations of
   the chip, checked and proved from below (`ImplementsPort`). From above, `Boot` and
   `TxStart` combine several of them, and would have to be cut up first.
2. Words that are half left over (usbdfu.c:181), which need a byte as the unit of
   `UsbDfu`.
3. Liveness, should the prover come to reason about fairness.
