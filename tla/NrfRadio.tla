----------------------------- MODULE NrfRadio ------------------------------
(***************************************************************************)
(* The radio driver, firmware/nrf24l01p.c: the nrf_radio thread, the       *)
(* interrupt that wakes it, nrf_recv (called by the data_rx thread) and    *)
(* nrf_send (called by the httpd thread).                                  *)
(*                                                                         *)
(* Granularity.  nrf_radio outranks its callers (NORMALPRIO + 1), so they  *)
(* run only while it blocks: in an SPI transfer, in the 5 ms sleep of      *)
(* nrf_standby, or waiting for an event.  One action therefore runs from   *)
(* one blocking point to the next.  A chSysLock section of nrf_radio that  *)
(* contains an SPI transfer or a sleep does not stay locked across it,     *)
(* because those calls unlock: such a section is several actions.          *)
(*                                                                         *)
(* A mailbox is the sequence of the buffer indices posted to it.  Its two  *)
(* semaphores are the length of that sequence, less what is already        *)
(* promised to a thread that was woken and has not run yet ("granted").    *)
(***************************************************************************)
EXTENDS Nrf24Chip

CONSTANTS
  MBSZ,     \* buffers, and mailbox slots, in each direction (10)
  MaxSend   \* bound: calls of nrf_send

ASSUME DriverAssumption ==
  /\ MBSZ \in Nat /\ MBSZ > 1
  /\ MaxSend \in Nat

VARIABLES
  pc,         \* the blocking point nrf_radio is at
  evt,        \* an event is pending for nrf_radio
  status,     \* nrf_irq: the flags it read from STATUS
  rx_idx,     \* the next receive buffer to fill
  rxMb,       \* the mailbox nrf.rx
  rx_bufs,    \* the packet each receive buffer holds
  rcv,        \* data_rx in nrf_recv: "idle", "blocked" or "granted"
  delivered,  \* history: the packets nrf_recv has returned
  tx_idx,     \* the next transmit buffer to fill
  txMb,       \* the mailbox nrf.tx
  tx_bufs,    \* the message each transmit buffer holds
  snd,        \* httpd in nrf_send: "idle", "blocked", "granted" or "kick"
  calls,      \* calls of nrf_send so far; the last one sends message calls
  cur,        \* nrf_check_tx: the buffer it fetched
  fetched,    \* history: the message cur held when it was fetched
  half        \* the first half of the payload, already shifted out

rxVars == <<rx_idx, rxMb, rx_bufs, rcv, delivered>>
txVars == <<tx_idx, txMb, tx_bufs, snd, calls, cur, fetched, half>>
vars == <<chipVars, pc, evt, status, rxVars, txVars>>

Idx == 0 .. MBSZ - 1
Torn == -1  \* a receive buffer the SPI transfer is still writing

RadioPoints ==
  {"boot", "boot_sleep", "wait", "irq_status", "rx_begin", "rx_dma",
   "irq_standby", "irq_sleep", "irq_clear",
   "chk_standby", "chk_sleep", "tx_config", "tx_dma"}

\* The payload of one transmission, as two halves of a transfer.
TxPayloads == (0 .. MaxSend) \X (0 .. MaxSend)

RxTypeOK ==
  /\ rx_idx \in Idx /\ rxMb \in Seq(Idx)
  /\ rx_bufs \in [Idx -> {Torn} \union 0 .. MaxPackets]
  /\ rcv \in {"idle", "blocked", "granted"}
  /\ delivered \in Seq({Torn} \union 0 .. MaxPackets)

TxTypeOK ==
  /\ txFifo \in Seq(TxPayloads) /\ air \in Seq(TxPayloads)
  /\ tx_idx \in Idx /\ txMb \in Seq(Idx)
  /\ tx_bufs \in [Idx -> 0 .. MaxSend]
  /\ snd \in {"idle", "blocked", "granted", "kick"}
  /\ calls \in 0 .. MaxSend
  /\ cur \in Idx /\ fetched \in 0 .. MaxSend /\ half \in 0 .. MaxSend

TypeOK ==
  /\ ChipTypeOK /\ RxTypeOK /\ TxTypeOK
  /\ pc \in RadioPoints /\ evt \in BOOLEAN /\ status \in SUBSET Flags

\* nrf_init: empty mailboxes, both rings at 0, the thread about to start.
Init ==
  /\ ChipInit
  /\ pc = "boot" /\ evt = FALSE /\ status = {}
  /\ rx_idx = 0 /\ rxMb = << >> /\ rx_bufs = [i \in Idx |-> 0]
  /\ rcv = "idle" /\ delivered = << >>
  /\ tx_idx = 0 /\ txMb = << >> /\ tx_bufs = [i \in Idx |-> 0]
  /\ snd = "idle" /\ calls = 0
  /\ cur = 0 /\ fetched = 0 /\ half = 0
-----------------------------------------------------------------------------
(* Faulty variants of the definitions below.  Nothing uses them: each shows*)
(* that some property notices when the code is wrong in that way.          *)

FaultyNoDrop == rxMb' = rxMb
FaultyDropEarly == rxMb' = IF rxMb # << >> THEN Tail(rxMb) ELSE rxMb
FaultySuccShort(i) == (i + 1) % (MBSZ - 1)
FaultyNoSenderWake == snd' = snd
FaultyClearNothing == flags' = flags
FaultyNoRxFlush == rxFifo' = rxFifo /\ txFifo' = << >> /\ flags' = {}
FaultyReadAnyFlag ==
  /\ pc = "irq_status" /\ flags # {}
  /\ status' = flags
  /\ rxMb' = IF Len(rxMb) = MBSZ /\ rcv # "granted" THEN Tail(rxMb) ELSE rxMb
  /\ pc' = "rx_begin"
  /\ UNCHANGED <<chipVars, evt, rx_idx, rx_bufs, rcv, delivered, txVars>>
FaultyNeverBack(s) == "irq_clear"
FaultyNoKick ==
  /\ snd = "kick"
  /\ snd' = "idle"
  /\ UNCHANGED <<chipVars, pc, evt, status, rxVars, tx_idx, txMb, tx_bufs,
                 calls, cur, fetched, half>>
-----------------------------------------------------------------------------
(* Pieces of the handlers.                                                 *)

Succ(i) == (i + 1) % MBSZ

RxFree == MBSZ - Len(rxMb)
RxUsed == Len(rxMb) - (IF rcv = "granted" THEN 1 ELSE 0)
TxFree == MBSZ - Len(txMb) - (IF snd = "granted" THEN 1 ELSE 0)
TxUsed == Len(txMb)

\* nrf_irq, "if full, drop oldest".
RxDropOldest ==
  rxMb' = IF RxFree = 0 /\ RxUsed > 0 THEN Tail(rxMb) ELSE rxMb

\* nrf_irq posts the buffer just filled, TIME_IMMEDIATE, and moves on to the
\* next one whether or not the post found room.
RxPost ==
  /\ rxMb' = IF RxFree > 0 THEN Append(rxMb, rx_idx) ELSE rxMb
  /\ rcv' = IF RxFree > 0 /\ rcv = "blocked" THEN "granted" ELSE rcv
  /\ rx_idx' = Succ(rx_idx)

\* Fetching from the mailbox nrf.tx lets a sender waiting for room go on.
WakeSender == snd' = IF snd = "blocked" THEN "granted" ELSE snd

\* nrf_standby up to its sleep: CE low, CONFIG without PRIM_RX.
StandbyRegisters == ce' = FALSE /\ mode' = "ptx"

\* nrf_rx_mode.
RxModeRegisters == mode' = "prx" /\ ce' = TRUE

\* The 5 ms sleep of nrf_standby outlasts any transmission (below 1 ms).
StandbySlept == ~txBusy

\* nrf_irq after the RX_DR branch, with s the status it read: back to rx
\* mode if this was the last packet, otherwise straight to the clearing.
AfterRx(s) == IF "TX_DS" \in s /\ TxUsed = 0 THEN "irq_standby" ELSE "irq_clear"

\* nrf_irq's last write: flags are cleared by writing back those read.
ClearStatus == flags' = flags \ status

\* nrf_radio up to its loop: power down, configure, flush both FIFOs and
\* clear the interrupts; then nrf_standby.
BootFlush == rxFifo' = << >> /\ txFifo' = << >> /\ flags' = {}
-----------------------------------------------------------------------------
(* The nrf_radio thread.                                                   *)

Boot ==
  /\ pc = "boot"
  /\ BootFlush /\ StandbyRegisters
  /\ pc' = "boot_sleep"
  /\ UNCHANGED <<txBusy, arrived, air, evt, status, rxVars, txVars>>

BootRxMode ==
  /\ pc = "boot_sleep" /\ StandbySlept
  /\ RxModeRegisters
  /\ pc' = "wait"
  /\ UNCHANGED <<flags, rxFifo, txFifo, txBusy, arrived, air, evt, status,
                 rxVars, txVars>>

\* chEvtWaitAny: wait for an event and clear it.
WaitEvent ==
  /\ pc = "wait" /\ evt
  /\ evt' = FALSE
  /\ pc' = "irq_status"
  /\ UNCHANGED <<chipVars, status, rxVars, txVars>>

\* nrf_irq reads STATUS; RX_DR is set, so it makes room in the mailbox.
IrqStatusRx ==
  /\ pc = "irq_status" /\ "RX_DR" \in flags
  /\ status' = flags
  /\ RxDropOldest
  /\ pc' = "rx_begin"
  /\ UNCHANGED <<chipVars, evt, rx_idx, rx_bufs, rcv, delivered, txVars>>

\* nrf_irq reads STATUS and there is no RX_DR.
IrqStatusNoRx ==
  /\ pc = "irq_status" /\ "RX_DR" \notin flags
  /\ status' = flags
  /\ pc' = AfterRx(flags)
  /\ UNCHANGED <<chipVars, evt, rxVars, txVars>>

\* nrf_rx: the payload transfer starts writing the buffer, unless the chip
\* reports an empty FIFO.  The payload width is constant (RX_PW_P0), so the
\* size check always passes.
RxBegin ==
  /\ pc = "rx_begin"
  /\ rx_bufs' = IF rxFifo # << >> THEN [rx_bufs EXCEPT ![rx_idx] = Torn]
                ELSE rx_bufs
  /\ pc' = "rx_dma"
  /\ UNCHANGED <<chipVars, evt, status, rx_idx, rxMb, rcv, delivered, txVars>>

\* nrf_rx returns, its result ignored, and the buffer is posted.
RxEnd ==
  /\ pc = "rx_dma"
  /\ IF rx_bufs[rx_idx] = Torn
       THEN /\ rx_bufs' = [rx_bufs EXCEPT ![rx_idx] = Head(rxFifo)]
            /\ rxFifo' = Tail(rxFifo)
       ELSE UNCHANGED <<rx_bufs, rxFifo>>
  /\ RxPost
  /\ pc' = AfterRx(status)
  /\ UNCHANGED <<ce, mode, flags, txFifo, txBusy, arrived, air, evt, status,
                 delivered, txVars>>

\* nrf_irq, TX_DS branch: nrf_standby, then nrf_rx_mode.
IrqStandby ==
  /\ pc = "irq_standby"
  /\ StandbyRegisters
  /\ pc' = "irq_sleep"
  /\ UNCHANGED <<flags, rxFifo, txFifo, txBusy, arrived, air, evt, status,
                 rxVars, txVars>>

IrqRxMode ==
  /\ pc = "irq_sleep" /\ StandbySlept
  /\ RxModeRegisters
  /\ pc' = "irq_clear"
  /\ UNCHANGED <<flags, rxFifo, txFifo, txBusy, arrived, air, evt, status,
                 rxVars, txVars>>

\* The end of nrf_irq, and nrf_check_tx's test of the mailbox.
IrqClear ==
  /\ pc = "irq_clear"
  /\ ClearStatus
  /\ status' = {}  \* a local variable of nrf_irq
  /\ pc' = IF TxUsed > 0 THEN "chk_standby" ELSE "wait"
  /\ UNCHANGED <<ce, mode, rxFifo, txFifo, txBusy, arrived, air, evt,
                 rxVars, txVars>>

CheckTxStandby ==
  /\ pc = "chk_standby"
  /\ StandbyRegisters
  /\ pc' = "chk_sleep"
  /\ UNCHANGED <<flags, rxFifo, txFifo, txBusy, arrived, air, evt, status,
                 rxVars, txVars>>

\* nrf_check_tx fetches a message, which may wake a sender waiting for room.
CheckTxFetch ==
  /\ pc = "chk_sleep" /\ StandbySlept
  /\ cur' = Head(txMb)
  /\ fetched' = tx_bufs[Head(txMb)]
  /\ txMb' = Tail(txMb)
  /\ WakeSender
  /\ pc' = "tx_config"
  /\ UNCHANGED <<chipVars, evt, status, rxVars, tx_idx, tx_bufs, calls, half>>

\* nrf_tx writes CONFIG and starts to shift the payload out of the buffer.
TxConfig ==
  /\ pc = "tx_config"
  /\ mode' = "ptx"
  /\ half' = tx_bufs[cur]
  /\ pc' = "tx_dma"
  /\ UNCHANGED <<ce, flags, rxFifo, txFifo, txBusy, arrived, air, evt, status,
                 rxVars, tx_idx, txMb, tx_bufs, snd, calls, cur, fetched>>

\* The transfer ends, and CE high starts the transmission.
TxStart ==
  /\ pc = "tx_dma"
  /\ txFifo' = Append(txFifo, <<half, tx_bufs[cur]>>)
  /\ ce' = TRUE
  /\ txBusy' = TRUE
  /\ pc' = "wait"
  /\ cur' = 0 /\ fetched' = 0 /\ half' = 0  \* locals of nrf_check_tx
  /\ UNCHANGED <<mode, flags, rxFifo, arrived, air, evt, status, rxVars,
                 tx_idx, txMb, tx_bufs, snd, calls>>

RadioThread ==
  \/ Boot \/ BootRxMode \/ WaitEvent
  \/ IrqStatusRx \/ IrqStatusNoRx \/ RxBegin \/ RxEnd
  \/ IrqStandby \/ IrqRxMode \/ IrqClear
  \/ CheckTxStandby \/ CheckTxFetch \/ TxConfig \/ TxStart
-----------------------------------------------------------------------------
(* The interrupt: a falling edge of the IRQ pin runs nrf_ext_irq, which    *)
(* calls nrf_kick_loop.  There is no edge while the pin stays asserted.    *)

IrqEdge == evt' = (evt \/ (~IrqAsserted /\ IrqAsserted'))

ChipReceive ==
  /\ Receive
  /\ IrqEdge
  /\ UNCHANGED <<pc, status, rxVars, txVars>>

ChipTransmitDone ==
  /\ TransmitDone
  /\ IrqEdge
  /\ UNCHANGED <<pc, status, rxVars, txVars>>
-----------------------------------------------------------------------------
(* nrf_recv, called in a loop by the data_rx thread.                       *)

\* Fetch the oldest buffer and copy it out, in one locked section.
RecvCopy ==
  /\ rxMb' = Tail(rxMb)
  /\ delivered' = Append(delivered, rx_bufs[Head(rxMb)])
  /\ rcv' = "idle"

RecvCall ==
  /\ rcv = "idle"
  /\ IF RxUsed > 0 THEN RecvCopy
     ELSE rcv' = "blocked" /\ UNCHANGED <<rxMb, delivered>>
  /\ UNCHANGED <<chipVars, pc, evt, status, rx_idx, rx_bufs, txVars>>

RecvResume ==
  /\ rcv = "granted"
  /\ RecvCopy
  /\ UNCHANGED <<chipVars, pc, evt, status, rx_idx, rx_bufs, txVars>>
-----------------------------------------------------------------------------
(* nrf_send, called by the httpd thread.                                   *)

\* Post the next buffer and fill it with message m, in one locked section.
SendCopy(m) ==
  /\ txMb' = Append(txMb, tx_idx)
  /\ tx_bufs' = [tx_bufs EXCEPT ![tx_idx] = m]
  /\ tx_idx' = Succ(tx_idx)
  /\ snd' = "kick"

SendCall ==
  /\ snd = "idle" /\ calls < MaxSend
  /\ calls' = calls + 1
  /\ IF TxFree > 0 THEN SendCopy(calls + 1)
     ELSE snd' = "blocked" /\ UNCHANGED <<txMb, tx_bufs, tx_idx>>
  /\ UNCHANGED <<chipVars, pc, evt, status, rxVars, cur, fetched, half>>

SendResume ==
  /\ snd = "granted"
  /\ SendCopy(calls)
  /\ UNCHANGED <<chipVars, pc, evt, status, rxVars, calls, cur, fetched, half>>

\* nrf_kick_loop, after the locked section.
SendKick ==
  /\ snd = "kick"
  /\ snd' = "idle"
  /\ evt' = TRUE
  /\ UNCHANGED <<chipVars, pc, status, rxVars, tx_idx, txMb, tx_bufs, calls,
                 cur, fetched, half>>
-----------------------------------------------------------------------------
Sender == SendCall \/ SendResume \/ SendKick
Receiver == RecvCall \/ RecvResume
Chip == ChipReceive \/ ChipTransmitDone

Next == RadioThread \/ Chip \/ Receiver \/ Sender

Spec == Init /\ [][Next]_vars

(***************************************************************************)
(* Fairness.  nrf_radio has the highest priority of the threads here, so   *)
(* it runs whenever it can; the others run because every thread above them *)
(* keeps blocking; a transmission takes a bounded time.  Nothing forces a  *)
(* packet to arrive or the web client to post a message.                   *)
(***************************************************************************)
Fairness ==
  /\ WF_vars(RadioThread)
  /\ WF_vars(ChipTransmitDone)
  /\ WF_vars(Receiver)
  /\ WF_vars(SendResume \/ SendKick)

FairSpec == Spec /\ Fairness
-----------------------------------------------------------------------------
(* Safety of the receive path.                                             *)

\* The transfer of nrf_rx never writes a buffer the mailbox still holds:
\* rx_idx walks the ring in step with the mailbox (lines 251-260).
RxBufferOwned ==
  pc \in {"rx_begin", "rx_dma"} => \A k \in DOMAIN rxMb : rxMb[k] # rx_idx

\* The packets in the mailbox, oldest first.
Queue == [k \in DOMAIN rxMb |-> rx_bufs[rxMb[k]]]

\* The packets returned by nrf_recv, then those in the mailbox, then those in
\* the chip are whole, new since the firmware started and in order of arrival.
\* Drop-oldest may leave packets out, never repeat, reorder or tear one.
InFlight == (delivered \o Queue) \o rxFifo
Ascending(s, n) ==
  /\ \A i \in DOMAIN s : s[i] \in 1 .. n
  /\ \A i, j \in DOMAIN s : i < j => s[i] < s[j]
DeliveredInOrder == pc # "boot" => Ascending(InFlight, arrived)

\* The path implements the lossy queue of that module: only a full mailbox
\* loses a packet, and then the oldest one.
RxQueue == INSTANCE LossyQueue WITH
  chan <- Queue, out <- delivered, Cap <- MBSZ, Packets <- 1 .. MaxPackets
RxImplementsQueue == RxQueue!LQSpec

\* The payloads in the chip's FIFO that no pending read of nrf_irq accounts
\* for.  nrf_irq reads one payload for each RX_DR it sees, however many came.
ReadOwed ==
  \/ pc \in {"rx_begin", "rx_dma"}
  \/ "RX_DR" \in flags /\ "RX_DR" \notin status
Backlog == Len(rxFifo) - (IF ReadOwed THEN 1 ELSE 0)

\* nrf_irq may ignore the result of nrf_rx: whenever it reads, there is a
\* payload (line 258).
ReadFindsPayload == pc # "boot" => Backlog >= 0

\* A packet that came between the reading of STATUS and its clearing is
\* never caught up with: the backlog can grow but not shrink, so once it has
\* reached RxFifoSize the radio discards every packet until a reset.
BacklogNeverShrinks == [][pc # "boot" => Backlog' >= Backlog]_vars

\* An interrupt flag is set, the thread sleeps and no event is pending: the
\* pin is already low, so no further interrupt will come by itself.
MissedEdge == pc = "wait" /\ ~evt /\ IrqAsserted

\* A node that never transmitted never misses an interrupt: nrf_irq clears
\* exactly the flags it saw, and an edge it raced with left an event.
ReceiveOnlyNeverDeaf == air = << >> => ~MissedEdge
-----------------------------------------------------------------------------
(* Safety of the transmit path.                                            *)

\* nrf_tx sends the message nrf_check_tx fetched, as long as nrf_send has not
\* filled the mailbox again meanwhile.  (With the mailbox full, nrf_send has
\* reused the very buffer being sent: there are only MBSZ of them.)
TxBufferIntact ==
  pc \in {"tx_config", "tx_dma"} /\ Len(txMb) < MBSZ =>
    /\ tx_bufs[cur] = fetched
    /\ pc = "tx_dma" => half = fetched

\* A queued message always has something that will make nrf_radio look at
\* the mailbox: an event, a transmission that will end, an unhandled TX_DS,
\* or a sender about to kick.
QueuedTxHasCause ==
  pc = "wait" /\ txMb # << >> =>
    evt \/ txBusy \/ "TX_DS" \in flags \/ snd = "kick"

\* A sender blocked on a full mailbox is never left to an interrupt that may
\* be missed: the kick of the last post is still pending.
BlockedSenderHasEvent == pc = "wait" /\ snd = "blocked" => evt
-----------------------------------------------------------------------------
(* Liveness.                                                               *)

\* nrf_send always returns, even when the radio misses edges: the post that
\* filled the mailbox was followed by a kick.
SendReturns == snd # "idle" ~> snd = "idle"

\* Unless the radio misses an edge, it empties the mailbox nrf.tx once the web
\* client stops posting, which it does after MaxSend messages ...
TxDrained == txMb # << >> ~> (txMb = << >> \/ MissedEdge)

\* ... and goes back to listening.  A client that never stopped could keep it
\* sending for ever.
ListensAgain == ~Listening ~> (Listening \/ MissedEdge)

\* nrf_irq, "go back to rx mode if it was the last packet" (line 268).
LastPacketBackToRx ==
  pc = "wait" /\ txMb = << >> /\ ~Listening ~> (Listening \/ txMb # << >>)
=============================================================================
