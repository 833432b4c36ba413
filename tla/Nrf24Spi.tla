----------------------------- MODULE Nrf24Spi ------------------------------
(***************************************************************************)
(* The SPI traffic of firmware/nrf24l01p.c: every command byte and every   *)
(* register write of the nrf_radio thread, and a chip that decodes them.   *)
(* Module NrfRadio has the mailboxes and the threads around it.            *)
(*                                                                         *)
(* One transaction, from spiSelect to spiUnselect, is one step of a script.*)
(* A payload is one number; a register is the sequence of its bytes.       *)
(* The chip (external) keeps its registers over a reset of the firmware;   *)
(* its CE pin is low from reset (VAL_GPIOBODR in board.h).                 *)
(***************************************************************************)
EXTENDS Integers, Sequences

CONSTANTS
  RxFifoSize, MaxPackets,  \* as in Nrf24Chip
  MaxSend                  \* bound: calls of nrf_send

ASSUME SpiAssumption ==
  RxFifoSize \in Nat \ {0} /\ MaxPackets \in Nat /\ MaxSend \in Nat

VARIABLES
  regs,    \* the chip's registers
  ce, flags, rxFifo, txFifo, txBusy, arrived, air,  \* as in Nrf24Chip
  at,      \* where nrf_radio is, between two scripts
  script,  \* the steps it has to take before it goes on from there
  ret,     \* the byte the last transaction returned
  status,  \* nrf_irq: the byte it read from STATUS
  queued,  \* messages in the mailbox nrf.tx
  sends    \* calls of nrf_send so far

ioVars == <<ce, flags, rxFifo, txFifo, txBusy, arrived, air>>
driverVars == <<at, script, ret, status, queued, sends>>
vars == <<regs, ioVars, driverVars>>

Cmd == [R_REGISTER |-> 0, W_REGISTER |-> 32, R_RX_PAYLOAD |-> 97, W_TX_PAYLOAD |-> 160,
        FLUSH_TX |-> 225, FLUSH_RX |-> 226, NOP |-> 255]

Reg == [CONFIG |-> 0, EN_AA |-> 1, EN_RXADDR |-> 2, SETUP_AW |-> 3, SETUP_RETR |-> 4,
        RF_CH |-> 5, RF_SETUP |-> 6, STATUS |-> 7, RX_ADDR_P0 |-> 10, TX_ADDR |-> 16,
        RX_PW_P0 |-> 17, DYNPD |-> 28]

\* CONFIG and STATUS.
PRIM_RX == 1
PWR_UP == 2
NRF_CONFIG == 8 + 4  \* EN_CRC | CRCO
FlagBit == [RX_DR |-> 64, TX_DS |-> 32, MAX_RT |-> 16]

AW_3_BYTES == 1
broadcast == <<16, 171, 15>>
CHANNEL == 24
RF_1M_0dBm == 6  \* RF_DR_1M | RF_PWR_3
PAYLOADSZ == 16

Bit(byte, b) == (byte \div b) % 2 = 1
FlagsIn(byte) == {f \in DOMAIN FlagBit : Bit(byte, FlagBit[f])}
-----------------------------------------------------------------------------
(* The chip: what it answers and what it does.  SETUP_RETR, and TX_ADDR for*)
(* another receiver, matter only with auto-acknowledge.                    *)

\* What is left in the registers: power-on values, or those of other firmware.
PowerOn ==
  [a \in {Reg[r] : r \in DOMAIN Reg} |->
     CASE a = Reg.CONFIG -> <<8>> [] a = Reg.EN_AA -> <<63>> [] a = Reg.EN_RXADDR -> <<3>>
       [] a \in {Reg.RX_ADDR_P0, Reg.TX_ADDR} -> <<231, 231, 231, 231, 231>>
       [] a \in {Reg.SETUP_AW, Reg.SETUP_RETR} -> <<3>> [] a = Reg.RF_CH -> <<2>>
       [] a = Reg.RF_SETUP -> <<14>> [] OTHER -> <<0>>]
Foreign(config) ==
  [a \in DOMAIN PowerOn |-> IF a = Reg.CONFIG THEN <<config>>
                            ELSE IF a \in {Reg.RX_ADDR_P0, Reg.TX_ADDR} THEN <<1, 2, 3>> ELSE <<63>>]
Leftovers == {PowerOn} \union {Foreign(c) : c \in {PWR_UP, PWR_UP + PRIM_RX}}

ConfigBit(r, b) == Bit(r[Reg.CONFIG][1], b)
Mode(r) == IF ~ConfigBit(r, PWR_UP) THEN "off" ELSE IF ConfigBit(r, PRIM_RX) THEN "prx" ELSE "ptx"

\* Bits 1 to 3 of STATUS: the pipe of the oldest payload, or 7 for none.
Pipe == IF rxFifo = << >> THEN 7 ELSE 0
StatusByte ==
  LET Value(f) == IF f \in flags THEN FlagBit[f] ELSE 0
  IN  Value("RX_DR") + Value("TX_DS") + Value("MAX_RT") + 2 * Pipe

Reply(cmd) ==
  CASE cmd = Cmd.NOP -> StatusByte
    [] cmd \in DOMAIN regs -> regs[cmd][1]
    [] OTHER -> 0

\* The chip carries out a transaction.  Flags are cleared by writing ones.
Decode(bytes) ==
  LET cmd  == Head(bytes)
      addr == cmd - Cmd.W_REGISTER
      Writes == addr \in DOMAIN regs
  IN  /\ regs' = IF Writes /\ addr # Reg.STATUS THEN [regs EXCEPT ![addr] = Tail(bytes)] ELSE regs
      /\ flags' = IF Writes /\ addr = Reg.STATUS THEN flags \ FlagsIn(bytes[2]) ELSE flags
      /\ rxFifo' = CASE cmd = Cmd.FLUSH_RX -> << >>
                     [] cmd = Cmd.R_RX_PAYLOAD /\ rxFifo # << >> -> Tail(rxFifo)
                     [] OTHER -> rxFifo
      /\ txFifo' = CASE cmd = Cmd.FLUSH_TX -> << >>
                     [] cmd = Cmd.W_TX_PAYLOAD -> Append(txFifo, bytes[2])
                     [] OTHER -> txFifo
      /\ ret' = Reply(cmd)

\* A packet can be heard only as the driver configures the chip.
Configured ==
  /\ regs[Reg.SETUP_AW] = <<AW_3_BYTES>> /\ regs[Reg.RX_ADDR_P0] = broadcast
  /\ regs[Reg.EN_RXADDR] = <<1>> /\ regs[Reg.RX_PW_P0] = <<PAYLOADSZ>>
  /\ regs[Reg.RF_CH] = <<CHANNEL>> /\ regs[Reg.RF_SETUP] = <<RF_1M_0dBm>>
  /\ regs[Reg.EN_AA] = <<0>> /\ regs[Reg.DYNPD] = <<0>>
  /\ ConfigBit(regs, 8) /\ ConfigBit(regs, 4)

Hear ==
  /\ Mode(regs) = "prx" /\ ce /\ arrived < MaxPackets
  /\ arrived' = arrived + 1
  /\ IF Len(rxFifo) < RxFifoSize
       THEN rxFifo' = Append(rxFifo, arrived + 1) /\ flags' = flags \union {"RX_DR"}
       ELSE UNCHANGED <<rxFifo, flags>>
  /\ UNCHANGED <<regs, ce, txFifo, txBusy, air, driverVars>>

\* With auto-acknowledge the transmission may fail and stay in the FIFO.
Transmitted ==
  /\ txBusy /\ txBusy' = FALSE
  /\ \/ /\ txFifo' = Tail(txFifo) /\ air' = Append(air, Head(txFifo))
        /\ flags' = flags \union {"TX_DS"}
     \/ /\ Bit(regs[Reg.EN_AA][1], 1)
        /\ flags' = flags \union {"MAX_RT"} /\ UNCHANGED <<txFifo, air>>
  /\ UNCHANGED <<regs, ce, rxFifo, arrived, driverVars>>
-----------------------------------------------------------------------------
(* The driver's functions, as scripts.                                     *)

Spi(bytes) == <<[op |-> "spi", arg |-> bytes]>>
nrf_ce_l == <<[op |-> "ce", arg |-> <<0>>]>>
nrf_ce_h == <<[op |-> "ce", arg |-> <<1>>]>>
Sleep5ms == <<[op |-> "sleep", arg |-> << >>]>>

nrf_read_reg(addr) == Spi(<<Cmd.R_REGISTER + addr>>)
nrf_write_reg(addr, data) == Spi(<<Cmd.W_REGISTER + addr, data>>)
nrf_write_addr(addr, data) == Spi(<<Cmd.W_REGISTER + addr>> \o data)
nrf_read_payload == Spi(<<Cmd.R_RX_PAYLOAD>>)
nrf_write_payload(m) == Spi(<<Cmd.W_TX_PAYLOAD, m>>)
nrf_flush_tx == Spi(<<Cmd.FLUSH_TX>>)
nrf_flush_rx == Spi(<<Cmd.FLUSH_RX>>)
nrf_get_status == Spi(<<Cmd.NOP>>)

nrf_standby == nrf_ce_l \o nrf_write_reg(Reg.CONFIG, NRF_CONFIG + PWR_UP) \o Sleep5ms
nrf_rx_mode == nrf_write_reg(Reg.CONFIG, NRF_CONFIG + PWR_UP + PRIM_RX) \o nrf_ce_h
nrf_powerdown == nrf_ce_l \o nrf_write_reg(Reg.CONFIG, 0)
nrf_tx(m) == nrf_write_reg(Reg.CONFIG, NRF_CONFIG + PWR_UP) \o nrf_write_payload(m) \o nrf_ce_h

(* Faulty variants of the definitions below.  Nothing uses them: each shows*)
(* that some property notices when the code is wrong in that way.          *)
FaultySetup ==
  nrf_write_reg(Reg.SETUP_AW, AW_3_BYTES) \o nrf_write_addr(Reg.TX_ADDR, broadcast)
    \o nrf_write_addr(Reg.RX_ADDR_P0, broadcast) \o nrf_write_reg(Reg.EN_RXADDR, 1)
    \o nrf_write_reg(Reg.EN_AA, 0) \o nrf_write_reg(Reg.RX_PW_P0, PAYLOADSZ)
    \o nrf_write_reg(Reg.RF_CH, CHANNEL) \o nrf_write_reg(Reg.RF_SETUP, RF_1M_0dBm)
FaultyTxDone == IF "TX_DS" \in FlagsIn(status) THEN nrf_rx_mode \o nrf_standby ELSE << >>

\* nrf_radio up to its loop: setup, flushes, flags, receive mode.
Setup ==
  nrf_write_reg(Reg.SETUP_AW, AW_3_BYTES) \o nrf_write_addr(Reg.TX_ADDR, broadcast)
    \o nrf_write_reg(Reg.SETUP_RETR, 0) \o nrf_write_addr(Reg.RX_ADDR_P0, broadcast)
    \o nrf_write_reg(Reg.EN_RXADDR, 1) \o nrf_write_reg(Reg.EN_AA, 0)
    \o nrf_write_reg(Reg.DYNPD, 0) \o nrf_write_reg(Reg.RX_PW_P0, PAYLOADSZ)
    \o nrf_write_reg(Reg.RF_CH, CHANNEL) \o nrf_write_reg(Reg.RF_SETUP, RF_1M_0dBm)
BootScript ==
  nrf_powerdown \o Setup \o nrf_flush_tx \o nrf_flush_rx
    \o nrf_write_reg(Reg.STATUS, 64 + 32 + 16) \o nrf_standby \o nrf_rx_mode

\* nrf_irq: back to receive mode after the last packet.
TxDone == IF "TX_DS" \in FlagsIn(status) /\ queued = 0 THEN nrf_standby \o nrf_rx_mode ELSE << >>

Init ==
  /\ regs \in Leftovers
  /\ ce = FALSE /\ txBusy = FALSE /\ arrived = 0 /\ air = << >>
  /\ flags \in SUBSET {"RX_DR", "TX_DS"} /\ rxFifo \in {<< >>, <<0>>} /\ txFifo \in {<< >>, <<0>>}
  /\ at = "wait" /\ script = BootScript /\ ret = 0 /\ status = 0 /\ queued = 0 /\ sends = 0
-----------------------------------------------------------------------------
(* The nrf_radio thread.                                                   *)

NextOp(op) == script # << >> /\ Head(script).op = op /\ script' = Tail(script)

SpiTransfer ==
  /\ NextOp("spi") /\ Decode(Head(script).arg)
  /\ UNCHANGED <<ce, txBusy, arrived, air, at, status, queued, sends>>

\* CE high makes the chip transmit what it holds.
SetCe ==
  /\ NextOp("ce")
  /\ ce' = (Head(script).arg = <<1>>)
  /\ txBusy' = IF ce' /\ ~ce THEN Mode(regs) = "ptx" /\ txFifo # << >> ELSE txBusy
  /\ UNCHANGED <<regs, flags, rxFifo, txFifo, arrived, air, at, ret, status, queued, sends>>

\* The sleep outlasts any transmission.
Sleep ==
  /\ NextOp("sleep") /\ ~txBusy
  /\ UNCHANGED <<regs, ioVars, at, ret, status, queued, sends>>

\* The end of a script: the thread goes from one place to the next.
Go(from, to, steps) ==
  /\ at = from /\ script = << >>
  /\ at' = to /\ script' = steps
  /\ UNCHANGED <<regs, ioVars, ret, sends>>

\* An event (module NrfRadio) leads to nrf_irq.
WaitEvent ==
  /\ flags # {} \/ queued > 0
  /\ Go("wait", "status", nrf_get_status)
  /\ UNCHANGED <<status, queued>>

HaveStatus ==
  /\ status' = ret
  /\ IF "RX_DR" \in FlagsIn(ret) THEN Go("status", "pipe", nrf_get_status)
                                 ELSE Go("status", "sent", << >>)
  /\ UNCHANGED queued

\* nrf_rx, step by step.
HavePipe ==
  /\ LET pipe == (ret \div 2) % 8 IN
       IF pipe > 5 THEN Go("pipe", "sent", << >>)
                   ELSE Go("pipe", "width", nrf_read_reg(Reg.RX_PW_P0 + pipe))
  /\ UNCHANGED <<status, queued>>

HaveWidth ==
  /\ Go("width", "sent", IF ret = PAYLOADSZ THEN nrf_read_payload ELSE nrf_flush_rx)
  /\ UNCHANGED <<status, queued>>

\* The TX_DS branch and the clearing of the flags read.
AfterRx ==
  /\ Go("sent", "check", TxDone \o nrf_write_reg(Reg.STATUS, status))
  /\ UNCHANGED <<status, queued>>

\* nrf_check_tx.
CheckTx ==
  /\ IF queued > 0
       THEN /\ Go("check", "wait", nrf_standby \o nrf_tx(sends - queued + 1))
            /\ queued' = queued - 1
       ELSE Go("check", "wait", << >>) /\ UNCHANGED queued
  /\ status' = 0

\* nrf_send.
Send ==
  /\ sends < MaxSend
  /\ sends' = sends + 1 /\ queued' = queued + 1
  /\ UNCHANGED <<regs, ioVars, at, script, ret, status>>

Next ==
  \/ SpiTransfer \/ SetCe \/ Sleep \/ WaitEvent \/ HaveStatus \/ HavePipe
  \/ HaveWidth \/ AfterRx \/ CheckTx \/ Send \/ Hear \/ Transmitted

Spec == Init /\ [][Next]_vars
-----------------------------------------------------------------------------
(* Safety.                                                                 *)

\* Whatever the chip's registers held when the firmware started, it listens
\* or transmits only with every setting of the driver in place.
OnAirConfigured ==
  ce /\ Mode(regs) # "off" =>
    Configured /\ regs[Reg.TX_ADDR] = broadcast /\ regs[Reg.SETUP_RETR] = <<0>>

\* The transactions amount to the operations module NrfRadio is built on:
\* each is one of them or changes nothing it can see.  (There a payload to
\* transmit is a pair, of its two halves.)
Halves(s) == [i \in DOMAIN s |-> <<s[i], s[i]>>]
Port == INSTANCE RadioPort WITH
  mode <- Mode(regs), txFifo <- Halves(txFifo), air <- Halves(air)
ImplementsPort == Port!PortSpec
=============================================================================
