----------------------------- MODULE Nrf24Chip -----------------------------
(***************************************************************************)
(* The nRF24L01+ radio as the driver in firmware/nrf24l01p.c sees it over  *)
(* SPI.  The chip is hardware: everything here is external, modelled from  *)
(* the registers and commands the driver uses (firmware/nrf24l01p.h).      *)
(*                                                                         *)
(* Packets heard on the air are numbered 1, 2, ... in order of arrival; 0  *)
(* stands for any payload older than this start of the firmware.           *)
(* Auto-acknowledge is off (EN_AA = 0), so MAX_RT is never raised.         *)
(***************************************************************************)
EXTENDS Integers, Sequences

CONSTANTS
  RxFifoSize,  \* payloads the chip can hold for the driver (3 in silicon)
  MaxPackets   \* bound: packets that arrive on the air

ASSUME ChipAssumption ==
  /\ RxFifoSize \in Nat \ {0}
  /\ MaxPackets \in Nat

VARIABLES
  ce,       \* the CE pin
  mode,     \* CONFIG: "off" (PWR_UP = 0), "ptx" (PRIM_RX = 0), "prx"
  flags,    \* the interrupt flags set in STATUS
  rxFifo,   \* received payloads, oldest first
  txFifo,   \* payloads written for transmission
  txBusy,   \* a transmission is under way
  arrived,  \* packets heard so far
  air       \* history: the payloads transmitted

chipVars == <<ce, mode, flags, rxFifo, txFifo, txBusy, arrived, air>>

Flags == {"RX_DR", "TX_DS"}

\* The types of what the chip keeps, except the payloads it transmits.
ChipTypeOK ==
  /\ ce \in BOOLEAN /\ txBusy \in BOOLEAN
  /\ mode \in {"off", "ptx", "prx"}
  /\ flags \in SUBSET Flags
  /\ arrived \in 0 .. MaxPackets
  /\ rxFifo \in Seq(0 .. MaxPackets) /\ Len(rxFifo) <= RxFifoSize

\* The IRQ pin (active low) is asserted as long as any flag is set.
IrqAsserted == flags # {}

\* Chip state left by an earlier run: only the MCU was reset.  CE starts low.
ChipInit ==
  /\ ce = FALSE
  /\ mode \in {"off", "ptx", "prx"}
  /\ flags \in SUBSET Flags
  /\ rxFifo \in {<< >>, <<0>>}
  /\ txFifo \in {<< >>, << <<0, 0>> >>}
  /\ txBusy = FALSE
  /\ arrived = 0
  /\ air = << >>

Listening == mode = "prx" /\ ce

\* A packet arrives while the chip listens.  A full FIFO discards it silently.
Receive ==
  /\ Listening
  /\ arrived < MaxPackets
  /\ arrived' = arrived + 1
  /\ IF Len(rxFifo) < RxFifoSize
       THEN /\ rxFifo' = Append(rxFifo, arrived + 1)
            /\ flags' = flags \union {"RX_DR"}
       ELSE UNCHANGED <<rxFifo, flags>>
  /\ UNCHANGED <<ce, mode, txFifo, txBusy, air>>

\* The transmission under way completes; it does so even if CE went low.
TransmitDone ==
  /\ txBusy
  /\ txBusy' = FALSE
  /\ txFifo' = Tail(txFifo)
  /\ air' = Append(air, Head(txFifo))
  /\ flags' = flags \union {"TX_DS"}
  /\ UNCHANGED <<ce, mode, rxFifo, arrived>>
=============================================================================
