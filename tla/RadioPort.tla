----------------------------- MODULE RadioPort -----------------------------
(***************************************************************************)
(* The operations of the chip that module NrfRadio takes for granted, one  *)
(* action each: what the SPI transactions of firmware/nrf24l01p.c amount   *)
(* to (module Nrf24Spi shows that they do).  Auto-acknowledge is off, so a *)
(* transmission ends in TX_DS; a receive FIFO is never flushed but when the*)
(* radio is powered down.                                                  *)
(***************************************************************************)
EXTENDS Nrf24Chip

\* Nothing else of the chip changes.
Registers == <<mode, ce>>
Fifos == <<rxFifo, txFifo>>
World == <<arrived, air>>

PortInit == ChipInit

\* Never while the chip listens or transmits.
SetMode ==
  /\ ~ce /\ ~txBusy
  /\ mode' \in {"off", "ptx", "prx"}
  /\ UNCHANGED <<ce, flags, Fifos, txBusy, World>>

CeLow ==
  /\ ce' = FALSE
  /\ UNCHANGED <<mode, flags, Fifos, txBusy, World>>

\* CE high: the chip listens, or transmits what it was given.
CeHigh ==
  /\ ce' = TRUE
  /\ txBusy' = (mode = "ptx" /\ txFifo # << >>)
  /\ UNCHANGED <<mode, flags, Fifos, World>>

ClearFlags ==
  /\ \E S \in SUBSET Flags : flags' = flags \ S
  /\ UNCHANGED <<Registers, Fifos, txBusy, World>>

Flush ==
  /\ mode = "off"
  /\ (rxFifo' = << >> /\ txFifo' = txFifo) \/ (txFifo' = << >> /\ rxFifo' = rxFifo)
  /\ UNCHANGED <<Registers, flags, txBusy, World>>

\* Never while a transmission is under way.
WritePayload ==
  /\ mode = "ptx" /\ ~ce /\ ~txBusy
  /\ Len(txFifo') = Len(txFifo) + 1 /\ SubSeq(txFifo', 1, Len(txFifo)) = txFifo
  /\ UNCHANGED <<Registers, flags, rxFifo, txBusy, World>>

ReadPayload ==
  /\ rxFifo # << >> /\ rxFifo' = Tail(rxFifo)
  /\ UNCHANGED <<Registers, flags, txFifo, txBusy, World>>

PortNext ==
  \/ SetMode \/ CeLow \/ CeHigh \/ ClearFlags \/ Flush \/ WritePayload
  \/ ReadPayload \/ Receive \/ TransmitDone

PortSpec == PortInit /\ [][PortNext]_chipVars
=============================================================================
