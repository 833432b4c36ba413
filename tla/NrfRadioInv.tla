---------------------------- MODULE NrfRadioInv ----------------------------
(***************************************************************************)
(* The inductive invariant behind the safety properties of NrfRadio, as a  *)
(* conjunction of named parts, which NrfRadioProofs proves inductive.      *)
(***************************************************************************)
EXTENDS NrfRadio

\* The slot n steps behind slot i on a ring of MBSZ slots.
Back(i, n) == IF i >= n THEN i - n ELSE i - n + MBSZ

\* The mailbox q holds exactly the Len(q) buffers behind i, in ring order.
Ring(q, i) ==
  /\ Len(q) <= MBSZ
  /\ \A k \in 1 .. Len(q) : q[k] = Back(i, Len(q) + 1 - k)

\* The receive mailbox has room whenever nrf_irq is filling a buffer.
RxRing ==
  /\ Ring(rxMb, rx_idx)
  /\ pc \in {"rx_begin", "rx_dma"} => Len(rxMb) < MBSZ
  /\ rcv = "granted" => rxMb # << >>

\* The transmit buffer being sent is the next one behind the mailbox, unless
\* a post has filled the mailbox since it was fetched.
TxRing ==
  /\ Ring(txMb, tx_idx)
  /\ snd = "granted" => Len(txMb) < MBSZ
  /\ pc \in {"chk_standby", "chk_sleep"} => txMb # << >>
  /\ pc \in {"tx_config", "tx_dma"} /\ Len(txMb) < MBSZ =>
       cur = Back(tx_idx, Len(txMb) + 1)

\* What the chip is transmitting is in its FIFO.
TxChip == /\ txBusy => txFifo # << >>
          /\ pc = "boot" => ~txBusy

\* What nrf_irq remembers of STATUS is still set in the chip: only nrf_irq
\* clears flags.
StatusInv ==
  /\ status # {} => pc \in {"rx_begin", "rx_dma", "irq_standby", "irq_sleep",
                            "irq_clear"}
  /\ pc \in {"rx_begin", "rx_dma"} => "RX_DR" \in status
  /\ pc \notin {"boot", "boot_sleep"} => status \subseteq flags

\* A read that is owed finds a payload, and one under way has started.
ReadInv ==
  /\ pc # "boot" /\ ReadOwed => rxFifo # << >>
  /\ pc = "rx_dma" => rx_bufs[rx_idx] = Torn

\* Before its first transmission a radio has TX_DS clear, and an RX_DR it has
\* not seen comes with an event.
EdgeInv ==
  pc # "boot" /\ air = << >> =>
    /\ "TX_DS" \notin flags
    /\ "RX_DR" \in flags \ status => evt \/ pc = "irq_status"

\* A queued message has a cause while nrf_radio is before its loop or waiting
\* in it; a full mailbox has an event, or a kick coming, wherever nrf_radio
\* will wait next.
KickInv ==
  /\ QueuedTxHasCause
  /\ pc \in {"boot", "boot_sleep"} /\ txMb # << >> => evt \/ snd = "kick"
  /\ snd = "blocked" => Len(txMb) = MBSZ
  /\ pc \in {"boot", "boot_sleep", "wait", "tx_config", "tx_dma"}
       /\ Len(txMb) = MBSZ => evt \/ snd = "kick"

\* Before the radio is configured nothing has been heard.
BootInv ==
  pc = "boot" =>
    /\ ~ce /\ arrived = 0
    /\ rxMb = << >> /\ delivered = << >>

IInv ==
  /\ TypeOK /\ RxRing /\ TxRing /\ TxChip /\ StatusInv /\ ReadInv
  /\ TxBufferIntact /\ EdgeInv /\ KickInv
  /\ BootInv /\ DeliveredInOrder
=============================================================================
