-------------------------- MODULE NrfRadioProofs ---------------------------
(***************************************************************************)
(* Safety of the radio driver for every size of the rings and of the chip's*)
(* FIFO, and the refinement of LossyQueue.  The order: facts on rings and  *)
(* sequences; one lemma per part of IInv, each with one step per action;   *)
(* the order of packets, by way of the sequence delivered \o Queue \o      *)
(* rxFifo; the theorems.                                                   *)
(***************************************************************************)
EXTENDS NrfRadioInv, SequenceTheorems, TLAPS

\* The ring index moves one slot on, around the ring.
LEMMA SuccIdx ==
  \A i \in Idx : /\ Succ(i) \in Idx
                 /\ Succ(i) = IF i = MBSZ - 1 THEN 0 ELSE i + 1
BY DriverAssumption, SMTT(30) DEF Succ, Idx

\* A slot behind the index is not the index itself, and is one step further
\* behind it once the index has moved on.
LEMMA BackSucc ==
  \A i \in Idx, n \in 1 .. MBSZ - 1 :
     /\ Back(i, n) \in Idx /\ Back(i, n) # i
     /\ Back(Succ(i), n + 1) = Back(i, n)
BY SuccIdx, DriverAssumption DEF Back, Idx

\* Posting the buffer at the index to a mailbox with room keeps it in step
\* with the ring.
LEMMA RingAppend ==
  ASSUME NEW q \in Seq(Idx), NEW i \in Idx, Ring(q, i), Len(q) < MBSZ
  PROVE  /\ Append(q, i) \in Seq(Idx)
         /\ Len(Append(q, i)) = Len(q) + 1
         /\ Ring(Append(q, i), Succ(i))
<1>1. /\ Append(q, i) \in Seq(Idx)
      /\ Len(Append(q, i)) = Len(q) + 1
      /\ \A k \in 1 .. Len(q) : Append(q, i)[k] = q[k]
      /\ Append(q, i)[Len(q) + 1] = i
  BY AppendProperties
<1>2. Back(Succ(i), 1) = i
  <2>1. i \in 0 .. MBSZ - 1 /\ MBSZ \in Nat /\ MBSZ > 1
    BY DriverAssumption DEF Idx
  <2>2. CASE i = MBSZ - 1
    <3>1. Succ(i) = 0
      BY <2>2, SuccIdx
    <3> QED BY <3>1, <2>1, <2>2 DEF Back
  <2>3. CASE i # MBSZ - 1
    <3>1. Succ(i) = i + 1
      BY <2>3, SuccIdx
    <3> QED BY <3>1, <2>1, <2>3 DEF Back
  <2> QED BY <2>2, <2>3
<1>3. Len(q) \in Nat
  OBVIOUS
<1>4. \A k \in 1 .. Len(q) : Back(Succ(i), Len(q) + 2 - k) = Back(i, Len(q) + 1 - k)
  BY <1>3, BackSucc, DriverAssumption
<1>5. ASSUME NEW k \in 1 .. Len(q) + 1
      PROVE  Append(q, i)[k] = Back(Succ(i), Len(q) + 2 - k)
  <2>1. CASE k = Len(q) + 1
    BY <2>1, <1>1, <1>2, <1>3
  <2>2. CASE k \in 1 .. Len(q)
    BY <2>2, <1>1, <1>4 DEF Ring
  <2> QED BY <2>1, <2>2, <1>3
<1> QED
  BY <1>1, <1>3, <1>5, DriverAssumption DEF Ring

\* Taking the oldest buffer off the mailbox keeps it in step with the ring.
LEMMA RingTail ==
  ASSUME NEW q \in Seq(Idx), NEW i \in Idx, Ring(q, i), q # << >>
  PROVE  /\ Tail(q) \in Seq(Idx)
         /\ Len(q) \in Nat \ {0}
         /\ Len(Tail(q)) = Len(q) - 1
         /\ Head(q) \in Idx
         /\ Head(q) = Back(i, Len(q))
         /\ Ring(Tail(q), i)
<1>1. /\ Tail(q) \in Seq(Idx)
      /\ Head(q) \in Idx
      /\ Len(Tail(q)) = Len(q) - 1
      /\ \A k \in 1 .. Len(Tail(q)) : Tail(q)[k] = q[k + 1]
  BY HeadTailProperties
<1>2. Len(q) \in Nat \ {0}
  BY EmptySeq
<1>3. Head(q) = q[1]
  OBVIOUS
<1> QED
  BY <1>1, <1>2, <1>3, DriverAssumption DEF Ring


\* What Append, Head and Tail do to a sequence and its length.
LEMMA SeqFacts ==
  ASSUME NEW S, NEW q \in Seq(S)
  PROVE  /\ Len(q) \in Nat
         /\ \A e \in S : /\ Append(q, e) \in Seq(S)
                         /\ Append(q, e) # << >>
                         /\ Len(Append(q, e)) = Len(q) + 1
         /\ q # << >> => /\ Len(q) > 0
                         /\ Head(q) \in S
                         /\ Tail(q) \in Seq(S)
                         /\ Len(Tail(q)) = Len(q) - 1
BY AppendProperties, HeadTailProperties, EmptySeq, LenProperties

\* The empty mailbox.
LEMMA EmptyLen == \A S : << >> \in Seq(S) /\ Len(<< >>) = 0
BY EmptySeq

\* The length of the empty sequence.
LEMMA LenEmpty == Len(<< >>) = 0
BY EmptySeq

\* Each step keeps the types of the chip.
LEMMA ChipTypeStep ==
  ASSUME IInv, [Next]_vars
  PROVE  ChipTypeOK'
<1> USE DEF TypeOK, IInv, ChipTypeOK
<1>1. CASE Boot
  <2>1. << >> \in Seq(0 .. MaxPackets) /\ Len(<< >>) <= RxFifoSize
    BY EmptyLen, ChipAssumption
  <2> QED BY <1>1, <2>1 DEF Boot, BootFlush, StandbyRegisters
<1>2. CASE BootRxMode
  BY <1>2 DEF BootRxMode, RxModeRegisters
<1>3. CASE RxEnd
  <2>1. rxFifo # << >>
    BY <1>3 DEF RxEnd, ReadInv, ReadOwed
  <2>2. /\ Tail(rxFifo) \in Seq(0 .. MaxPackets)
        /\ Len(Tail(rxFifo)) <= RxFifoSize
    BY <2>1, SeqFacts, ChipAssumption
  <2> QED BY <1>3, <2>2 DEF RxEnd
<1>4. CASE IrqStandby
  BY <1>4 DEF IrqStandby, StandbyRegisters
<1>5. CASE IrqRxMode
  BY <1>5 DEF IrqRxMode, RxModeRegisters
<1>6. CASE IrqClear
  BY <1>6 DEF IrqClear, ClearStatus
<1>7. CASE CheckTxStandby
  BY <1>7 DEF CheckTxStandby, StandbyRegisters
<1>8. CASE TxConfig
  BY <1>8 DEF TxConfig
<1>9. CASE TxStart
  BY <1>9 DEF TxStart
<1>10. CASE ChipReceive
  <2>1. arrived + 1 \in 0 .. MaxPackets
    BY <1>10, ChipAssumption DEF ChipReceive, Receive
  <2>2. /\ Append(rxFifo, arrived + 1) \in Seq(0 .. MaxPackets)
        /\ Len(Append(rxFifo, arrived + 1)) = Len(rxFifo) + 1
        /\ Len(rxFifo) \in Nat
    BY <2>1, SeqFacts
  <2>3. rxFifo' \in Seq(0 .. MaxPackets) /\ Len(rxFifo') <= RxFifoSize
    <3>1. CASE Len(rxFifo) < RxFifoSize
      <4>1. rxFifo' = Append(rxFifo, arrived + 1)
        BY <3>1, <1>10 DEF ChipReceive, Receive
      <4>2. Len(rxFifo) + 1 <= RxFifoSize
        BY <3>1, <2>2, ChipAssumption
      <4> QED BY <4>1, <4>2, <2>2
    <3>2. CASE ~(Len(rxFifo) < RxFifoSize)
      <4>1. rxFifo' = rxFifo
        BY <3>2, <1>10 DEF ChipReceive, Receive
      <4> QED BY <4>1
    <3> QED BY <3>1, <3>2
  <2>4. flags' \in SUBSET Flags
    BY <1>10 DEF ChipReceive, Receive, Flags
  <2> QED BY <1>10, <2>1, <2>3, <2>4 DEF ChipReceive, Receive
<1>11. CASE ChipTransmitDone
  BY <1>11 DEF ChipTransmitDone, TransmitDone, Flags
<1>12. CASE WaitEvent \/ IrqStatusRx \/ IrqStatusNoRx \/ RxBegin
         \/ CheckTxFetch \/ RecvCall \/ RecvResume \/ SendCall \/ SendResume
         \/ SendKick \/ UNCHANGED vars
  BY <1>12 DEF WaitEvent, IrqStatusRx, IrqStatusNoRx, RxBegin, CheckTxFetch,
      RecvCall, RecvResume, SendCall, SendResume, SendKick, vars, chipVars,
      rxVars, txVars
<1> QED BY <1>1, <1>2, <1>3, <1>4, <1>5, <1>6, <1>7, <1>8, <1>9, <1>10, <1>11,
  <1>12
  DEF Next, RadioThread, Chip, Receiver, Sender

\* Each step keeps the types of the receive path.
LEMMA RxTypeStep ==
  ASSUME IInv, [Next]_vars
  PROVE  RxTypeOK'
<1> USE DEF TypeOK, IInv, RxTypeOK
<1>1. CASE IrqStatusRx
  <2>1. RxFree = 0 => rxMb # << >>
    BY EmptyLen, DriverAssumption DEF RxFree
  <2>2. rxMb' \in Seq(Idx)
    BY <1>1, <2>1, SeqFacts DEF IrqStatusRx, RxDropOldest
  <2> QED BY <1>1, <2>2 DEF IrqStatusRx
<1>2. CASE RxBegin
  BY <1>2 DEF RxBegin, Torn
<1>3. CASE RxEnd
  <2>1. Head(rxFifo) \in 0 .. MaxPackets
    BY <1>3, SeqFacts DEF RxEnd, ReadInv, ReadOwed, ChipTypeOK
  <2>2. rxMb' \in Seq(Idx) /\ rx_idx' \in Idx
    BY <1>3, SeqFacts, SuccIdx DEF RxEnd, RxPost
  <2>3. rx_bufs' \in [Idx -> {Torn} \union 0 .. MaxPackets]
    BY <1>3, <2>1 DEF RxEnd
  <2> QED BY <1>3, <2>2, <2>3 DEF RxEnd, RxPost
<1>4. CASE RecvCall
  <2>1. CASE RxUsed > 0
    <3>1. rxMb # << >>
      BY <2>1, EmptyLen DEF RxUsed
    <3>2. Head(rxMb) \in Idx /\ Tail(rxMb) \in Seq(Idx)
      BY <3>1, SeqFacts
    <3>3. Append(delivered, rx_bufs[Head(rxMb)])
            \in Seq({Torn} \union 0 .. MaxPackets)
      BY <3>2, SeqFacts
    <3> QED BY <1>4, <2>1, <3>2, <3>3 DEF RecvCall, RecvCopy
  <2>2. CASE ~(RxUsed > 0)
    BY <1>4, <2>2 DEF RecvCall
  <2> QED BY <2>1, <2>2
<1>5. CASE RecvResume
  <2>1. Head(rxMb) \in Idx /\ Tail(rxMb) \in Seq(Idx)
    BY <1>5, SeqFacts DEF RecvResume, RxRing
  <2>2. Append(delivered, rx_bufs[Head(rxMb)])
          \in Seq({Torn} \union 0 .. MaxPackets)
    BY <2>1, SeqFacts
  <2> QED BY <1>5, <2>1, <2>2 DEF RecvResume, RecvCopy
<1>6. CASE Boot \/ BootRxMode \/ WaitEvent \/ IrqStatusNoRx \/ IrqStandby
         \/ IrqRxMode \/ IrqClear \/ CheckTxStandby \/ CheckTxFetch
         \/ TxConfig \/ TxStart \/ ChipReceive \/ ChipTransmitDone \/ SendCall
         \/ SendResume \/ SendKick \/ UNCHANGED vars
  BY <1>6 DEF Boot, BootRxMode, WaitEvent, IrqStatusNoRx, IrqStandby,
      IrqRxMode, IrqClear, CheckTxStandby, CheckTxFetch, TxConfig, TxStart,
      ChipReceive, ChipTransmitDone, SendCall, SendResume, SendKick, vars,
      chipVars, rxVars, txVars
<1> QED BY <1>1, <1>2, <1>3, <1>4, <1>5, <1>6
  DEF Next, RadioThread, Chip, Receiver, Sender

\* Each step keeps the types of the transmit path.
LEMMA TxTypeStep ==
  ASSUME IInv, [Next]_vars
  PROVE  TxTypeOK'
<1> USE DEF TypeOK, IInv, TxTypeOK
<1>1. CASE Boot
  BY <1>1, EmptyLen DEF Boot, BootFlush, txVars
<1>2. CASE CheckTxFetch
  <2>1. Head(txMb) \in Idx /\ Tail(txMb) \in Seq(Idx)
    BY <1>2, SeqFacts DEF CheckTxFetch, TxRing
  <2> QED BY <1>2, <2>1 DEF CheckTxFetch, WakeSender, chipVars
<1>3. CASE TxConfig
  BY <1>3 DEF TxConfig
<1>4. CASE TxStart
  <2>1. Append(txFifo, <<half, tx_bufs[cur]>>) \in Seq(TxPayloads)
    BY SeqFacts DEF TxPayloads
  <2> QED BY <1>4, <2>1, DriverAssumption DEF TxStart, Idx
<1>5. CASE ChipReceive
  BY <1>5 DEF ChipReceive, Receive, txVars
<1>6. CASE ChipTransmitDone
  <2>1. Head(txFifo) \in TxPayloads /\ Tail(txFifo) \in Seq(TxPayloads)
    BY <1>6, SeqFacts DEF ChipTransmitDone, TransmitDone, TxChip
  <2>2. Append(air, Head(txFifo)) \in Seq(TxPayloads)
    BY <2>1, SeqFacts
  <2> QED BY <1>6, <2>1, <2>2 DEF ChipTransmitDone, TransmitDone, txVars
<1>7. CASE SendCall
  <2>1. calls + 1 \in 0 .. MaxSend
    BY <1>7, DriverAssumption DEF SendCall
  <2>2. Append(txMb, tx_idx) \in Seq(Idx) /\ Succ(tx_idx) \in Idx
    BY SeqFacts, SuccIdx
  <2> QED BY <1>7, <2>1, <2>2 DEF SendCall, SendCopy, chipVars
<1>8. CASE SendResume
  <2>1. txMb' \in Seq(Idx) /\ tx_idx' \in Idx
    BY <1>8, SeqFacts, SuccIdx DEF SendResume, SendCopy
  <2> QED BY <1>8, <2>1 DEF SendResume, SendCopy, chipVars
<1>9. CASE SendKick
  BY <1>9 DEF SendKick, chipVars
<1>10. CASE BootRxMode \/ WaitEvent \/ IrqStatusRx \/ IrqStatusNoRx \/ RxBegin
         \/ RxEnd \/ IrqStandby \/ IrqRxMode \/ IrqClear \/ CheckTxStandby
         \/ RecvCall \/ RecvResume \/ UNCHANGED vars
  BY <1>10 DEF BootRxMode, WaitEvent, IrqStatusRx, IrqStatusNoRx, RxBegin,
      RxEnd, IrqStandby, IrqRxMode, IrqClear, CheckTxStandby, RecvCall,
      RecvResume, vars, chipVars, rxVars, txVars
<1> QED BY <1>1, <1>2, <1>3, <1>4, <1>5, <1>6, <1>7, <1>8, <1>9, <1>10
  DEF Next, RadioThread, Chip, Receiver, Sender

\* nrf_irq and nrf_recv keep the receive ring in step.
LEMMA RxRingStep ==
  ASSUME IInv, [Next]_vars
  PROVE  RxRing'
<1> USE DEF IInv, RxRing
<1>1. CASE IrqStatusRx
  <2>1. Len(rxMb) \in Nat
    BY SeqFacts DEF TypeOK, RxTypeOK
  <2>2. CASE RxFree = 0 /\ RxUsed > 0
    <3>1. rxMb # << >> /\ Len(rxMb) = MBSZ
      BY <2>1, <2>2, EmptyLen, DriverAssumption DEF RxFree
    <3>2. Len(Tail(rxMb)) = MBSZ - 1 /\ Ring(Tail(rxMb), rx_idx)
      BY <3>1, RingTail DEF TypeOK, RxTypeOK
    <3>3. Tail(rxMb) # << >>
      BY <3>2, LenEmpty, DriverAssumption
    <3> QED BY <1>1, <2>2, <3>2, <3>3, DriverAssumption DEF IrqStatusRx, RxDropOldest
  <2>3. CASE ~(RxFree = 0 /\ RxUsed > 0)
    <3>1. Len(rxMb) < MBSZ
      BY <2>1, <2>3, DriverAssumption DEF RxFree, RxUsed, Ring
    <3> QED BY <1>1, <2>3, <3>1 DEF IrqStatusRx, RxDropOldest
  <2> QED BY <2>2, <2>3
<1>2. CASE RxEnd
  <2>1. RxFree > 0
    BY <1>2, SeqFacts, DriverAssumption DEF RxEnd, RxFree, TypeOK, RxTypeOK
  <2>2. /\ Ring(Append(rxMb, rx_idx), Succ(rx_idx))
        /\ Append(rxMb, rx_idx) # << >>
    BY <1>2, RingAppend, SeqFacts DEF RxEnd, TypeOK, RxTypeOK
  <2> QED BY <1>2, <2>1, <2>2 DEF RxEnd, RxPost, AfterRx
<1>3. CASE RecvCall
  <2>1. CASE RxUsed > 0
    <3>1. rxMb # << >>
      BY <2>1, EmptyLen DEF RxUsed
    <3>2. /\ Ring(Tail(rxMb), rx_idx)
          /\ Len(Tail(rxMb)) = Len(rxMb) - 1 /\ Len(rxMb) \in Nat
      BY <3>1, RingTail DEF TypeOK, RxTypeOK
    <3>3. RecvCopy /\ UNCHANGED <<pc, rx_idx>>
      BY <1>3, <2>1 DEF RecvCall
    <3> QED BY <3>2, <3>3, DriverAssumption DEF RecvCopy
  <2>2. CASE ~(RxUsed > 0)
    BY <1>3, <2>2 DEF RecvCall
  <2> QED BY <2>1, <2>2
<1>4. CASE RecvResume
  <2>1. /\ Ring(Tail(rxMb), rx_idx)
        /\ Len(Tail(rxMb)) = Len(rxMb) - 1 /\ Len(rxMb) \in Nat
    BY <1>4, RingTail DEF RecvResume, TypeOK, RxTypeOK
  <2> QED BY <1>4, <2>1, DriverAssumption DEF RecvResume, RecvCopy
<1>5. CASE Boot \/ BootRxMode \/ WaitEvent \/ IrqStatusNoRx \/ RxBegin
         \/ IrqStandby \/ IrqRxMode \/ IrqClear \/ CheckTxStandby
         \/ CheckTxFetch \/ TxConfig \/ TxStart \/ ChipReceive
         \/ ChipTransmitDone \/ SendCall \/ SendResume \/ SendKick
         \/ UNCHANGED vars
  BY <1>5 DEF Boot, BootRxMode, WaitEvent, IrqStatusNoRx, RxBegin, IrqStandby,
      IrqRxMode, IrqClear, CheckTxStandby, CheckTxFetch, TxConfig, TxStart,
      ChipReceive, ChipTransmitDone, SendCall, SendResume, SendKick, vars,
      chipVars, rxVars, txVars, AfterRx
<1> QED BY <1>1, <1>2, <1>3, <1>4, <1>5
  DEF Next, RadioThread, Chip, Receiver, Sender

\* A post to nrf.tx: the ring advances, and the slot behind the mailbox, where
\* the message being sent is, stays behind it.
LEMMA PostStep ==
  ASSUME TypeOK, Ring(txMb, tx_idx), Len(txMb) < MBSZ
  PROVE  /\ Ring(Append(txMb, tx_idx), Succ(tx_idx))
         /\ Append(txMb, tx_idx) # << >>
         /\ Len(Append(txMb, tx_idx)) = Len(txMb) + 1
         /\ Len(txMb) + 1 < MBSZ =>
              /\ Back(Succ(tx_idx), Len(txMb) + 2) = Back(tx_idx, Len(txMb) + 1)
              /\ Back(tx_idx, Len(txMb) + 1) # tx_idx
<1>1. tx_idx \in Idx /\ Len(txMb) \in Nat /\ txMb \in Seq(Idx)
  BY SeqFacts DEF TypeOK, TxTypeOK
<1>2. /\ Ring(Append(txMb, tx_idx), Succ(tx_idx))
      /\ Append(txMb, tx_idx) # << >>
      /\ Len(Append(txMb, tx_idx)) = Len(txMb) + 1
  BY <1>1, RingAppend, SeqFacts
<1>3. ASSUME Len(txMb) + 1 < MBSZ
      PROVE  /\ Back(Succ(tx_idx), Len(txMb) + 2) = Back(tx_idx, Len(txMb) + 1)
             /\ Back(tx_idx, Len(txMb) + 1) # tx_idx
  <2>1. Len(txMb) + 1 \in 1 .. MBSZ - 1
    BY <1>1, <1>3, DriverAssumption
  <2>2. (Len(txMb) + 1) + 1 = Len(txMb) + 2
    BY <1>1
  <2> QED BY <1>1, <2>1, <2>2, BackSucc
<1> QED BY <1>2, <1>3

\* nrf_check_tx and nrf_send keep the transmit ring in step.
LEMMA TxRingStep ==
  ASSUME IInv, [Next]_vars
  PROVE  TxRing'
<1> USE DEF IInv, TxRing
<1>1. CASE IrqClear
  <2>1. TxUsed > 0 => txMb # << >>
    BY EmptyLen DEF TxUsed
  <2> QED BY <1>1, <2>1 DEF IrqClear, txVars
<1>2. CASE CheckTxFetch
  <2>1. /\ Ring(Tail(txMb), tx_idx)
        /\ Len(Tail(txMb)) = Len(txMb) - 1 /\ Len(txMb) \in Nat
        /\ Head(txMb) = Back(tx_idx, Len(txMb))
    BY <1>2, RingTail DEF CheckTxFetch, TypeOK, TxTypeOK
  <2>2. Len(txMb) <= MBSZ
    BY DEF Ring
  <2> QED BY <1>2, <2>1, <2>2, DriverAssumption DEF CheckTxFetch, WakeSender
<1>3. CASE SendCall
  <2>1. CASE TxFree > 0
    <3>1. Len(txMb) \in Nat /\ Len(txMb) < MBSZ
      BY <2>1, SeqFacts, DriverAssumption DEF TxFree, TypeOK, TxTypeOK
    <3>2. SendCopy(calls + 1)
      BY <1>3, <2>1 DEF SendCall
    <3>3. tx_idx' = Succ(tx_idx) /\ txMb' = Append(txMb, tx_idx)
      BY <3>2 DEF SendCopy
    <3> QED BY <1>3, <3>1, <3>2, <3>3, PostStep DEF SendCall, SendCopy
  <2>2. CASE ~(TxFree > 0)
    BY <1>3, <2>2 DEF SendCall
  <2> QED BY <2>1, <2>2
<1>4. CASE SendResume
  <2>1. Len(txMb) \in Nat /\ Len(txMb) < MBSZ
    BY <1>4, SeqFacts DEF SendResume, TypeOK, TxTypeOK
  <2> QED BY <1>4, <2>1, PostStep DEF SendResume, SendCopy
<1>5. CASE Boot \/ BootRxMode \/ WaitEvent \/ IrqStatusRx \/ IrqStatusNoRx
         \/ RxBegin \/ RxEnd \/ IrqStandby \/ IrqRxMode \/ CheckTxStandby
         \/ TxConfig \/ TxStart \/ ChipReceive \/ ChipTransmitDone \/ RecvCall
         \/ RecvResume \/ SendKick \/ UNCHANGED vars
  BY <1>5 DEF Boot, BootRxMode, WaitEvent, IrqStatusRx, IrqStatusNoRx,
      RxBegin, RxEnd, IrqStandby, IrqRxMode, CheckTxStandby, TxConfig,
      TxStart, ChipReceive, ChipTransmitDone, RecvCall, RecvResume, SendKick,
      vars, chipVars, rxVars, txVars, AfterRx
<1> QED BY <1>1, <1>2, <1>3, <1>4, <1>5
  DEF Next, RadioThread, Chip, Receiver, Sender

\* The chip transmits only what is in its FIFO.
LEMMA TxChipStep ==
  ASSUME IInv, [Next]_vars
  PROVE  TxChip'
<1> USE DEF IInv, TxChip
<1>1. CASE Boot
  BY <1>1 DEF Boot
<1>2. CASE TxStart
  <2>1. <<half, tx_bufs[cur]>> \in TxPayloads /\ txFifo \in Seq(TxPayloads)
    BY DEF TypeOK, TxTypeOK, TxPayloads
  <2>2. Append(txFifo, <<half, tx_bufs[cur]>>) # << >>
    BY <2>1, SeqFacts
  <2> QED BY <1>2, <2>2 DEF TxStart
<1>3. CASE ChipReceive
  BY <1>3 DEF ChipReceive, Receive
<1>4. CASE ChipTransmitDone
  BY <1>4 DEF ChipTransmitDone, TransmitDone
<1>5. CASE BootRxMode \/ WaitEvent \/ IrqStatusRx \/ IrqStatusNoRx \/ RxBegin
         \/ RxEnd \/ IrqStandby \/ IrqRxMode \/ IrqClear \/ CheckTxStandby
         \/ CheckTxFetch \/ TxConfig \/ RecvCall \/ RecvResume \/ SendCall
         \/ SendResume \/ SendKick \/ UNCHANGED vars
  BY <1>5 DEF BootRxMode, WaitEvent, IrqStatusRx, IrqStatusNoRx, RxBegin,
      RxEnd, IrqStandby, IrqRxMode, IrqClear, CheckTxStandby, CheckTxFetch,
      TxConfig, RecvCall, RecvResume, SendCall, SendResume, SendKick, vars,
      chipVars, rxVars, txVars, AfterRx, BootFlush
<1> QED BY <1>1, <1>2, <1>3, <1>4, <1>5
  DEF Next, RadioThread, Chip, Receiver, Sender

\* What nrf_irq remembers of STATUS stays set.
LEMMA StatusStep ==
  ASSUME IInv, [Next]_vars
  PROVE  StatusInv'
<1> USE DEF IInv, StatusInv
<1>1. CASE IrqStatusRx
  BY <1>1 DEF IrqStatusRx, chipVars
<1>2. CASE IrqStatusNoRx
  BY <1>2 DEF IrqStatusNoRx, chipVars, AfterRx
<1>3. CASE RxEnd
  BY <1>3 DEF RxEnd, AfterRx
<1>4. CASE IrqClear
  BY <1>4 DEF IrqClear
<1>5. CASE ChipReceive
  BY <1>5 DEF ChipReceive, Receive
<1>6. CASE ChipTransmitDone
  BY <1>6 DEF ChipTransmitDone, TransmitDone
<1>7. CASE Boot \/ BootRxMode \/ WaitEvent \/ RxBegin \/ IrqStandby
         \/ IrqRxMode \/ CheckTxStandby \/ CheckTxFetch \/ TxConfig \/ TxStart
         \/ RecvCall \/ RecvResume \/ SendCall \/ SendResume \/ SendKick
         \/ UNCHANGED vars
  BY <1>7 DEF Boot, BootRxMode, WaitEvent, RxBegin, IrqStandby, IrqRxMode,
      CheckTxStandby, CheckTxFetch, TxConfig, TxStart, RecvCall, RecvResume,
      SendCall, SendResume, SendKick, vars, chipVars, rxVars, txVars
<1> QED BY <1>1, <1>2, <1>3, <1>4, <1>5, <1>6, <1>7
  DEF Next, RadioThread, Chip, Receiver, Sender

\* Every read nrf_irq owes finds a payload.
LEMMA ReadStep ==
  ASSUME IInv, [Next]_vars
  PROVE  ReadInv'
<1> USE DEF IInv, ReadInv, ReadOwed, StatusInv
<1>1. CASE Boot
  BY <1>1 DEF Boot, BootFlush, rxVars
<1>2. CASE BootRxMode
  BY <1>2 DEF BootRxMode
<1>3. CASE IrqStatusRx
  BY <1>3 DEF IrqStatusRx, chipVars
<1>4. CASE IrqStatusNoRx
  BY <1>4 DEF IrqStatusNoRx, chipVars, AfterRx
<1>5. CASE RxBegin
  BY <1>5 DEF RxBegin, TypeOK, RxTypeOK, chipVars
<1>6. CASE RxEnd
  BY <1>6 DEF RxEnd, AfterRx
<1>7. CASE IrqClear
  BY <1>7 DEF IrqClear, ClearStatus
<1>8. CASE ChipReceive
  <2>1. rxFifo' = rxFifo \/ rxFifo' = Append(rxFifo, arrived + 1)
    BY <1>8 DEF ChipReceive, Receive
  <2>2. rxFifo \in Seq(0 .. MaxPackets) /\ arrived + 1 \in 0 .. MaxPackets
    BY <1>8, ChipAssumption DEF ChipReceive, Receive, TypeOK, ChipTypeOK
  <2>3. Append(rxFifo, arrived + 1) # << >>
    BY <2>2, SeqFacts
  <2>4. rxFifo' = rxFifo => flags' = flags
    BY <1>8, <2>2, SeqFacts DEF ChipReceive, Receive
  <2> QED BY <1>8, <2>1, <2>3, <2>4 DEF ChipReceive, rxVars
<1>9. CASE ChipTransmitDone
  BY <1>9 DEF ChipTransmitDone, TransmitDone, rxVars
<1>10. CASE WaitEvent \/ IrqStandby \/ IrqRxMode \/ CheckTxStandby
         \/ CheckTxFetch \/ TxConfig \/ TxStart \/ RecvCall \/ RecvResume
         \/ SendCall \/ SendResume \/ SendKick \/ UNCHANGED vars
  BY <1>10 DEF WaitEvent, IrqStandby, IrqRxMode, CheckTxStandby, CheckTxFetch,
      TxConfig, TxStart, RecvCall, RecvResume, SendCall, SendResume, SendKick,
      vars, chipVars, rxVars, txVars
<1> QED BY <1>1, <1>2, <1>3, <1>4, <1>5, <1>6, <1>7, <1>8, <1>9, <1>10
  DEF Next, RadioThread, Chip, Receiver, Sender

\* The next post fills a buffer other than the one being sent.
LEMMA PostIntact ==
  ASSUME IInv, NEW m, SendCopy(m), Len(txMb) \in Nat, Len(txMb) < MBSZ,
         UNCHANGED <<pc, cur, fetched, half>>
  PROVE  TxBufferIntact'
<1> SUFFICES ASSUME pc \in {"tx_config", "tx_dma"}, Len(txMb') < MBSZ
             PROVE  tx_bufs'[cur] = tx_bufs[cur]
  BY PostStep, DriverAssumption DEF IInv, TxBufferIntact, TxRing, SendCopy
<1>1. Len(txMb) + 1 < MBSZ
  BY PostStep DEF IInv, TxRing, SendCopy
<1>2. cur = Back(tx_idx, Len(txMb) + 1)
  BY DEF IInv, TxRing
<1>3. cur # tx_idx
  BY <1>1, <1>2, PostStep DEF IInv, TxRing
<1> QED BY <1>3 DEF SendCopy, IInv, TypeOK, TxTypeOK

\* A post never overwrites the message being sent while the mailbox has room.
LEMMA TxIntactStep ==
  ASSUME IInv, [Next]_vars
  PROVE  TxBufferIntact'
<1> USE DEF IInv, TxBufferIntact
<1>1. CASE CheckTxFetch
  BY <1>1 DEF CheckTxFetch
<1>2. CASE TxConfig
  BY <1>2 DEF TxConfig
<1>3. CASE SendCall
  <2>1. CASE TxFree > 0
    <3>1. Len(txMb) \in Nat /\ Len(txMb) < MBSZ
      BY <2>1, SeqFacts, DriverAssumption DEF TxFree, TypeOK, TxTypeOK
    <3>2. SendCopy(calls + 1) /\ UNCHANGED <<pc, cur, fetched, half>>
      BY <1>3, <2>1 DEF SendCall
    <3> QED BY <3>1, <3>2, PostIntact
  <2>2. CASE ~(TxFree > 0)
    BY <1>3, <2>2 DEF SendCall
  <2> QED BY <2>1, <2>2
<1>4. CASE SendResume
  <2>1. Len(txMb) \in Nat /\ Len(txMb) < MBSZ
    BY <1>4, SeqFacts DEF SendResume, TxRing, TypeOK, TxTypeOK
  <2>2. SendCopy(calls) /\ UNCHANGED <<pc, cur, fetched, half>>
    BY <1>4 DEF SendResume
  <2> QED BY <2>1, <2>2, PostIntact
<1>5. CASE Boot \/ BootRxMode \/ WaitEvent \/ IrqStatusRx \/ IrqStatusNoRx
         \/ RxBegin \/ RxEnd \/ IrqStandby \/ IrqRxMode \/ IrqClear
         \/ CheckTxStandby \/ TxStart \/ ChipReceive \/ ChipTransmitDone
         \/ RecvCall \/ RecvResume \/ SendKick \/ UNCHANGED vars
  BY <1>5 DEF Boot, BootRxMode, WaitEvent, IrqStatusRx, IrqStatusNoRx,
      RxBegin, RxEnd, IrqStandby, IrqRxMode, IrqClear, CheckTxStandby,
      TxStart, ChipReceive, ChipTransmitDone, RecvCall, RecvResume, SendKick,
      vars, chipVars, rxVars, txVars, AfterRx
<1> QED BY <1>1, <1>2, <1>3, <1>4, <1>5
  DEF Next, RadioThread, Chip, Receiver, Sender

\* Before the first transmission no RX_DR goes unnoticed.
LEMMA EdgeStep ==
  ASSUME IInv, [Next]_vars
  PROVE  EdgeInv'
<1> USE DEF IInv, EdgeInv, StatusInv
<1>1. CASE Boot
  BY <1>1 DEF Boot, BootFlush
<1>2. CASE WaitEvent
  BY <1>2 DEF WaitEvent, chipVars
<1>3. CASE IrqStatusRx
  BY <1>3 DEF IrqStatusRx, chipVars
<1>4. CASE IrqStatusNoRx
  BY <1>4 DEF IrqStatusNoRx, chipVars, AfterRx
<1>5. CASE IrqClear
  BY <1>5 DEF IrqClear, ClearStatus
<1>6. CASE ChipReceive
  <2>1. /\ flags' = flags \/ flags' = flags \union {"RX_DR"}
        /\ evt' = (evt \/ (~(flags # {}) /\ flags' # {}))
        /\ UNCHANGED <<pc, status, air>>
    BY <1>6 DEF ChipReceive, Receive, IrqEdge, IrqAsserted
  <2>2. CASE "RX_DR" \in flags
    BY <2>1, <2>2
  <2>3. CASE "RX_DR" \notin flags /\ "TX_DS" \notin flags
    <3>1. flags = {}
      BY <2>3 DEF TypeOK, ChipTypeOK, Flags
    <3>2. "RX_DR" \in flags' => evt'
      BY <2>1, <3>1
    <3> QED BY <2>1, <2>3, <3>2
  <2>4. CASE air # << >> \/ pc = "boot"
    BY <2>1, <2>4
  <2> QED BY <2>2, <2>3, <2>4
<1>7. CASE ChipTransmitDone
  <2>1. air' # << >>
    BY <1>7, SeqFacts DEF ChipTransmitDone, TransmitDone, TxChip, TypeOK, TxTypeOK
  <2> QED BY <2>1
<1>8. CASE BootRxMode \/ RxBegin \/ RxEnd \/ IrqStandby \/ IrqRxMode
         \/ CheckTxStandby \/ CheckTxFetch \/ TxConfig \/ TxStart \/ RecvCall
         \/ RecvResume \/ SendCall \/ SendResume \/ SendKick \/ UNCHANGED vars
  BY <1>8 DEF BootRxMode, RxBegin, RxEnd, IrqStandby, IrqRxMode,
      CheckTxStandby, CheckTxFetch, TxConfig, TxStart, RecvCall, RecvResume,
      SendCall, SendResume, SendKick, vars, chipVars, rxVars, txVars, AfterRx
<1> QED BY <1>1, <1>2, <1>3, <1>4, <1>5, <1>6, <1>7, <1>8
  DEF Next, RadioThread, Chip, Receiver, Sender

\* A post is always followed by an event.
LEMMA KickStep ==
  ASSUME IInv, [Next]_vars
  PROVE  KickInv'
<1> USE DEF IInv, KickInv, QueuedTxHasCause
<1>1. CASE IrqClear
  <2>1. TxUsed > 0 \/ txMb = << >>
    BY SeqFacts DEF TxUsed, TypeOK, TxTypeOK
  <2> QED BY <1>1, <2>1, LenEmpty, DriverAssumption DEF IrqClear, txVars
<1>2. CASE CheckTxFetch
  <2>1. Len(Tail(txMb)) = Len(txMb) - 1 /\ Len(txMb) \in Nat /\ Len(txMb) <= MBSZ
    BY <1>2, SeqFacts DEF CheckTxFetch, TypeOK, TxTypeOK, TxRing, Ring
  <2> QED BY <1>2, <2>1, DriverAssumption DEF CheckTxFetch, WakeSender
<1>3. CASE TxStart
  BY <1>3 DEF TxStart
<1>4. CASE ChipReceive
  BY <1>4 DEF ChipReceive, Receive, IrqEdge, txVars
<1>5. CASE ChipTransmitDone
  BY <1>5 DEF ChipTransmitDone, TransmitDone, IrqEdge, txVars
<1>6. CASE SendCall
  <2>1. CASE TxFree > 0
    BY <1>6, <2>1 DEF SendCall, SendCopy
  <2>2. CASE ~(TxFree > 0)
    <3>1. Len(txMb) = MBSZ
      BY <1>6, <2>2, SeqFacts, DriverAssumption
      DEF SendCall, TxFree, TypeOK, TxTypeOK, TxRing, Ring
    <3> QED BY <1>6, <2>2, <3>1 DEF SendCall, chipVars
  <2> QED BY <2>1, <2>2
<1>7. CASE SendResume
  BY <1>7 DEF SendResume, SendCopy
<1>8. CASE SendKick
  BY <1>8 DEF SendKick
<1>9. CASE Boot \/ BootRxMode \/ WaitEvent \/ IrqStatusRx \/ IrqStatusNoRx
         \/ RxBegin \/ RxEnd \/ IrqStandby \/ IrqRxMode \/ CheckTxStandby
         \/ TxConfig \/ RecvCall \/ RecvResume \/ UNCHANGED vars
  BY <1>9 DEF Boot, BootRxMode, WaitEvent, IrqStatusRx, IrqStatusNoRx,
      RxBegin, RxEnd, IrqStandby, IrqRxMode, CheckTxStandby, TxConfig,
      RecvCall, RecvResume, vars, chipVars, rxVars, txVars, AfterRx
<1> QED BY <1>1, <1>2, <1>3, <1>4, <1>5, <1>6, <1>7, <1>8, <1>9
  DEF Next, RadioThread, Chip, Receiver, Sender

\* Each step keeps the types of nrf_radio's own variables.
LEMMA LoopTypeStep ==
  ASSUME IInv, [Next]_vars
  PROVE  (pc \in RadioPoints /\ evt \in BOOLEAN /\ status \in SUBSET Flags)'
<1> USE DEF IInv, TypeOK, RadioPoints
<1>1. CASE RadioThread
  BY <1>1 DEF RadioThread, Boot, BootRxMode, WaitEvent, IrqStatusRx,
     IrqStatusNoRx, RxBegin, RxEnd, IrqStandby, IrqRxMode, IrqClear,
     CheckTxStandby, CheckTxFetch, TxConfig, TxStart, AfterRx, ChipTypeOK
<1>2. CASE Chip
  BY <1>2 DEF Chip, ChipReceive, ChipTransmitDone, IrqEdge
<1>3. CASE Receiver
  BY <1>3 DEF Receiver, RecvCall, RecvResume
<1>4. CASE Sender
  BY <1>4 DEF Sender, SendCall, SendResume, SendKick
<1>5. CASE UNCHANGED vars
  BY <1>5 DEF vars
<1> QED BY <1>1, <1>2, <1>3, <1>4, <1>5 DEF Next

-----------------------------------------------------------------------------
(* The order of the packets.                                               *)

Pkt == {Torn} \union 0 .. MaxPackets

\* Moving the head of one sequence to the end of the one before it leaves
\* their concatenation as it was.
LEMMA MoveHead ==
  ASSUME NEW d \in Seq(Pkt), NEW q \in Seq(Pkt), q # << >>
  PROVE  Append(d, Head(q)) \o Tail(q) = d \o q
<1>1. /\ Head(q) \in Pkt /\ Tail(q) \in Seq(Pkt)
      /\ Len(Tail(q)) = Len(q) - 1 /\ Len(q) \in Nat /\ Len(d) \in Nat
      /\ \A i \in 1 .. Len(Tail(q)) : Tail(q)[i] = q[i + 1]
      /\ Head(q) = q[1] /\ Len(q) >= 1
  BY HeadTailProperties, SeqFacts
<1>2. /\ Append(d, Head(q)) \in Seq(Pkt)
      /\ Len(Append(d, Head(q))) = Len(d) + 1
      /\ \A i \in 1 .. Len(d) : Append(d, Head(q))[i] = d[i]
      /\ Append(d, Head(q))[Len(d) + 1] = Head(q)
  BY <1>1, AppendProperties
<1> DEFINE a == Append(d, Head(q))
           t == Tail(q)
<1>3. /\ a \o t \in Seq(Pkt)
      /\ Len(a \o t) = Len(d) + 1 + Len(t)
      /\ \A i \in 1 .. Len(d) + 1 + Len(t) :
           (a \o t)[i] = IF i <= Len(d) + 1 THEN a[i] ELSE t[i - (Len(d) + 1)]
  BY <1>1, <1>2, ConcatProperties
<1>4. /\ d \o q \in Seq(Pkt)
      /\ Len(d \o q) = Len(d) + Len(q)
      /\ \A i \in 1 .. Len(d) + Len(q) :
           (d \o q)[i] = IF i <= Len(d) THEN d[i] ELSE q[i - Len(d)]
  BY ConcatProperties
<1> HIDE DEF a, t
<1>5. ASSUME NEW i \in 1 .. Len(d) + Len(q)
      PROVE  (a \o t)[i] = (d \o q)[i]
  <2>0. Len(t) = Len(q) - 1 /\ a[Len(d) + 1] = q[1]
    BY <1>1, <1>2 DEF a, t
  <2>1. CASE i <= Len(d)
    BY <2>0, <2>1, <1>1, <1>2, <1>3, <1>4 DEF a
  <2>2. CASE i = Len(d) + 1
    BY <2>0, <2>2, <1>1, <1>3, <1>4
  <2>3. CASE i > Len(d) + 1
    <3>1. t[i - (Len(d) + 1)] = q[i - Len(d)]
      BY <2>0, <2>3, <1>1 DEF t
    <3> QED BY <2>0, <2>3, <3>1, <1>1, <1>3, <1>4
  <2>4. i <= Len(d) \/ i = Len(d) + 1 \/ i > Len(d) + 1
    BY <1>1
  <2> QED BY <2>1, <2>2, <2>3, <2>4
<1>6. Len(a \o t) = Len(d \o q)
  BY <1>1, <1>3, <1>4 DEF t
<1> QED BY <1>3, <1>4, <1>5, <1>6, SeqEqual DEF a, t

\* Leaving out the head of the middle sequence keeps an order.
LEMMA DropHead ==
  ASSUME NEW d \in Seq(Pkt), NEW q \in Seq(Pkt), NEW f \in Seq(Pkt),
         NEW n \in Nat, q # << >>, Ascending((d \o q) \o f, n)
  PROVE  Ascending((d \o Tail(q)) \o f, n)
<1> DEFINE t == Tail(q)
           s == (d \o q) \o f
           r == (d \o t) \o f
           g(i) == IF i <= Len(d) THEN i ELSE i + 1
<1>1. /\ t \in Seq(Pkt) /\ Len(t) = Len(q) - 1
      /\ \A i \in 1 .. Len(t) : t[i] = q[i + 1]
      /\ Len(q) \in Nat /\ Len(d) \in Nat /\ Len(f) \in Nat /\ Len(q) >= 1
  BY HeadTailProperties, SeqFacts
<1>2. /\ d \o q \in Seq(Pkt) /\ d \o t \in Seq(Pkt)
      /\ Len(d \o q) = Len(d) + Len(q) /\ Len(d \o t) = Len(d) + Len(t)
      /\ \A i \in 1 .. Len(d) + Len(q) :
           (d \o q)[i] = IF i <= Len(d) THEN d[i] ELSE q[i - Len(d)]
      /\ \A i \in 1 .. Len(d) + Len(t) :
           (d \o t)[i] = IF i <= Len(d) THEN d[i] ELSE t[i - Len(d)]
  BY <1>1, ConcatProperties
<1> HIDE DEF t
<1>3. /\ s \in Seq(Pkt) /\ Len(s) = Len(d) + Len(q) + Len(f)
      /\ \A i \in 1 .. Len(d) + Len(q) + Len(f) :
           s[i] = IF i <= Len(d) + Len(q) THEN (d \o q)[i]
                  ELSE f[i - (Len(d) + Len(q))]
  BY <1>2, ConcatProperties
<1>4. /\ r \in Seq(Pkt) /\ Len(r) = Len(d) + Len(t) + Len(f)
      /\ \A i \in 1 .. Len(d) + Len(t) + Len(f) :
           r[i] = IF i <= Len(d) + Len(t) THEN (d \o t)[i]
                  ELSE f[i - (Len(d) + Len(t))]
  BY <1>2, ConcatProperties
<1>5. DOMAIN s = 1 .. Len(s) /\ DOMAIN r = 1 .. Len(r)
  BY <1>3, <1>4, LenProperties
<1> HIDE DEF s, r
<1>6. ASSUME NEW i \in 1 .. Len(r)
      PROVE  g(i) \in 1 .. Len(s) /\ r[i] = s[g(i)]
  <2>1. CASE i <= Len(d)
    <3>1. g(i) = i /\ g(i) \in 1 .. Len(s)
      BY <2>1, <1>1, <1>3, <1>4
    <3>2. r[i] = d[i]
      BY <2>1, <1>1, <1>2, <1>4
    <3>3. s[i] = d[i]
      BY <2>1, <1>1, <1>2, <1>3, <3>1
    <3> QED BY <3>1, <3>2, <3>3
  <2>2. CASE i > Len(d) /\ i <= Len(d) + Len(t)
    <3>0. i - Len(d) \in 1 .. Len(t)
      BY <2>2, <1>1
    <3>1. r[i] = q[i - Len(d) + 1]
      <4>1. r[i] = (d \o t)[i]
        BY <2>2, <1>1, <1>4
      <4>2. (d \o t)[i] = t[i - Len(d)]
        BY <2>2, <1>1, <1>2
      <4> QED BY <3>0, <4>1, <4>2, <1>1
    <3>2. g(i) = i + 1 /\ g(i) \in 1 .. Len(s)
      BY <2>2, <1>1, <1>3, <1>4
    <3>3. s[i + 1] = q[i + 1 - Len(d)]
      BY <2>2, <1>1, <1>2, <1>3
    <3> QED BY <3>1, <3>2, <3>3, <1>1
  <2>3. CASE i > Len(d) + Len(t)
    <3>1. g(i) = i + 1 /\ g(i) \in 1 .. Len(s)
      BY <2>3, <1>1, <1>3, <1>4
    <3>2. r[i] = f[i - (Len(d) + Len(t))]
      BY <2>3, <1>1, <1>4
    <3>3. s[i + 1] = f[i + 1 - (Len(d) + Len(q))]
      BY <2>3, <1>1, <1>3, <3>1
    <3> QED BY <3>1, <3>2, <3>3, <1>1
  <2> QED BY <2>1, <2>2, <2>3, <1>1
<1>7. Ascending(s, n)
  BY DEF s
<1>8. \A i, j \in 1 .. Len(r) : i < j => g(i) < g(j)
  BY <1>1
<1>9. Ascending(r, n)
  <2>1. \A i \in DOMAIN r : r[i] \in 1 .. n
    BY <1>5, <1>6, <1>7 DEF Ascending
  <2>2. ASSUME NEW i \in DOMAIN r, NEW j \in DOMAIN r, i < j
        PROVE  r[i] < r[j]
    <3>1. g(i) \in DOMAIN s /\ g(j) \in DOMAIN s /\ g(i) < g(j)
      BY <2>2, <1>5, <1>6, <1>8
    <3>2. s[g(i)] < s[g(j)]
      BY <3>1, <1>7 DEF Ascending
    <3> QED BY <3>2, <1>5, <1>6
  <2> QED BY <2>1, <2>2 DEF Ascending
<1> QED BY <1>9 DEF r, t

\* A new packet at the end keeps the order.
LEMMA AscendingAppend ==
  ASSUME NEW s \in Seq(Pkt), NEW n \in Nat, n + 1 \in Pkt, Ascending(s, n)
  PROVE  Ascending(Append(s, n + 1), n + 1)
<1>1. /\ Append(s, n + 1) \in Seq(Pkt)
      /\ Len(Append(s, n + 1)) = Len(s) + 1 /\ Len(s) \in Nat
      /\ \A i \in 1 .. Len(s) : Append(s, n + 1)[i] = s[i]
      /\ Append(s, n + 1)[Len(s) + 1] = n + 1
  BY AppendProperties, SeqFacts
<1>2. DOMAIN Append(s, n + 1) = 1 .. Len(s) + 1 /\ DOMAIN s = 1 .. Len(s)
  BY <1>1, LenProperties
<1> QED BY <1>1, <1>2 DEF Ascending

\* The packets held by the buffers of a mailbox.
Contents(mb, bufs) == [k \in DOMAIN mb |-> bufs[mb[k]]]

\* The packets in a mailbox form a sequence as long as the mailbox.
LEMMA ContentsType ==
  ASSUME NEW mb \in Seq(Idx), NEW bufs \in [Idx -> Pkt]
  PROVE  /\ Contents(mb, bufs) \in Seq(Pkt)
         /\ Len(Contents(mb, bufs)) = Len(mb)
         /\ DOMAIN mb = 1 .. Len(mb)
         /\ \A k \in 1 .. Len(mb) : Contents(mb, bufs)[k] = bufs[mb[k]]
         /\ mb # << >> <=> Contents(mb, bufs) # << >>
<1>1. Len(mb) \in Nat /\ DOMAIN mb = 1 .. Len(mb) /\ mb \in [1 .. Len(mb) -> Idx]
  BY LenProperties
<1>2. Contents(mb, bufs) \in [1 .. Len(mb) -> Pkt]
  BY <1>1 DEF Contents
<1>3. Contents(mb, bufs) \in Seq(Pkt)
  BY <1>1, <1>2, SeqDef
<1>4. Len(Contents(mb, bufs)) = Len(mb)
  BY <1>1, <1>2, <1>3, LenProperties
<1>5. mb # << >> <=> Contents(mb, bufs) # << >>
  BY <1>3, <1>4, EmptySeq
<1> QED BY <1>1, <1>3, <1>4, <1>5 DEF Contents

\* Taking a buffer off the mailbox takes its packet off the queue.
LEMMA ContentsTail ==
  ASSUME NEW mb \in Seq(Idx), NEW bufs \in [Idx -> Pkt], mb # << >>
  PROVE  /\ Contents(Tail(mb), bufs) = Tail(Contents(mb, bufs))
         /\ Head(Contents(mb, bufs)) = bufs[Head(mb)]
<1> DEFINE c == Contents(mb, bufs)
           u == Contents(Tail(mb), bufs)
<1>1. /\ Tail(mb) \in Seq(Idx) /\ Len(Tail(mb)) = Len(mb) - 1
      /\ Len(mb) \in Nat /\ Len(mb) >= 1
      /\ \A k \in 1 .. Len(Tail(mb)) : Tail(mb)[k] = mb[k + 1]
  BY HeadTailProperties, SeqFacts
<1>2. /\ c \in Seq(Pkt) /\ Len(c) = Len(mb) /\ c # << >>
      /\ \A k \in 1 .. Len(mb) : c[k] = bufs[mb[k]]
  BY ContentsType
<1>3. /\ u \in Seq(Pkt) /\ Len(u) = Len(mb) - 1
      /\ \A k \in 1 .. Len(Tail(mb)) : u[k] = bufs[Tail(mb)[k]]
  BY <1>1, ContentsType
<1>4. /\ Tail(c) \in Seq(Pkt) /\ Len(Tail(c)) = Len(mb) - 1
      /\ \A k \in 1 .. Len(Tail(c)) : Tail(c)[k] = c[k + 1]
  BY <1>2, HeadTailProperties
<1> HIDE DEF c, u
<1>5. \A k \in 1 .. Len(u) : u[k] = Tail(c)[k]
  BY <1>1, <1>2, <1>3, <1>4
<1>6. u = Tail(c)
  BY <1>3, <1>4, <1>5, SeqEqual
<1>7. Head(c) = c[1] /\ Head(mb) = mb[1]
  BY <1>1, <1>2
<1>8. Head(c) = bufs[Head(mb)]
  BY <1>1, <1>2, <1>7
<1> QED BY <1>6, <1>8 DEF c, u

\* Filling and posting a buffer the mailbox does not hold adds its packet at
\* the end of the queue and changes no other.
LEMMA ContentsAppend ==
  ASSUME NEW mb \in Seq(Idx), NEW bufs \in [Idx -> Pkt], NEW i \in Idx, NEW p \in Pkt,
         \A k \in DOMAIN mb : mb[k] # i
  PROVE  /\ Contents(mb, [bufs EXCEPT ![i] = p]) = Contents(mb, bufs)
         /\ Contents(Append(mb, i), [bufs EXCEPT ![i] = p])
              = Append(Contents(mb, bufs), p)
<1> DEFINE c == Contents(mb, bufs)
           b == [bufs EXCEPT ![i] = p]
           u == Contents(Append(mb, i), b)
<1>0. b \in [Idx -> Pkt] /\ b[i] = p /\ \A j \in Idx : j # i => b[j] = bufs[j]
  OBVIOUS
<1>1. /\ Append(mb, i) \in Seq(Idx) /\ Len(Append(mb, i)) = Len(mb) + 1
      /\ \A k \in 1 .. Len(mb) : Append(mb, i)[k] = mb[k]
      /\ Append(mb, i)[Len(mb) + 1] = i
      /\ Len(mb) \in Nat /\ DOMAIN mb = 1 .. Len(mb)
      /\ \A k \in 1 .. Len(mb) : mb[k] \in Idx
  BY AppendProperties, LenProperties
<1> HIDE DEF b
<1>2. /\ c \in Seq(Pkt) /\ Len(c) = Len(mb)
      /\ \A k \in 1 .. Len(mb) : c[k] = bufs[mb[k]]
  BY ContentsType
<1>3. /\ u \in Seq(Pkt) /\ Len(u) = Len(mb) + 1
      /\ \A k \in 1 .. Len(mb) + 1 : u[k] = b[Append(mb, i)[k]]
  <2> DEFINE m == Append(mb, i)
  <2>1. m \in Seq(Idx) /\ Len(m) = Len(mb) + 1
    BY <1>1
  <2> HIDE DEF m
  <2>2. /\ Contents(m, b) \in Seq(Pkt) /\ Len(Contents(m, b)) = Len(m)
        /\ \A k \in 1 .. Len(m) : Contents(m, b)[k] = b[m[k]]
    BY <2>1, <1>0, ContentsType
  <2> QED BY <2>1, <2>2 DEF m
<1>4. /\ Append(c, p) \in Seq(Pkt) /\ Len(Append(c, p)) = Len(mb) + 1
      /\ \A k \in 1 .. Len(mb) : Append(c, p)[k] = c[k]
      /\ Append(c, p)[Len(mb) + 1] = p
  BY <1>2, AppendProperties
<1>5. Contents(mb, b) = Contents(mb, bufs)
  BY <1>0, <1>1 DEF Contents
<1> HIDE DEF c, u
<1>6. ASSUME NEW k \in 1 .. Len(mb) + 1
      PROVE  u[k] = Append(c, p)[k]
  <2>1. CASE k = Len(mb) + 1
    BY <2>1, <1>0, <1>1, <1>3, <1>4
  <2>2. CASE k \in 1 .. Len(mb)
    <3>1. u[k] = b[mb[k]] /\ Append(c, p)[k] = bufs[mb[k]]
      BY <2>2, <1>1, <1>2, <1>3, <1>4
    <3> QED BY <2>2, <3>1, <1>0, <1>1
  <2>3. k = Len(mb) + 1 \/ k \in 1 .. Len(mb)
    BY <1>1
  <2> QED BY <2>1, <2>2, <2>3
<1>7. u = Append(c, p)
  BY <1>3, <1>4, <1>6, SeqEqual
<1> QED BY <1>5, <1>7 DEF b, c, u

\* Appending to the second of two sequences appends to their concatenation.
LEMMA ConcatAppend ==
  ASSUME NEW d \in Seq(Pkt), NEW q \in Seq(Pkt), NEW e \in Pkt
  PROVE  d \o Append(q, e) = Append(d \o q, e)
<1>1. d \o q \in Seq(Pkt) /\ <<e>> \in Seq(Pkt)
  BY ConcatProperties
<1>2. Append(q, e) = q \o <<e>> /\ Append(d \o q, e) = (d \o q) \o <<e>>
  BY <1>1, AppendIsConcat
<1> QED BY <1>1, <1>2, ConcatAssociative

\* The buffer being filled is one step behind no buffer of the mailbox: it is
\* owned by nrf_irq alone.
LEMMA OwnedInv == IInv => RxBufferOwned
<1> SUFFICES ASSUME IInv, pc \in {"rx_begin", "rx_dma"},
                    NEW k \in DOMAIN rxMb
             PROVE  rxMb[k] # rx_idx
  BY DEF RxBufferOwned
<1>1. rx_idx \in Idx /\ rxMb \in Seq(Idx)
  BY DEF IInv, TypeOK, RxTypeOK
<1>2. Len(rxMb) \in Nat /\ k \in 1 .. Len(rxMb)
  BY <1>1, LenProperties
<1>3. Len(rxMb) < MBSZ /\ rxMb[k] = Back(rx_idx, Len(rxMb) + 1 - k)
  BY <1>2 DEF IInv, RxRing, Ring
<1>4. Len(rxMb) + 1 - k \in 1 .. MBSZ - 1
  BY <1>2, <1>3, DriverAssumption
<1> QED BY <1>1, <1>3, <1>4, BackSucc

\* What the three sequences of InFlight are, and how Queue relates to Contents.
LEMMA InFlightTypes ==
  ASSUME IInv
  PROVE  /\ delivered \in Seq(Pkt) /\ Queue \in Seq(Pkt) /\ rxFifo \in Seq(Pkt)
         /\ delivered \o Queue \in Seq(Pkt) /\ InFlight \in Seq(Pkt)
         /\ Queue = Contents(rxMb, rx_bufs)
         /\ Len(Queue) = Len(rxMb)
         /\ rxMb # << >> <=> Queue # << >>
         /\ rxMb \in Seq(Idx) /\ rx_bufs \in [Idx -> Pkt] /\ rx_idx \in Idx
         /\ arrived \in Nat
<1>1. /\ rxMb \in Seq(Idx) /\ rx_bufs \in [Idx -> Pkt] /\ rx_idx \in Idx
      /\ delivered \in Seq(Pkt) /\ arrived \in Nat
  BY ChipAssumption DEF IInv, TypeOK, RxTypeOK, ChipTypeOK, Pkt
<1>2. rxFifo \in Seq(Pkt)
  <2>1. 0 .. MaxPackets \subseteq Pkt
    BY DEF Pkt
  <2> QED BY <2>1, SeqMonotonic DEF IInv, TypeOK, ChipTypeOK
<1>3. /\ Queue = Contents(rxMb, rx_bufs) /\ Queue \in Seq(Pkt)
      /\ Len(Queue) = Len(rxMb) /\ (rxMb # << >> <=> Queue # << >>)
  BY <1>1, ContentsType DEF Queue, Contents
<1>4. delivered \o Queue \in Seq(Pkt)
  BY <1>1, <1>3, ConcatProperties
<1>5. InFlight \in Seq(Pkt)
  BY <1>2, <1>4, ConcatProperties DEF InFlight
<1> QED BY <1>1, <1>2, <1>3, <1>4, <1>5

\* The receive steps in terms of Queue.
LEMMA QueueFetch ==
  ASSUME IInv, rxMb # << >>, rxMb' = Tail(rxMb), UNCHANGED rx_bufs
  PROVE  /\ Queue # << >> /\ Queue' = Tail(Queue)
         /\ Head(Queue) = rx_bufs[Head(rxMb)]
BY InFlightTypes, ContentsTail DEF Queue, Contents

\* The end of nrf_rx, and the post, move the oldest packet from the chip to the
\* end of the queue.
LEMMA QueuePost ==
  ASSUME IInv, RxEnd
  PROVE  /\ rxFifo # << >> /\ rxFifo' = Tail(rxFifo)
         /\ Head(rxFifo) \in Pkt
         /\ Queue' = Append(Queue, Head(rxFifo))
         /\ Len(rxMb) < MBSZ
<1>1. rxFifo # << >> /\ rx_bufs[rx_idx] = Torn
  BY DEF IInv, ReadInv, ReadOwed, RxEnd
<1>2. Head(rxFifo) \in Pkt
  BY <1>1, InFlightTypes, HeadTailProperties
<1>3. Len(rxMb) < MBSZ /\ Len(rxMb) \in Nat
  BY InFlightTypes, SeqFacts DEF IInv, RxRing, RxEnd
<1>4. /\ rxMb' = Append(rxMb, rx_idx)
      /\ rx_bufs' = [rx_bufs EXCEPT ![rx_idx] = Head(rxFifo)]
      /\ rxFifo' = Tail(rxFifo)
  BY <1>1, <1>3, DriverAssumption DEF RxEnd, RxPost, RxFree
<1>5. \A k \in DOMAIN rxMb : rxMb[k] # rx_idx
  BY OwnedInv DEF RxBufferOwned, RxEnd
<1>6. Contents(rxMb', rx_bufs') = Append(Contents(rxMb, rx_bufs), Head(rxFifo))
  BY <1>2, <1>4, <1>5, InFlightTypes, ContentsAppend
<1> QED BY <1>1, <1>2, <1>3, <1>4, <1>6 DEF Queue, Contents

\* The start of a transfer into the ring changes no queued packet.
LEMMA QueueBegin ==
  ASSUME IInv, RxBegin
  PROVE  Queue' = Queue
<1>1. Torn \in Pkt
  BY DEF Pkt
<1>2. \A k \in DOMAIN rxMb : rxMb[k] # rx_idx
  BY OwnedInv DEF RxBufferOwned, RxBegin
<1>3. Contents(rxMb, [rx_bufs EXCEPT ![rx_idx] = Torn]) = Contents(rxMb, rx_bufs)
  BY <1>1, <1>2, InFlightTypes, ContentsAppend
<1> QED BY <1>3 DEF Queue, Contents, RxBegin

\* nrf_recv moves a packet from the mailbox to those delivered.
LEMMA RecvStep ==
  ASSUME IInv, RecvCall \/ RecvResume
  PROVE  \/ UNCHANGED <<rxMb, rx_bufs, delivered, rxFifo>>
         \/ /\ Queue # << >> /\ Queue' = Tail(Queue)
            /\ delivered' = Append(delivered, Head(Queue))
            /\ UNCHANGED rxFifo
<1>1. CASE RxUsed > 0 /\ RecvCall
  <2>1. rxMb # << >>
    BY <1>1, LenEmpty DEF RxUsed
  <2>2. rxMb' = Tail(rxMb) /\ UNCHANGED <<rx_bufs, rxFifo>>
        /\ delivered' = Append(delivered, rx_bufs[Head(rxMb)])
    BY <1>1 DEF RecvCall, RecvCopy, chipVars
  <2> QED BY <2>1, <2>2, QueueFetch
<1>2. CASE ~(RxUsed > 0) /\ RecvCall
  BY <1>2 DEF RecvCall, chipVars
<1>3. CASE RecvResume
  <2>1. rxMb # << >>
    BY <1>3 DEF RecvResume, IInv, RxRing
  <2>2. rxMb' = Tail(rxMb) /\ UNCHANGED <<rx_bufs, rxFifo>>
        /\ delivered' = Append(delivered, rx_bufs[Head(rxMb)])
    BY <1>3 DEF RecvResume, RecvCopy, chipVars
  <2> QED BY <2>1, <2>2, QueueFetch
<1> QED BY <1>1, <1>2, <1>3

\* The packets stay in order.
LEMMA OrderStep ==
  ASSUME IInv, [Next]_vars
  PROVE  DeliveredInOrder'
<1> USE DEF IInv, DeliveredInOrder
<1>1. CASE Boot
  <2>1. delivered' = << >> /\ rxMb' = << >> /\ rxFifo' = << >>
    BY <1>1 DEF Boot, BootFlush, BootInv, rxVars
  <2>2. Queue' = << >>
    BY <2>1 DEF Queue
  <2>3. InFlight' = << >>
    BY <2>1, <2>2, ConcatEmptySeq, EmptySeq DEF InFlight
  <2> QED BY <2>3 DEF Ascending
<1>2. CASE IrqStatusRx
  <2>1. CASE rxMb' = rxMb
    BY <1>2, <2>1 DEF IrqStatusRx, chipVars, InFlight, Queue
  <2>2. CASE rxMb' # rxMb
    <3>1. RxFree = 0 /\ rxMb' = Tail(rxMb)
      BY <1>2, <2>2 DEF IrqStatusRx, RxDropOldest
    <3>2. rxMb # << >>
      BY <3>1, LenEmpty, DriverAssumption DEF RxFree
    <3>3. Queue # << >> /\ Queue' = Tail(Queue)
      BY <1>2, <3>1, <3>2, QueueFetch DEF IrqStatusRx
    <3>4. Ascending((delivered \o Tail(Queue)) \o rxFifo, arrived)
      BY <1>2, <3>3, InFlightTypes, DropHead DEF IrqStatusRx, InFlight
    <3> QED BY <1>2, <3>3, <3>4 DEF IrqStatusRx, chipVars, InFlight
  <2> QED BY <2>1, <2>2
<1>3. CASE RxBegin
  <2>1. InFlight' = InFlight
    BY <1>3, QueueBegin DEF RxBegin, chipVars, InFlight
  <2> QED BY <1>3, <2>1 DEF RxBegin, chipVars
<1>4. CASE RxEnd
  <2> DEFINE a == delivered \o Queue
  <2>1. /\ rxFifo # << >> /\ rxFifo' = Tail(rxFifo) /\ Head(rxFifo) \in Pkt
        /\ Queue' = Append(Queue, Head(rxFifo))
    BY <1>4, QueuePost
  <2>2. delivered \o Append(Queue, Head(rxFifo)) = Append(a, Head(rxFifo))
    BY <2>1, InFlightTypes, ConcatAppend
  <2>3. InFlight' = Append(a, Head(rxFifo)) \o Tail(rxFifo)
    BY <1>4, <2>1, <2>2 DEF InFlight, RxEnd
  <2>4. InFlight' = InFlight
    BY <2>1, <2>3, InFlightTypes, MoveHead DEF InFlight
  <2> QED BY <1>4, <2>4 DEF RxEnd
<1>5. CASE ChipReceive
  <2>0. UNCHANGED <<delivered, rxMb, rx_bufs, pc>>
    BY <1>5 DEF ChipReceive, rxVars
  <2>1. CASE rxFifo' = rxFifo
    <3>1. InFlight' = InFlight /\ arrived' >= arrived /\ arrived' \in Nat
      BY <1>5, <2>0, <2>1, InFlightTypes DEF ChipReceive, Receive, InFlight, Queue
    <3> QED BY <2>0, <3>1, InFlightTypes DEF Ascending
  <2>2. CASE rxFifo' # rxFifo
    <3>1. /\ rxFifo' = Append(rxFifo, arrived + 1) /\ arrived' = arrived + 1
          /\ arrived < MaxPackets
      BY <1>5, <2>2 DEF ChipReceive, Receive
    <3>2. arrived + 1 \in Pkt
      BY <3>1, InFlightTypes, ChipAssumption DEF Pkt
    <3>3. InFlight' = Append(InFlight, arrived + 1)
      BY <2>0, <3>1, <3>2, InFlightTypes, ConcatAppend DEF InFlight, Queue
    <3> QED BY <2>0, <3>1, <3>2, <3>3, InFlightTypes, AscendingAppend
  <2> QED BY <2>1, <2>2
<1>6. CASE RecvCall
  <2>1. CASE UNCHANGED <<rxMb, rx_bufs, delivered, rxFifo>>
    BY <2>1, <1>6 DEF InFlight, Queue, RecvCall, RecvResume, chipVars
  <2>2. CASE /\ Queue # << >> /\ Queue' = Tail(Queue)
             /\ delivered' = Append(delivered, Head(Queue))
             /\ UNCHANGED rxFifo
    <3>1. InFlight' = InFlight
      BY <2>2, InFlightTypes, MoveHead DEF InFlight
    <3> QED BY <3>1, <1>6 DEF RecvCall, RecvResume, chipVars
  <2> QED BY <1>6, <2>1, <2>2, RecvStep
<1>7. CASE RecvResume
  <2>1. CASE UNCHANGED <<rxMb, rx_bufs, delivered, rxFifo>>
    BY <2>1, <1>7 DEF InFlight, Queue, RecvCall, RecvResume, chipVars
  <2>2. CASE /\ Queue # << >> /\ Queue' = Tail(Queue)
             /\ delivered' = Append(delivered, Head(Queue))
             /\ UNCHANGED rxFifo
    <3>1. InFlight' = InFlight
      BY <2>2, InFlightTypes, MoveHead DEF InFlight
    <3> QED BY <3>1, <1>7 DEF RecvCall, RecvResume, chipVars
  <2> QED BY <1>7, <2>1, <2>2, RecvStep
<1>8. CASE BootRxMode \/ WaitEvent \/ IrqStatusNoRx \/ IrqStandby \/ IrqRxMode
         \/ IrqClear \/ CheckTxStandby \/ CheckTxFetch \/ TxConfig \/ TxStart
         \/ ChipTransmitDone \/ SendCall \/ SendResume \/ SendKick
         \/ UNCHANGED vars
  BY <1>8 DEF BootRxMode, WaitEvent, IrqStatusNoRx, IrqStandby, IrqRxMode,
      IrqClear, CheckTxStandby, CheckTxFetch, TxConfig, TxStart,
      ChipTransmitDone, SendCall, SendResume, SendKick, vars, chipVars,
      rxVars, txVars, AfterRx, InFlight, Queue, TransmitDone
<1> QED BY <1>1, <1>2, <1>3, <1>4, <1>5, <1>6, <1>7, <1>8
  DEF Next, RadioThread, Chip, Receiver, Sender

\* Nothing is heard before the radio is configured.
LEMMA BootStep ==
  ASSUME IInv, [Next]_vars
  PROVE  BootInv'
<1> USE DEF IInv, BootInv
<1>1. CASE IrqStatusRx
  BY <1>1 DEF IrqStatusRx
<1>2. CASE IrqStatusNoRx
  BY <1>2 DEF IrqStatusNoRx, AfterRx
<1>3. CASE RxEnd
  BY <1>3 DEF RxEnd, AfterRx
<1>4. CASE ChipReceive
  BY <1>4 DEF ChipReceive, Receive, Listening
<1>5. CASE ChipTransmitDone
  BY <1>5 DEF ChipTransmitDone, TransmitDone, rxVars
<1>6. CASE RecvCall
  <2>1. rxMb = << >> => ~(RxUsed > 0)
    BY LenEmpty DEF RxUsed
  <2> QED BY <1>6, <2>1 DEF RecvCall, chipVars
<1>7. CASE RecvResume
  BY <1>7 DEF RecvResume, RxRing, chipVars
<1>8. CASE Boot \/ BootRxMode \/ WaitEvent \/ RxBegin \/ IrqStandby
         \/ IrqRxMode \/ IrqClear \/ CheckTxStandby \/ CheckTxFetch
         \/ TxConfig \/ TxStart \/ SendCall \/ SendResume \/ SendKick
         \/ UNCHANGED vars
  BY <1>8 DEF Boot, BootRxMode, WaitEvent, RxBegin, IrqStandby, IrqRxMode,
      IrqClear, CheckTxStandby, CheckTxFetch, TxConfig, TxStart, SendCall,
      SendResume, SendKick, vars, chipVars, rxVars, txVars
<1> QED BY <1>1, <1>2, <1>3, <1>4, <1>5, <1>6, <1>7, <1>8
  DEF Next, RadioThread, Chip, Receiver, Sender

-----------------------------------------------------------------------------
(* The theorems.                                                           *)

\* nrf_init establishes the invariant, whatever state the chip is in.
LEMMA InitInv == Init => IInv
<1> SUFFICES ASSUME Init PROVE IInv
  OBVIOUS
<1> USE DEF Init, ChipInit
<1>1. ChipTypeOK
  <2>1. << >> \in Seq(0 .. MaxPackets) /\ Len(<< >>) <= RxFifoSize
    BY EmptyLen, LenEmpty, ChipAssumption
  <2>2. 0 \in 0 .. MaxPackets
    BY ChipAssumption
  <2>3. <<0>> \in Seq(0 .. MaxPackets) /\ Len(<<0>>) = 1
    BY <2>2
  <2>4. rxFifo \in Seq(0 .. MaxPackets) /\ Len(rxFifo) <= RxFifoSize
    <3>1. rxFifo = << >> \/ rxFifo = <<0>>
      OBVIOUS
    <3>2. Len(<<0>>) <= RxFifoSize
      BY <2>3, ChipAssumption
    <3> HIDE DEF Init, ChipInit
    <3> QED BY <3>1, <3>2, <2>1, <2>3
  <2> QED BY <2>2, <2>4 DEF ChipTypeOK
<1>2. RxTypeOK
  BY DriverAssumption, ChipAssumption, EmptyLen DEF RxTypeOK, Idx
<1>3. TxTypeOK
  <2>0. <<0, 0>> \in TxPayloads
    BY DriverAssumption DEF TxPayloads
  <2>1. txFifo \in Seq(TxPayloads) /\ air \in Seq(TxPayloads)
    <3>1. << >> \in Seq(TxPayloads)
      BY EmptySeq
    <3>2. << <<0, 0>> >> \in Seq(TxPayloads)
      BY <2>0
    <3> QED BY <3>1, <3>2
  <2> QED BY <2>1, DriverAssumption, EmptyLen DEF TxTypeOK, Idx
<1>4. Len(rxMb) = 0 /\ Len(txMb) = 0
  BY LenEmpty
<1>5. RxRing /\ TxRing
  BY <1>4, DriverAssumption DEF RxRing, TxRing, Ring
<1>6. TxChip /\ StatusInv /\ ReadInv /\ TxBufferIntact /\ EdgeInv
  BY DEF TxChip, StatusInv, ReadInv, TxBufferIntact, EdgeInv
<1>7. BootInv /\ DeliveredInOrder
  BY DEF BootInv, DeliveredInOrder
<1>8. KickInv
  BY <1>4, DriverAssumption DEF KickInv, QueuedTxHasCause
<1> QED
  BY <1>1, <1>2, <1>3, <1>5, <1>6, <1>7, <1>8 DEF IInv, TypeOK, RadioPoints

\* The invariant is inductive.
THEOREM Inductive == Spec => []IInv
<1>1. IInv /\ [Next]_vars => IInv'
  <2> SUFFICES ASSUME IInv, [Next]_vars PROVE IInv'
    OBVIOUS
  <2>1. TypeOK'
    BY ChipTypeStep, RxTypeStep, TxTypeStep, LoopTypeStep DEF TypeOK
  <2>2. RxRing' /\ TxRing'
    BY RxRingStep, TxRingStep
  <2>3. TxChip' /\ StatusInv' /\ ReadInv'
    BY TxChipStep, StatusStep, ReadStep
  <2>4. TxBufferIntact' /\ EdgeInv' /\ KickInv'
    BY TxIntactStep, EdgeStep, KickStep
  <2>5. BootInv' /\ DeliveredInOrder'
    BY BootStep, OrderStep
  <2> QED BY <2>1, <2>2, <2>3, <2>4, <2>5 DEF IInv
<1> QED BY InitInv, <1>1, PTL DEF Spec

\* Every variable keeps its type.
THEOREM TypeCorrect == Spec => []TypeOK
<1>1. IInv => TypeOK
  BY DEF IInv
<1> QED BY Inductive, <1>1, PTL

\* nrf_rx never writes a buffer that is in the mailbox.
THEOREM RxOwned == Spec => []RxBufferOwned
<1> QED BY Inductive, OwnedInv, PTL

\* nrf_tx sends the message that was fetched while the mailbox has room.
THEOREM TxIntact == Spec => []TxBufferIntact
<1>1. IInv => TxBufferIntact
  BY DEF IInv
<1> QED BY Inductive, <1>1, PTL

\* nrf_irq never reads an empty FIFO.
THEOREM ReadFinds == Spec => []ReadFindsPayload
<1>1. IInv => ReadFindsPayload
  BY SeqFacts DEF IInv, ReadInv, ReadFindsPayload, Backlog, TypeOK, ChipTypeOK
<1> QED BY Inductive, <1>1, PTL

\* A node that never transmitted never misses an interrupt.
THEOREM NeverDeaf == Spec => []ReceiveOnlyNeverDeaf
<1>1. IInv => ReceiveOnlyNeverDeaf
  BY DEF IInv, EdgeInv, StatusInv, ReceiveOnlyNeverDeaf, MissedEdge,
     IrqAsserted, TypeOK, ChipTypeOK, Flags
<1> QED BY Inductive, <1>1, PTL

\* A queued message always has a cause to be looked at, and a blocked sender
\* always has an event.
THEOREM TxNeverForgotten == Spec => [](QueuedTxHasCause /\ BlockedSenderHasEvent)
<1>1. IInv => QueuedTxHasCause /\ BlockedSenderHasEvent
  BY DEF IInv, KickInv, BlockedSenderHasEvent
<1> QED BY Inductive, <1>1, PTL

\* No step shrinks the backlog once the radio is configured.
LEMMA BacklogStep ==
  ASSUME IInv, [Next]_vars, pc # "boot"
  PROVE  Backlog' >= Backlog
<1> USE DEF IInv, Backlog, ReadOwed, StatusInv
<1>0. Len(rxFifo) \in Nat
  BY SeqFacts DEF TypeOK, ChipTypeOK
<1>1. CASE Boot
  BY <1>1 DEF Boot
<1>2. CASE BootRxMode
  BY <1>2 DEF BootRxMode
<1>3. CASE IrqStatusRx
  BY <1>3 DEF IrqStatusRx, chipVars
<1>4. CASE IrqStatusNoRx
  BY <1>4 DEF IrqStatusNoRx, chipVars, AfterRx
<1>5. CASE RxEnd
  <2>1. rxFifo # << >> /\ rx_bufs[rx_idx] = Torn
    BY <1>5 DEF RxEnd, ReadInv
  <2>2. Len(Tail(rxFifo)) = Len(rxFifo) - 1 /\ Len(rxFifo) \in Nat
    BY <2>1, SeqFacts DEF TypeOK, ChipTypeOK
  <2>3. rxFifo' = Tail(rxFifo) /\ UNCHANGED <<flags, status>>
    BY <1>5, <2>1 DEF RxEnd
  <2> QED BY <1>5, <2>2, <2>3 DEF RxEnd, AfterRx
<1>6. CASE IrqClear
  BY <1>6 DEF IrqClear, ClearStatus
<1>7. CASE ChipReceive
  <2>1. Len(rxFifo) \in Nat
    BY SeqFacts DEF TypeOK, ChipTypeOK
  <2>2. CASE Len(rxFifo) < RxFifoSize
    <3>1. rxFifo' = Append(rxFifo, arrived + 1) /\ arrived + 1 \in 0 .. MaxPackets
      BY <1>7, <2>2, ChipAssumption DEF ChipReceive, Receive, TypeOK, ChipTypeOK
    <3>2. Len(rxFifo') = Len(rxFifo) + 1
      BY <3>1, SeqFacts DEF TypeOK, ChipTypeOK
    <3> QED BY <1>7, <2>1, <3>2 DEF ChipReceive, Receive
  <2>3. CASE ~(Len(rxFifo) < RxFifoSize)
    BY <1>7, <2>1, <2>3 DEF ChipReceive, Receive
  <2> QED BY <2>2, <2>3
<1>8. CASE ChipTransmitDone
  BY <1>8 DEF ChipTransmitDone, TransmitDone
<1>9. CASE WaitEvent \/ RxBegin \/ IrqStandby \/ IrqRxMode \/ CheckTxStandby
         \/ CheckTxFetch \/ TxConfig \/ TxStart \/ RecvCall \/ RecvResume
         \/ SendCall \/ SendResume \/ SendKick \/ UNCHANGED vars
  BY <1>9 DEF WaitEvent, RxBegin, IrqStandby, IrqRxMode, CheckTxStandby,
      CheckTxFetch, TxConfig, TxStart, RecvCall, RecvResume, SendCall,
      SendResume, SendKick, vars, chipVars, rxVars, txVars
<1> QED BY <1>1, <1>2, <1>3, <1>4, <1>5, <1>6, <1>7, <1>8, <1>9
  DEF Next, RadioThread, Chip, Receiver, Sender

\* A backlog in the chip is never caught up with.
THEOREM BacklogGrows == Spec => BacklogNeverShrinks
<1>1. IInv /\ [Next]_vars => [pc # "boot" => Backlog' >= Backlog]_vars
  BY BacklogStep
<1> QED BY Inductive, <1>1, PTL DEF Spec, BacklogNeverShrinks

\* nrf_recv returns whole packets, each at most once and in order of arrival.
THEOREM InOrder == Spec => []DeliveredInOrder
<1>1. IInv => DeliveredInOrder
  BY DEF IInv
<1> QED BY Inductive, <1>1, PTL

\* Each step of the receive path is a step of the lossy queue, or none.
LEMMA QueueStep ==
  ASSUME IInv, [Next]_vars
  PROVE  [RxQueue!LQNext]_<<Queue, delivered>>
<1> USE DEF RxQueue!LQNext
<1>1. CASE Boot
  BY <1>1 DEF Boot, rxVars, Queue
<1>2. CASE IrqStatusRx
  <2>1. CASE rxMb' = rxMb
    BY <1>2, <2>1 DEF IrqStatusRx, Queue
  <2>2. CASE rxMb' # rxMb
    <3>1. RxFree = 0 /\ rxMb' = Tail(rxMb)
      BY <1>2, <2>2 DEF IrqStatusRx, RxDropOldest
    <3>2. rxMb # << >> /\ Len(rxMb) = MBSZ
      BY <3>1, LenEmpty, InFlightTypes, SeqFacts, DriverAssumption DEF RxFree
    <3>3. Queue' = Tail(Queue) /\ Len(Queue) = MBSZ
      BY <1>2, <3>1, <3>2, QueueFetch, InFlightTypes DEF IrqStatusRx
    <3> QED BY <1>2, <3>3 DEF IrqStatusRx, RxQueue!DropOldest
  <2> QED BY <2>1, <2>2
<1>3. CASE RxBegin
  BY <1>3, QueueBegin DEF RxBegin
<1>4. CASE RxEnd
  <2> DEFINE a == delivered \o Queue
             p == Head(rxFifo)
  <2>1. /\ rxFifo # << >> /\ p \in Pkt
        /\ Queue' = Append(Queue, p) /\ Len(Queue) < MBSZ
    BY <1>4, QueuePost, InFlightTypes
  <2>2. Ascending(a \o rxFifo, arrived)
    BY <1>4 DEF IInv, DeliveredInOrder, InFlight, RxEnd
  <2>3. /\ Len(a) \in Nat /\ Len(rxFifo) \in Nat /\ Len(rxFifo) >= 1
        /\ DOMAIN a = 1 .. Len(a)
        /\ DOMAIN (a \o rxFifo) = 1 .. Len(a) + Len(rxFifo)
        /\ \A i \in 1 .. Len(a) + Len(rxFifo) :
             (a \o rxFifo)[i] = IF i <= Len(a) THEN a[i] ELSE rxFifo[i - Len(a)]
    BY <2>1, InFlightTypes, ConcatProperties, LenProperties, SeqFacts
  <2>4. (a \o rxFifo)[Len(a) + 1] = p
    BY <2>1, <2>3
  <2> DEFINE s == a \o rxFifo
  <2> HIDE DEF a, p
  <2>5. p \in 1 .. MaxPackets
    <3>1. Len(a) + 1 \in DOMAIN s
      BY <2>3
    <3>2. s[Len(a) + 1] \in 1 .. arrived
      BY <3>1, <2>2 DEF Ascending
    <3>3. arrived \in 0 .. MaxPackets
      BY DEF IInv, TypeOK, ChipTypeOK
    <3> QED BY <2>4, <3>2, <3>3, ChipAssumption
  <2>6. ASSUME NEW i \in DOMAIN a PROVE a[i] < p
    <3>1. i \in DOMAIN s /\ Len(a) + 1 \in DOMAIN s /\ i < Len(a) + 1
      BY <2>3
    <3>2. s[i] < s[Len(a) + 1]
      BY <3>1, <2>2 DEF Ascending
    <3> QED BY <2>3, <2>4, <3>1, <3>2
  <2>7. RxQueue!Put(p)
    BY <1>4, <2>1, <2>6 DEF RxQueue!Put, RxEnd, a
  <2> QED BY <2>5, <2>7
<1>5. CASE RecvCall \/ RecvResume
  <2>1. CASE UNCHANGED <<rxMb, rx_bufs, delivered, rxFifo>>
    BY <2>1 DEF Queue
  <2>2. CASE /\ Queue # << >> /\ Queue' = Tail(Queue)
             /\ delivered' = Append(delivered, Head(Queue))
    BY <2>2 DEF RxQueue!Get
  <2> QED BY <1>5, <2>1, <2>2, RecvStep
<1>6. CASE \/ BootRxMode \/ WaitEvent \/ IrqStatusNoRx \/ IrqStandby
         \/ IrqRxMode \/ IrqClear \/ CheckTxStandby \/ CheckTxFetch
         \/ TxConfig \/ TxStart \/ Chip \/ Sender \/ UNCHANGED vars
  BY <1>6 DEF BootRxMode, WaitEvent, IrqStatusNoRx, IrqStandby, IrqRxMode,
     IrqClear, CheckTxStandby, CheckTxFetch, TxConfig, TxStart, Chip,
     ChipReceive, ChipTransmitDone, Sender, SendCall, SendResume, SendKick,
     vars, rxVars, Queue
<1> QED
  BY <1>1, <1>2, <1>3, <1>4, <1>5, <1>6 DEF Next, RadioThread, Receiver

\* The receive path implements the lossy queue: it loses only the oldest
\* packet of a full mailbox, and it always has room for a new one.
THEOREM Implements == Spec => RxImplementsQueue
<1>1. Init => RxQueue!LQInit
  BY DEF Init, RxQueue!LQInit, Queue
<1> QED
  BY Inductive, <1>1, QueueStep, PTL DEF Spec, RxImplementsQueue, RxQueue!LQSpec

=============================================================================
