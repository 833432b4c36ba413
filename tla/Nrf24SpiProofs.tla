--------------------------- MODULE Nrf24SpiProofs ---------------------------
(***************************************************************************)
(* What the driver's SPI traffic amounts to, whatever the chip's registers *)
(* held at the start and however many packets come and go: the chip is on  *)
(* air only as the driver configures it, and every transaction is one of   *)
(* the operations of RadioPort or changes nothing they see.                *)
(***************************************************************************)
EXTENDS Nrf24Spi, SequenceTheorems, TLAPS

Steps == [op : {"spi", "ce", "sleep"}, arg : Seq(Int)]

\* What is left of a script from its k-th step on.
Rest(s, k) == SubSeq(s, k, Len(s))

\* The two scripts of the loop that change the mode: back to receiving, and
\* on to a transmission.
BackToRx(st) == nrf_standby \o nrf_rx_mode \o nrf_write_reg(Reg.STATUS, st)
OnToTx(m) == nrf_standby \o nrf_tx(m)

CONFIG_PTX == <<NRF_CONFIG + PWR_UP>>
CONFIG_PRX == <<NRF_CONFIG + PWR_UP + PRIM_RX>>

StatusBytes == {f + 2 * p : f \in {0, 32, 64, 96}, p \in {0, 7}}

\* The chip's own state.  A transmission under way has its payload, and the
\* mode is not changed under it.
ChipInv ==
  /\ DOMAIN regs = DOMAIN PowerOn
  /\ ce \in BOOLEAN /\ txBusy \in BOOLEAN
  /\ flags \subseteq {"RX_DR", "TX_DS"}
  /\ rxFifo \in Seq(Int) /\ txFifo \in Seq(Int) /\ air \in Seq(Int) /\ arrived \in Nat
  /\ status \in Int /\ sends \in 0 .. MaxSend /\ queued \in 0 .. sends
  /\ txBusy => (txFifo # << >> /\ regs[Reg.CONFIG] = CONFIG_PTX)

\* The registers that Setup writes, in its order, and what it writes to them.
Settings ==
  << <<Reg.SETUP_AW, <<AW_3_BYTES>> >>, <<Reg.TX_ADDR, broadcast>>,
     <<Reg.SETUP_RETR, <<0>> >>, <<Reg.RX_ADDR_P0, broadcast>>,
     <<Reg.EN_RXADDR, <<1>> >>, <<Reg.EN_AA, <<0>> >>, <<Reg.DYNPD, <<0>> >>,
     <<Reg.RX_PW_P0, <<PAYLOADSZ>> >>, <<Reg.RF_CH, <<CHANNEL>> >>,
     <<Reg.RF_SETUP, <<RF_1M_0dBm>> >> >>

\* Those in place when the k-th step of BootScript is next: Setup follows its
\* second step.
SetBefore(k) ==
  \A i \in 1 .. 10 : i + 2 < k => regs[Settings[i][1]] = Settings[i][2]

\* Until the last step of BootScript the chip is off air, and powered down
\* from the second step to nrf_standby.
Booting ==
  /\ at = "wait" /\ ~ce /\ ~txBusy
  /\ \E k \in 1 .. 20 :
       /\ script = Rest(BootScript, k)
       /\ SetBefore(k)
       /\ k \in 3 .. 17 => regs[Reg.CONFIG] = <<0>>
       /\ k \in {18, 19} => regs[Reg.CONFIG] = CONFIG_PTX
       /\ k = 20 => regs[Reg.CONFIG] = CONFIG_PRX

\* nrf_irq and its calls.  The mode changes with CE low, after a sleep.
InStatus ==
  /\ at \in {"status", "pipe"}
  /\ script = nrf_get_status \/ (script = << >> /\ ret \in StatusBytes)
InWidth ==
  /\ at = "width"
  /\ script = nrf_read_reg(Reg.RX_PW_P0) \/ (script = << >> /\ ret = PAYLOADSZ)
InSent == at = "sent" /\ script \in {<< >>, nrf_read_payload}
InCheck ==
  /\ at = "check"
  /\ \/ script = << >>
     \/ script = nrf_write_reg(Reg.STATUS, status)
     \/ \E k \in 1 .. 5 :
          /\ script = Rest(BackToRx(status), k)
          /\ k > 1 => ~ce
          /\ k > 3 => ~txBusy
InWait ==
  /\ at = "wait"
  /\ \/ script = << >>
     \/ \E k \in 1 .. 6, m \in 1 .. MaxSend :
          /\ script = Rest(OnToTx(m), k)
          /\ k > 1 => ~ce
          /\ k > 3 => ~txBusy
          /\ k = 5 => regs[Reg.CONFIG] = CONFIG_PTX

Serving ==
  /\ SetBefore(13) /\ regs[Reg.CONFIG] \in {CONFIG_PTX, CONFIG_PRX}
  /\ InStatus \/ InWidth \/ InSent \/ InCheck \/ InWait

IInv == ChipInv /\ (Booting \/ Serving)
-----------------------------------------------------------------------------
(* Scripts.                                                                *)

\* Taking a step leaves the rest from the next one on.
LEMMA RestStep ==
  ASSUME NEW s \in Seq(Steps), NEW k \in 1 .. Len(s)
  PROVE  /\ Rest(s, k) # << >>
         /\ Head(Rest(s, k)) = s[k]
         /\ Tail(Rest(s, k)) = Rest(s, k + 1)
<1>1. Len(s) \in k .. Len(s)
  OBVIOUS
<1>2. Len(Rest(s, k)) = Len(s) - k + 1
  BY SubSeqProperties DEF Rest
<1>3. Rest(s, k) # << >>
  BY <1>2, EmptySeq
<1>4. /\ Head(SubSeq(s, k, Len(s))) = s[k]
      /\ Tail(SubSeq(s, k, Len(s))) = SubSeq(s, k + 1, Len(s))
  BY <1>1, HeadTailOfSubSeq, Zenon
<1> QED
  BY <1>3, <1>4 DEF Rest

\* The rest from the first step on is the script; past the last there is none.
LEMMA RestEnds ==
  ASSUME NEW s \in Seq(Steps)
  PROVE  Rest(s, 1) = s /\ Rest(s, Len(s) + 1) = << >>
  BY SubSeqFull, SubSeqEmpty DEF Rest

\* A transaction, a change of CE or a sleep.
SpiStep(bytes) == [op |-> "spi", arg |-> bytes]
CeStep(v) == [op |-> "ce", arg |-> <<v>>]
SleepStep == [op |-> "sleep", arg |-> << >>]

\* The registers' addresses, the commands, and the values of CONFIG.
LEMMA Numbers ==
  /\ Reg.CONFIG = 0 /\ Reg.EN_AA = 1 /\ Reg.EN_RXADDR = 2 /\ Reg.SETUP_AW = 3
  /\ Reg.SETUP_RETR = 4 /\ Reg.RF_CH = 5 /\ Reg.RF_SETUP = 6 /\ Reg.STATUS = 7
  /\ Reg.RX_ADDR_P0 = 10 /\ Reg.TX_ADDR = 16 /\ Reg.RX_PW_P0 = 17 /\ Reg.DYNPD = 28
  /\ Cmd.R_REGISTER = 0 /\ Cmd.W_REGISTER = 32 /\ Cmd.R_RX_PAYLOAD = 97
  /\ Cmd.W_TX_PAYLOAD = 160 /\ Cmd.FLUSH_TX = 225 /\ Cmd.FLUSH_RX = 226 /\ Cmd.NOP = 255
  /\ CONFIG_PTX = <<14>> /\ CONFIG_PRX = <<15>>
  BY DEF Reg, Cmd, CONFIG_PTX, CONFIG_PRX, NRF_CONFIG, PWR_UP, PRIM_RX

\* The registers there are.
LEMMA Addresses == DOMAIN PowerOn = {0, 1, 2, 3, 4, 5, 6, 7, 10, 16, 17, 28}
<1>1. DOMAIN Reg = {"CONFIG", "EN_AA", "EN_RXADDR", "SETUP_AW", "SETUP_RETR", "RF_CH",
                    "RF_SETUP", "STATUS", "RX_ADDR_P0", "TX_ADDR", "RX_PW_P0", "DYNPD"}
  BY DEF Reg
<1>2. {Reg[r] : r \in DOMAIN Reg} = {0, 1, 2, 3, 4, 5, 6, 7, 10, 16, 17, 28}
  BY <1>1, Numbers
<1> QED
  BY <1>2 DEF PowerOn

\* Every step of a script is one of these.
LEMMA StepTypes ==
  /\ \A a, b \in Int : SpiStep(<<a>>) \in Steps /\ SpiStep(<<a, b>>) \in Steps
  /\ \A a \in Int : SpiStep(<<a>> \o broadcast) \in Steps
  /\ CeStep(0) \in Steps /\ CeStep(1) \in Steps /\ SleepStep \in Steps
<1>1. \A a \in Int : <<a>> \o broadcast \in Seq(Int)
  BY DEF broadcast
<1> QED
  BY <1>1 DEF Steps, SpiStep, CeStep, SleepStep

\* The pieces the scripts are made of, each of one step.
LEMMA Pieces ==
  /\ nrf_ce_l = <<CeStep(0)>> /\ nrf_ce_h = <<CeStep(1)>> /\ Sleep5ms = <<SleepStep>>
  /\ nrf_flush_tx = <<SpiStep(<<225>>)>> /\ nrf_flush_rx = <<SpiStep(<<226>>)>>
  /\ nrf_get_status = <<SpiStep(<<255>>)>> /\ nrf_read_payload = <<SpiStep(<<97>>)>>
  /\ nrf_read_reg(Reg.RX_PW_P0) = <<SpiStep(<<17>>)>>
  /\ nrf_write_reg(Reg.CONFIG, 0) = <<SpiStep(<<32, 0>>)>>
  /\ nrf_write_reg(Reg.CONFIG, NRF_CONFIG + PWR_UP) = <<SpiStep(<<32, 14>>)>>
  /\ nrf_write_reg(Reg.CONFIG, NRF_CONFIG + PWR_UP + PRIM_RX) = <<SpiStep(<<32, 15>>)>>
  /\ \A v : nrf_write_reg(Reg.STATUS, v) = <<SpiStep(<<39, v>>)>>
  /\ \A m : nrf_write_payload(m) = <<SpiStep(<<160, m>>)>>
  BY Numbers DEF nrf_ce_l, nrf_ce_h, Sleep5ms, nrf_flush_tx, nrf_flush_rx, nrf_get_status,
    nrf_read_payload, nrf_read_reg, nrf_write_reg, nrf_write_payload, Spi,
    CeStep, SleepStep, SpiStep, NRF_CONFIG, PWR_UP, PRIM_RX

\* The scripts of the loop, step by step.
LEMMA BackToRxSteps ==
  ASSUME NEW st \in Int
  PROVE  LET s == BackToRx(st) IN
         /\ s \in Seq(Steps) /\ Len(s) = 6
         /\ s[1] = CeStep(0) /\ s[2] = SpiStep(<<32, 14>>) /\ s[3] = SleepStep
         /\ s[4] = SpiStep(<<32, 15>>) /\ s[5] = CeStep(1) /\ s[6] = SpiStep(<<39, st>>)
<1>1. BackToRx(st) =
        (<<CeStep(0)>> \o <<SpiStep(<<32, 14>>)>> \o <<SleepStep>>)
          \o (<<SpiStep(<<32, 15>>)>> \o <<CeStep(1)>>) \o <<SpiStep(<<39, st>>)>>
  BY Pieces, Zenon DEF BackToRx, nrf_standby, nrf_rx_mode
<1>2. 32 \in Int /\ 39 \in Int /\ 14 \in Int /\ 15 \in Int
  OBVIOUS
<1>3. /\ CeStep(0) \in Steps /\ CeStep(1) \in Steps /\ SleepStep \in Steps
      /\ SpiStep(<<32, 14>>) \in Steps /\ SpiStep(<<32, 15>>) \in Steps
      /\ SpiStep(<<39, st>>) \in Steps
  BY <1>2, StepTypes, Zenon
<1> QED
  BY <1>1, <1>3

LEMMA OnToTxSteps ==
  ASSUME NEW m \in Int
  PROVE  LET s == OnToTx(m) IN
         /\ s \in Seq(Steps) /\ Len(s) = 6
         /\ s[1] = CeStep(0) /\ s[2] = SpiStep(<<32, 14>>) /\ s[3] = SleepStep
         /\ s[4] = SpiStep(<<32, 14>>) /\ s[5] = SpiStep(<<160, m>>) /\ s[6] = CeStep(1)
<1>1. OnToTx(m) =
        (<<CeStep(0)>> \o <<SpiStep(<<32, 14>>)>> \o <<SleepStep>>)
          \o (<<SpiStep(<<32, 14>>)>> \o <<SpiStep(<<160, m>>)>> \o <<CeStep(1)>>)
  BY Pieces, Zenon DEF OnToTx, nrf_standby, nrf_tx
<1>2. 32 \in Int /\ 14 \in Int /\ 160 \in Int
  OBVIOUS
<1>3. /\ CeStep(0) \in Steps /\ CeStep(1) \in Steps /\ SleepStep \in Steps
      /\ SpiStep(<<32, 14>>) \in Steps /\ SpiStep(<<160, m>>) \in Steps
  BY <1>2, StepTypes, Zenon
<1> QED
  BY <1>1, <1>3

\* The script the thread starts with, step by step.
LEMMA BootSteps ==
  /\ BootScript \in Seq(Steps) /\ Len(BootScript) = 20
  /\ BootScript[1] = CeStep(0) /\ BootScript[2] = SpiStep(<<32, 0>>)
  /\ BootScript[3] = SpiStep(<<35, AW_3_BYTES>>) /\ BootScript[4] = SpiStep(<<48>> \o broadcast)
  /\ BootScript[5] = SpiStep(<<36, 0>>) /\ BootScript[6] = SpiStep(<<42>> \o broadcast)
  /\ BootScript[7] = SpiStep(<<34, 1>>) /\ BootScript[8] = SpiStep(<<33, 0>>)
  /\ BootScript[9] = SpiStep(<<60, 0>>) /\ BootScript[10] = SpiStep(<<49, PAYLOADSZ>>)
  /\ BootScript[11] = SpiStep(<<37, CHANNEL>>) /\ BootScript[12] = SpiStep(<<38, RF_1M_0dBm>>)
  /\ BootScript[13] = SpiStep(<<225>>) /\ BootScript[14] = SpiStep(<<226>>)
  /\ BootScript[15] = SpiStep(<<39, 112>>)
  /\ BootScript[16] = CeStep(0) /\ BootScript[17] = SpiStep(<<32, 14>>)
  /\ BootScript[18] = SleepStep
  /\ BootScript[19] = SpiStep(<<32, 15>>) /\ BootScript[20] = CeStep(1)
<1>1. Setup =
        <<SpiStep(<<35, AW_3_BYTES>>)>> \o <<SpiStep(<<48>> \o broadcast)>>
          \o <<SpiStep(<<36, 0>>)>> \o <<SpiStep(<<42>> \o broadcast)>>
          \o <<SpiStep(<<34, 1>>)>> \o <<SpiStep(<<33, 0>>)>>
          \o <<SpiStep(<<60, 0>>)>> \o <<SpiStep(<<49, PAYLOADSZ>>)>>
          \o <<SpiStep(<<37, CHANNEL>>)>> \o <<SpiStep(<<38, RF_1M_0dBm>>)>>
  BY Numbers DEF Setup, nrf_write_reg, nrf_write_addr, Spi, SpiStep
<1>2. nrf_write_reg(Reg.STATUS, 64 + 32 + 16) = <<SpiStep(<<39, 112>>)>>
  BY Pieces
<1>3. BootScript =
        (<<CeStep(0)>> \o <<SpiStep(<<32, 0>>)>>) \o Setup
          \o <<SpiStep(<<225>>)>> \o <<SpiStep(<<226>>)>> \o <<SpiStep(<<39, 112>>)>>
          \o (<<CeStep(0)>> \o <<SpiStep(<<32, 14>>)>> \o <<SleepStep>>)
          \o (<<SpiStep(<<32, 15>>)>> \o <<CeStep(1)>>)
  BY <1>2, Pieces, Zenon DEF BootScript, nrf_powerdown, nrf_standby, nrf_rx_mode
<1>4. /\ AW_3_BYTES \in Int /\ PAYLOADSZ \in Int /\ CHANNEL \in Int /\ RF_1M_0dBm \in Int
      /\ 0 \in Int /\ 1 \in Int /\ 14 \in Int /\ 15 \in Int /\ 112 \in Int
      /\ 32 \in Int /\ 33 \in Int /\ 34 \in Int /\ 35 \in Int /\ 36 \in Int /\ 37 \in Int
      /\ 38 \in Int /\ 39 \in Int /\ 42 \in Int /\ 48 \in Int /\ 49 \in Int /\ 60 \in Int
      /\ 225 \in Int /\ 226 \in Int
  BY DEF AW_3_BYTES, PAYLOADSZ, CHANNEL, RF_1M_0dBm
<1>5. /\ CeStep(0) \in Steps /\ CeStep(1) \in Steps /\ SleepStep \in Steps
      /\ SpiStep(<<225>>) \in Steps /\ SpiStep(<<226>>) \in Steps
      /\ SpiStep(<<39, 112>>) \in Steps /\ SpiStep(<<32, 0>>) \in Steps
      /\ SpiStep(<<32, 14>>) \in Steps /\ SpiStep(<<32, 15>>) \in Steps
  BY <1>4, StepTypes, Zenon
<1>6. /\ SpiStep(<<35, AW_3_BYTES>>) \in Steps /\ SpiStep(<<48>> \o broadcast) \in Steps
      /\ SpiStep(<<36, 0>>) \in Steps /\ SpiStep(<<42>> \o broadcast) \in Steps
      /\ SpiStep(<<34, 1>>) \in Steps /\ SpiStep(<<33, 0>>) \in Steps
      /\ SpiStep(<<60, 0>>) \in Steps /\ SpiStep(<<49, PAYLOADSZ>>) \in Steps
      /\ SpiStep(<<37, CHANNEL>>) \in Steps /\ SpiStep(<<38, RF_1M_0dBm>>) \in Steps
  BY <1>4, StepTypes, Zenon
<1> QED
  BY <1>1, <1>3, <1>5, <1>6
-----------------------------------------------------------------------------
(* What the chip makes of a transaction.                                   *)

\* A write of any register but STATUS.
LEMMA WriteDecoded ==
  ASSUME DOMAIN regs = DOMAIN PowerOn, NEW a \in DOMAIN PowerOn \ {7}, NEW bytes, NEW data,
         Head(bytes) = 32 + a, Tail(bytes) = data, Decode(bytes)
  PROVE  regs' = [regs EXCEPT ![a] = data] /\ UNCHANGED <<flags, rxFifo, txFifo>>
<1>1. /\ Head(bytes) - Cmd.W_REGISTER = a /\ a \in DOMAIN regs /\ a # Reg.STATUS
      /\ Head(bytes) # Cmd.FLUSH_RX /\ Head(bytes) # Cmd.R_RX_PAYLOAD
      /\ Head(bytes) # Cmd.FLUSH_TX /\ Head(bytes) # Cmd.W_TX_PAYLOAD
  <2>1. a \in {0, 1, 2, 3, 4, 5, 6, 10, 16, 17, 28}
    BY Addresses
  <2>2. a \in DOMAIN regs
    OBVIOUS
  <2>3. Head(bytes) \in {32, 33, 34, 35, 36, 37, 38, 42, 48, 49, 60}
    BY <2>1
  <2>4. Head(bytes) - Cmd.W_REGISTER = a /\ a # Reg.STATUS
    <3>1. Cmd.W_REGISTER = 32 /\ Reg.STATUS = 7
      BY Numbers, Zenon
    <3> QED
      BY <2>1, <3>1
  <2>5. /\ Head(bytes) # Cmd.FLUSH_RX /\ Head(bytes) # Cmd.R_RX_PAYLOAD
        /\ Head(bytes) # Cmd.FLUSH_TX /\ Head(bytes) # Cmd.W_TX_PAYLOAD
    <3>1. /\ Cmd.FLUSH_RX = 226 /\ Cmd.R_RX_PAYLOAD = 97
          /\ Cmd.FLUSH_TX = 225 /\ Cmd.W_TX_PAYLOAD = 160
      BY Numbers, Zenon
    <3> QED
      BY <2>3, <3>1
  <2> QED
    BY <2>2, <2>4, <2>5
<1>2. regs' = [regs EXCEPT ![a] = data] /\ flags' = flags
  BY <1>1 DEF Decode
<1>3. rxFifo' = rxFifo /\ txFifo' = txFifo
  BY <1>1 DEF Decode
<1> QED
  BY <1>2, <1>3

\* A sequence of some length is not the empty one.
LEMMA NotEmpty ==
  ASSUME NEW S, NEW s \in Seq(S), Len(s) # 0
  PROVE  s # << >>
  BY EmptySeq

\* The three-byte address, as the two writes of it bring it.
LEMMA Broadcast ==
  ASSUME NEW a \in Int
  PROVE  Head(<<a>> \o broadcast) = a /\ Tail(<<a>> \o broadcast) = broadcast
<1>1. broadcast \in Seq(Int) /\ Len(broadcast) = 3
  BY DEF broadcast
<1>2. PICK s : s = <<a>> \o broadcast
  OBVIOUS
<1>3. /\ s \in Seq(Int) /\ Len(s) = 4 /\ s[1] = a
      /\ s[2] = broadcast[1] /\ s[3] = broadcast[2] /\ s[4] = broadcast[3]
  BY <1>2 DEF broadcast
<1>4. s # << >>
  BY <1>3, NotEmpty
<1>5. PICK t : t = Tail(s)
  OBVIOUS
<1>6. /\ t \in Seq(Int) /\ Len(t) = Len(s) - 1
      /\ \A i \in 1 .. Len(t) : t[i] = s[i + 1]
  BY <1>3, <1>4, <1>5, HeadTailProperties, Zenon
<1>7. Len(t) = 3 /\ t[1] = s[2] /\ t[2] = s[3] /\ t[3] = s[4]
  BY <1>3, <1>6
<1>8. \A i \in 1 .. 3 : t[i] = broadcast[i]
  BY <1>3, <1>7
<1>9. t = broadcast
  BY <1>1, <1>6, <1>7, <1>8, SeqEqual
<1>10. Head(s) = a
  BY <1>3, <1>4
<1> QED
  BY <1>2, <1>5, <1>9, <1>10

\* A write of STATUS clears flags.
LEMMA StatusDecoded ==
  ASSUME DOMAIN regs = DOMAIN PowerOn, NEW v, Decode(<<39, v>>)
  PROVE  flags' = flags \ FlagsIn(v) /\ UNCHANGED <<regs, rxFifo, txFifo>>
  BY Numbers, Addresses DEF Decode

\* The commands of one byte.
LEMMA CommandDecoded ==
  ASSUME DOMAIN regs = DOMAIN PowerOn, NEW c \in {17, 97, 225, 226, 255}, Decode(<<c>>)
  PROVE  /\ UNCHANGED <<regs, flags>>
         /\ rxFifo' = IF c = 226 THEN << >>
                      ELSE IF c = 97 /\ rxFifo # << >> THEN Tail(rxFifo) ELSE rxFifo
         /\ txFifo' = IF c = 225 THEN << >> ELSE txFifo
         /\ c = 17 => ret' = regs[17][1]
         /\ c = 255 => ret' = StatusByte
<1>1. Head(<<c>>) = c
  OBVIOUS
<1>2. c - 32 \notin DOMAIN regs
  BY Addresses
<1>3. UNCHANGED <<regs, flags>>
  BY <1>1, <1>2, Numbers DEF Decode
<1>4. /\ rxFifo' = IF c = 226 THEN << >>
                   ELSE IF c = 97 /\ rxFifo # << >> THEN Tail(rxFifo) ELSE rxFifo
      /\ txFifo' = IF c = 225 THEN << >> ELSE txFifo
  <2>1. c # 160
    OBVIOUS
  <2>2. rxFifo' = IF c = 226 THEN << >>
                  ELSE IF c = 97 /\ rxFifo # << >> THEN Tail(rxFifo) ELSE rxFifo
    BY <1>1, Numbers DEF Decode
  <2>3. txFifo' = IF c = 225 THEN << >> ELSE txFifo
    BY <1>1, <2>1, Numbers DEF Decode
  <2> QED
    BY <2>2, <2>3
<1>5. (c = 17 => ret' = regs[17][1]) /\ (c = 255 => ret' = StatusByte)
  <2>1. ret' = Reply(c)
    BY <1>1 DEF Decode
  <2>2. 17 \in DOMAIN regs /\ 255 \notin DOMAIN regs
    BY Addresses
  <2> QED
    BY <2>1, <2>2, Numbers DEF Reply
<1> QED
  BY <1>3, <1>4, <1>5

\* A payload to transmit.
LEMMA PayloadDecoded ==
  ASSUME DOMAIN regs = DOMAIN PowerOn, NEW m \in Int, Decode(<<160, m>>)
  PROVE  txFifo' = Append(txFifo, m) /\ UNCHANGED <<regs, flags, rxFifo>>
  BY Numbers, Addresses DEF Decode

\* STATUS names no pipe but 0, or none, and only flags the driver knows of.
LEMMA StatusByteSeen ==
  ChipInv => StatusByte \in StatusBytes
<1> SUFFICES ASSUME ChipInv PROVE StatusByte \in StatusBytes
  OBVIOUS
<1> DEFINE f == (IF "RX_DR" \in flags THEN 64 ELSE 0) + (IF "TX_DS" \in flags THEN 32 ELSE 0)
<1>1. "MAX_RT" \notin flags
  BY DEF ChipInv
<1>2. StatusByte = f + 2 * Pipe /\ Pipe \in {0, 7}
  BY <1>1 DEF StatusByte, FlagBit, Pipe
<1>3. f \in {0, 32, 64, 96}
  OBVIOUS
<1> QED
  BY <1>2, <1>3 DEF StatusBytes

\* The pipe that a status byte names.
LEMMA PipeOf == \A b \in StatusBytes : b \in Int /\ (b \div 2) % 8 \in {0, 7}
  BY DEF StatusBytes
-----------------------------------------------------------------------------
(* The chip as RadioPort sees it.                                          *)

PortStep == [Port!PortNext]_(Port!chipVars)

\* The mode that a value of CONFIG stands for.
LEMMA ModeOf ==
  ASSUME NEW r
  PROVE  /\ Mode(r) \in {"off", "ptx", "prx"}
         /\ r[Reg.CONFIG] = <<0>> => Mode(r) = "off"
         /\ r[Reg.CONFIG] = CONFIG_PTX => Mode(r) = "ptx"
         /\ r[Reg.CONFIG] = CONFIG_PRX => Mode(r) = "prx"
  BY Numbers DEF Mode, ConfigBit, Bit, PWR_UP, PRIM_RX

\* The mode after a step is that of the registers after it.
LEMMA ModeNext ==
  /\ Mode(regs)' = Mode(regs')
  /\ regs'[Reg.CONFIG] = regs[Reg.CONFIG] => Mode(regs)' = Mode(regs)
  BY DEF Mode, ConfigBit, Bit, Reg

\* A FIFO of pairs grows and shrinks with the FIFO it stands for.
LEMMA HalvesFacts ==
  ASSUME NEW s \in Seq(Int), NEW x \in Int
  PROVE  /\ Halves(s) \in Seq(Int \X Int) /\ Len(Halves(s)) = Len(s)
         /\ Halves(Append(s, x)) = Append(Halves(s), <<x, x>>)
         /\ s # << >> => /\ Halves(s) # << >>
                        /\ Halves(Tail(s)) = Tail(Halves(s))
                        /\ Head(Halves(s)) = <<Head(s), Head(s)>>
<1>1. \A q \in Seq(Int) :
        /\ Halves(q) \in Seq(Int \X Int) /\ Len(Halves(q)) = Len(q)
        /\ \A i \in 1 .. Len(q) : Halves(q)[i] = <<q[i], q[i]>>
  BY DEF Halves
<1>2. Halves(Append(s, x)) = Append(Halves(s), <<x, x>>)
  <2>1. PICK u, a, b : /\ u = Append(s, x)
                       /\ a = Halves(u) /\ b = Append(Halves(s), <<x, x>>)
    OBVIOUS
  <2>2. /\ u \in Seq(Int) /\ Len(u) = Len(s) + 1 /\ u[Len(s) + 1] = x
        /\ \A i \in 1 .. Len(s) : u[i] = s[i]
    BY <2>1, AppendProperties
  <2>3. /\ a \in Seq(Int \X Int) /\ Len(a) = Len(s) + 1 /\ a[Len(s) + 1] = <<x, x>>
        /\ \A i \in 1 .. Len(s) : a[i] = <<s[i], s[i]>>
    <3>1. /\ a \in Seq(Int \X Int) /\ Len(a) = Len(u)
          /\ \A i \in 1 .. Len(u) : a[i] = <<u[i], u[i]>>
      BY <1>1, <2>1, <2>2
    <3>2. Len(a) = Len(s) + 1 /\ a[Len(s) + 1] = <<x, x>>
      <4>1. Len(s) + 1 \in 1 .. Len(u)
        BY <2>2
      <4> QED
        BY <2>2, <3>1, <4>1
    <3>3. ASSUME NEW i \in 1 .. Len(s)
          PROVE  a[i] = <<s[i], s[i]>>
      <4>1. i \in 1 .. Len(u) /\ u[i] = s[i]
        BY <2>2
      <4> QED
        BY <3>1, <4>1
    <3> QED
      BY <3>1, <3>2, <3>3
  <2>4. /\ b \in Seq(Int \X Int) /\ Len(b) = Len(s) + 1 /\ b[Len(s) + 1] = <<x, x>>
        /\ \A i \in 1 .. Len(s) : b[i] = <<s[i], s[i]>>
    BY <1>1, <2>1, AppendProperties
  <2>5. Len(s) \in Nat /\ \A i \in 1 .. Len(s) + 1 : i \in 1 .. Len(s) \/ i = Len(s) + 1
    OBVIOUS
  <2>6. \A i \in 1 .. Len(a) : a[i] = b[i]
    BY <2>3, <2>4, <2>5
  <2> QED
    BY <2>1, <2>3, <2>4, <2>6, SeqEqual
<1>3. ASSUME s # << >>
      PROVE  /\ Halves(s) # << >>
             /\ Halves(Tail(s)) = Tail(Halves(s))
             /\ Head(Halves(s)) = <<Head(s), Head(s)>>
  <2>1. Len(s) \in Nat \ {0}
    BY <1>3, EmptySeq
  <2>2. Halves(s) # << >>
    BY <1>1, <2>1, NotEmpty
  <2>3. PICK t, h, a, b : /\ t = Tail(s) /\ h = Halves(s)
                          /\ a = Halves(t) /\ b = Tail(h)
    OBVIOUS
  <2>4. /\ t \in Seq(Int) /\ Len(t) = Len(s) - 1
        /\ \A i \in 1 .. Len(t) : t[i] = s[i + 1]
    BY <1>3, <2>3, HeadTailProperties, Zenon
  <2>5. /\ h \in Seq(Int \X Int) /\ Len(h) = Len(s) /\ h # << >>
        /\ \A i \in 1 .. Len(s) : h[i] = <<s[i], s[i]>>
    BY <1>1, <2>2, <2>3
  <2>6. /\ b \in Seq(Int \X Int) /\ Len(b) = Len(h) - 1
        /\ \A i \in 1 .. Len(b) : b[i] = h[i + 1]
    BY <2>3, <2>5, HeadTailProperties, Zenon
  <2>7. /\ a \in Seq(Int \X Int) /\ Len(a) = Len(t)
        /\ \A i \in 1 .. Len(t) : a[i] = <<t[i], t[i]>>
    BY <1>1, <2>3, <2>4
  <2>8. \A i \in 1 .. Len(a) : a[i] = b[i]
    <3> TAKE i \in 1 .. Len(a)
    <3>1. i \in 1 .. Len(t) /\ i \in 1 .. Len(b) /\ i + 1 \in 1 .. Len(s)
      BY <2>1, <2>4, <2>5, <2>6, <2>7
    <3>2. a[i] = <<s[i + 1], s[i + 1]>> /\ b[i] = <<s[i + 1], s[i + 1]>>
      BY <3>1, <2>4, <2>5, <2>6, <2>7
    <3> QED
      BY <3>2
  <2>9. a = b
    <3>1. Len(a) = Len(b)
      BY <2>4, <2>5, <2>6, <2>7
    <3> QED
      BY <2>6, <2>7, <2>8, <3>1, SeqEqual, Zenon
  <2>10. Head(h) = h[1] /\ Head(s) = s[1] /\ h[1] = <<s[1], s[1]>>
    BY <1>3, <2>1, <2>5
  <2> QED
    BY <2>2, <2>3, <2>9, <2>10
<1> QED
  BY <1>1, <1>2, <1>3

\* Steps that RadioPort does not see: registers other than CONFIG, the
\* thread's own variables.
LEMMA PortSilent ==
  ASSUME regs'[Reg.CONFIG] = regs[Reg.CONFIG], UNCHANGED ioVars
  PROVE  PortStep
  BY ModeNext DEF PortStep, Port!chipVars, ioVars, Halves

\* A change of CONFIG with the chip neither listening nor transmitting.
LEMMA PortSetMode ==
  ASSUME ~ce, ~txBusy, UNCHANGED ioVars
  PROVE  PortStep
<1>1. Mode(regs)' \in {"off", "ptx", "prx"}
  BY ModeOf, ModeNext
<1>2. Port!SetMode
  BY <1>1 DEF Port!SetMode, Port!Fifos, Port!World, ioVars, Halves
<1> QED
  BY <1>2 DEF PortStep, Port!PortNext

\* CE.
LEMMA PortCe ==
  ASSUME ChipInv, regs' = regs, UNCHANGED <<flags, rxFifo, txFifo, arrived, air>>,
         \/ ce' = FALSE /\ txBusy' = txBusy
         \/ ce' = TRUE /\ txBusy' = (Mode(regs) = "ptx" /\ txFifo # << >>)
  PROVE  PortStep
<1>1. Mode(regs)' = Mode(regs) /\ Halves(txFifo)' = Halves(txFifo) /\ Halves(air)' = Halves(air)
  BY ModeNext DEF Halves
<1>2. Halves(txFifo) # << >> <=> txFifo # << >>
  <2>1. Len(Halves(txFifo)) = Len(txFifo) /\ Halves(txFifo) \in Seq(Int \X Int)
        /\ txFifo \in Seq(Int)
    BY HalvesFacts DEF ChipInv
  <2> QED
    BY <2>1, EmptySeq
<1>3. CASE ce' = FALSE /\ txBusy' = txBusy
  <2>1. Port!CeLow
    BY <1>1, <1>3 DEF Port!CeLow, Port!Fifos, Port!World
  <2> QED
    BY <2>1 DEF PortStep, Port!PortNext
<1>4. CASE ce' = TRUE /\ txBusy' = (Mode(regs) = "ptx" /\ txFifo # << >>)
  <2>1. Port!CeHigh
    BY <1>1, <1>2, <1>4 DEF Port!CeHigh, Port!Fifos, Port!World
  <2> QED
    BY <2>1 DEF PortStep, Port!PortNext
<1> QED
  BY <1>3, <1>4

\* Flags are cleared.
LEMMA PortClearFlags ==
  ASSUME ChipInv, NEW F, flags' = flags \ F, regs' = regs,
         UNCHANGED <<ce, rxFifo, txFifo, txBusy, arrived, air>>
  PROVE  PortStep
<1>1. Mode(regs)' = Mode(regs) /\ Halves(txFifo)' = Halves(txFifo) /\ Halves(air)' = Halves(air)
  BY ModeNext DEF Halves
<1>2. /\ F \cap {"RX_DR", "TX_DS"} \in SUBSET Port!Flags
      /\ flags' = flags \ (F \cap {"RX_DR", "TX_DS"})
  BY DEF Port!Flags, ChipInv
<1>3. Port!ClearFlags
  BY <1>1, <1>2 DEF Port!ClearFlags, Port!Registers, Port!Fifos, Port!World
<1> QED
  BY <1>3 DEF PortStep, Port!PortNext

\* An empty FIFO stands for an empty FIFO.
LEMMA HalvesEmpty == Halves(<< >>) = << >>
<1>1. << >> \in Seq(Int) /\ Len(<< >>) = 0 /\ 0 \in Int
  OBVIOUS
<1>2. Halves(<< >>) \in Seq(Int \X Int) /\ Len(Halves(<< >>)) = 0
  BY <1>1, HalvesFacts
<1> QED
  BY <1>2, EmptySeq

\* A FIFO is flushed while the chip is powered down.
LEMMA PortFlush ==
  ASSUME Mode(regs) = "off", regs' = regs, UNCHANGED <<ce, flags, txBusy, arrived, air>>,
         \/ rxFifo' = << >> /\ txFifo' = txFifo
         \/ txFifo' = << >> /\ rxFifo' = rxFifo
  PROVE  PortStep
<1>1. Mode(regs)' = Mode(regs) /\ Halves(air)' = Halves(air) /\ Halves(txFifo)' = Halves(txFifo')
  BY ModeNext DEF Halves
<1>2. Port!Flush
  BY <1>1, HalvesEmpty DEF Port!Flush, Port!Registers, Port!World
<1> QED
  BY <1>2 DEF PortStep, Port!PortNext

\* A payload is written while the chip is in transmit mode and CE is low.
LEMMA PortWritePayload ==
  ASSUME ChipInv, Mode(regs) = "ptx", ~ce, ~txBusy, NEW m \in Int,
         txFifo' = Append(txFifo, m), regs' = regs,
         UNCHANGED <<ce, flags, rxFifo, txBusy, arrived, air>>
  PROVE  PortStep
<1>1. Mode(regs)' = Mode(regs) /\ Halves(air)' = Halves(air) /\ Halves(txFifo)' = Halves(txFifo')
  BY ModeNext DEF Halves
<1>2. PICK h, x, u : h = Halves(txFifo) /\ x = <<m, m>> /\ u = Append(h, x)
  OBVIOUS
<1>3. /\ h \in Seq(Int \X Int) /\ x \in Int \X Int
      /\ Halves(txFifo') = u
  BY <1>2, HalvesFacts DEF ChipInv
<1>4. /\ u \in Seq(Int \X Int) /\ Len(u) = Len(h) + 1 /\ Len(h) \in Nat
      /\ \A i \in 1 .. Len(h) : u[i] = h[i]
  BY <1>2, <1>3, AppendProperties
<1>5. SubSeq(u, 1, Len(h)) = h
  <2>1. PICK v : v = SubSeq(u, 1, Len(h))
    OBVIOUS
  <2>2. /\ v \in Seq(Int \X Int) /\ Len(v) = Len(h)
        /\ \A i \in 1 .. Len(h) : v[i] = u[i]
    BY <1>4, <2>1, SubSeqProperties
  <2>3. \A i \in 1 .. Len(v) : v[i] = h[i]
    BY <1>4, <2>2
  <2> QED
    BY <1>3, <2>1, <2>2, <2>3, SeqEqual
<1>6. Port!WritePayload
  BY <1>1, <1>2, <1>3, <1>4, <1>5 DEF Port!WritePayload, Port!Registers, Port!World
<1> QED
  BY <1>6 DEF PortStep, Port!PortNext

\* The oldest payload is read.
LEMMA PortReadPayload ==
  ASSUME rxFifo # << >>, rxFifo' = Tail(rxFifo), regs' = regs,
         UNCHANGED <<ce, flags, txFifo, txBusy, arrived, air>>
  PROVE  PortStep
<1>1. Mode(regs)' = Mode(regs) /\ Halves(air)' = Halves(air) /\ Halves(txFifo)' = Halves(txFifo)
  BY ModeNext DEF Halves
<1>2. Port!ReadPayload
  BY <1>1 DEF Port!ReadPayload, Port!Registers, Port!World
<1> QED
  BY <1>2 DEF PortStep, Port!PortNext
-----------------------------------------------------------------------------
(* The thread at the start.                                                *)

\* The step of BootScript that is next, and the rest after it.
LEMMA BootNext ==
  ASSUME NEW k \in 1 .. 20, script = Rest(BootScript, k)
  PROVE  /\ script # << >> /\ Head(script) = BootScript[k]
         /\ Tail(script) = Rest(BootScript, k + 1)
<1>1. BootScript \in Seq(Steps) /\ k \in 1 .. Len(BootScript)
  BY BootSteps
<1> QED
  BY <1>1, RestStep, Zenon

\* The same steps of the loop's scripts.
LEMMA LoopNext ==
  ASSUME NEW s \in Seq(Steps), Len(s) = 6, NEW k \in 1 .. 6, script = Rest(s, k)
  PROVE  /\ script # << >> /\ Head(script) = s[k] /\ Tail(script) = Rest(s, k + 1)
         /\ Rest(s, 7) = << >>
<1>1. Rest(s, 7) = << >>
  <2>1. Rest(s, Len(s) + 1) = << >>
    BY RestEnds
  <2> QED
    BY <2>1
<1>2. /\ Rest(s, k) # << >> /\ Head(Rest(s, k)) = s[k]
      /\ Tail(Rest(s, k)) = Rest(s, k + 1)
  <2>1. k \in 1 .. Len(s)
    OBVIOUS
  <2> QED
    BY <2>1, RestStep, Zenon
<1> QED
  BY <1>1, <1>2

\* Only a transaction takes a transaction from the script, and so on.
LEMMA WhichStep ==
  ASSUME script # << >>, SpiTransfer \/ SetCe \/ Sleep
  PROVE  /\ \A b : Head(script) = SpiStep(b) => SpiTransfer /\ Decode(b)
         /\ Head(script) = CeStep(0) => SetCe /\ ce' = FALSE
         /\ Head(script) = CeStep(1) => SetCe /\ ce' = TRUE
         /\ Head(script) = SleepStep => Sleep
         /\ script' = Tail(script)
<1>1. /\ SpiTransfer => Head(script).op = "spi" /\ Decode(Head(script).arg)
      /\ SetCe => Head(script).op = "ce" /\ ce' = (Head(script).arg = <<1>>)
      /\ Sleep => Head(script).op = "sleep"
      /\ script' = Tail(script)
  BY DEF SpiTransfer, SetCe, Sleep, NextOp
<1>2. /\ \A b : SpiStep(b).op = "spi" /\ SpiStep(b).arg = b
      /\ CeStep(0).op = "ce" /\ CeStep(0).arg # <<1>>
      /\ CeStep(1).op = "ce" /\ CeStep(1).arg = <<1>>
      /\ SleepStep.op = "sleep"
  BY DEF SpiStep, CeStep, SleepStep
<1>3. Head(script) = CeStep(0) => SetCe /\ ce' = FALSE
  BY <1>1, <1>2
<1>4. Head(script) = CeStep(1) => SetCe /\ ce' = TRUE
  BY <1>1, <1>2
<1> QED
  BY <1>1, <1>2, <1>3, <1>4

\* Setup writes each register of Settings once, CONFIG and STATUS not at all.
LEMMA SettingsFacts ==
  ASSUME NEW i \in 1 .. 10
  PROVE  /\ Settings[i][1] \in DOMAIN PowerOn \ {0, 7}
         /\ \A j \in 1 .. 10 : Settings[j][1] = Settings[i][1] => j = i
         /\ \E b : /\ BootScript[i + 2] = SpiStep(b)
                 /\ Head(b) = 32 + Settings[i][1] /\ Tail(b) = Settings[i][2]
<1>1. \A j \in 1 .. 10 : j \in {1, 2, 3, 4, 5, 6, 7, 8, 9, 10}
  OBVIOUS
<1>2. /\ Settings[1] = <<3, <<AW_3_BYTES>> >> /\ Settings[2] = <<16, broadcast>>
      /\ Settings[3] = <<4, <<0>> >> /\ Settings[4] = <<10, broadcast>>
      /\ Settings[5] = <<2, <<1>> >> /\ Settings[6] = <<1, <<0>> >>
      /\ Settings[7] = <<28, <<0>> >> /\ Settings[8] = <<17, <<PAYLOADSZ>> >>
      /\ Settings[9] = <<5, <<CHANNEL>> >> /\ Settings[10] = <<6, <<RF_1M_0dBm>> >>
  BY Numbers DEF Settings
<1>3. Settings[i][1] \in DOMAIN PowerOn \ {0, 7}
  BY <1>1, <1>2, Addresses
<1>4. \A j \in 1 .. 10 : Settings[j][1] = Settings[i][1] => j = i
  BY <1>1, <1>2
<1>5. PICK b1, b2 : b1 = <<48>> \o broadcast /\ b2 = <<42>> \o broadcast
  OBVIOUS
<1>6. /\ Head(b1) = 48 /\ Tail(b1) = broadcast /\ Head(b2) = 42 /\ Tail(b2) = broadcast
  <2>1. 48 \in Int /\ 42 \in Int
    OBVIOUS
  <2> QED
    BY <1>5, <2>1, Broadcast, Zenon
<1>7. BootScript[4] = SpiStep(b1) /\ BootScript[6] = SpiStep(b2)
  BY <1>5, BootSteps, Zenon
<1>8. \E b : /\ BootScript[i + 2] = SpiStep(b)
             /\ Head(b) = 32 + Settings[i][1] /\ Tail(b) = Settings[i][2]
  <2> DEFINE Brings(j, b) == /\ BootScript[j + 2] = SpiStep(b)
                             /\ Head(b) = 32 + Settings[j][1] /\ Tail(b) = Settings[j][2]
  <2>1. Brings(1, <<35, AW_3_BYTES>>)
    BY <1>2, BootSteps
  <2>2. Brings(2, b1)
    BY <1>2, <1>6, <1>7
  <2>3. Brings(3, <<36, 0>>)
    BY <1>2, BootSteps
  <2>4. Brings(4, b2)
    BY <1>2, <1>6, <1>7
  <2>5. Brings(5, <<34, 1>>)
    BY <1>2, BootSteps
  <2>6. Brings(6, <<33, 0>>)
    BY <1>2, BootSteps
  <2>7. Brings(7, <<60, 0>>)
    BY <1>2, BootSteps
  <2>8. Brings(8, <<49, PAYLOADSZ>>)
    BY <1>2, BootSteps
  <2>9. Brings(9, <<37, CHANNEL>>)
    BY <1>2, BootSteps
  <2>10. Brings(10, <<38, RF_1M_0dBm>>)
    BY <1>2, BootSteps
  <2> HIDE DEF Brings
  <2>11. \E b : Brings(i, b)
    BY <1>1, <2>1, <2>2, <2>3, <2>4, <2>5, <2>6, <2>7, <2>8, <2>9, <2>10
  <2> QED
    BY <2>11 DEF Brings
<1> QED
  BY <1>3, <1>4, <1>8

\* With every setting in place the chip is configured, in either mode.
LEMMA SettingsDone ==
  ASSUME SetBefore(13), regs[Reg.CONFIG] \in {CONFIG_PTX, CONFIG_PRX}
  PROVE  /\ Configured /\ regs[Reg.TX_ADDR] = broadcast /\ regs[Reg.SETUP_RETR] = <<0>>
         /\ Mode(regs) \in {"ptx", "prx"}
<1>1. \A i \in {1, 2, 3, 4, 5, 6, 7, 8, 9, 10} : regs[Settings[i][1]] = Settings[i][2]
  BY DEF SetBefore
<1>2. /\ regs[Reg.SETUP_AW] = <<AW_3_BYTES>> /\ regs[Reg.TX_ADDR] = broadcast
      /\ regs[Reg.SETUP_RETR] = <<0>> /\ regs[Reg.RX_ADDR_P0] = broadcast
      /\ regs[Reg.EN_RXADDR] = <<1>> /\ regs[Reg.EN_AA] = <<0>> /\ regs[Reg.DYNPD] = <<0>>
      /\ regs[Reg.RX_PW_P0] = <<PAYLOADSZ>> /\ regs[Reg.RF_CH] = <<CHANNEL>>
      /\ regs[Reg.RF_SETUP] = <<RF_1M_0dBm>>
  BY <1>1 DEF Settings
<1>3. ConfigBit(regs, 8) /\ ConfigBit(regs, 4)
  BY Numbers DEF ConfigBit, Bit
<1> QED
  BY <1>2, <1>3, ModeOf DEF Configured

\* A step of the start that leaves one more behind it.
LEMMA StillBooting ==
  ASSUME NEW k \in 1 .. 20, script' = Rest(BootScript, k), at' = "wait", ~ce', ~txBusy',
         SetBefore(k)',
         k \in 3 .. 17 => regs'[Reg.CONFIG] = << 0 >>,
         k \in {18, 19} => regs'[Reg.CONFIG] = CONFIG_PTX,
         k = 20 => regs'[Reg.CONFIG] = CONFIG_PRX
  PROVE  Booting'
  BY DEF Booting, Reg, CONFIG_PTX, CONFIG_PRX, SetBefore

\* The settings in place stay while only CONFIG, or no register, is written.
LEMMA SettingsKept ==
  ASSUME DOMAIN regs = DOMAIN PowerOn, NEW k, NEW l, SetBefore(k),
         \A i \in 1 .. 10 : i + 2 < l => i + 2 < k,
         \/ regs' = regs
         \/ \E v : regs' = [regs EXCEPT ![Reg.CONFIG] = v]
  PROVE  SetBefore(l)'
<1>1. \A i \in 1 .. 10 : Settings[i][1] \in DOMAIN regs /\ Settings[i][1] # Reg.CONFIG
  <2> TAKE i \in 1 .. 10
  <2>1. Settings[i][1] \in DOMAIN PowerOn \ {0, 7}
    BY SettingsFacts
  <2> QED
    BY <2>1, Numbers
<1>2. \A i \in 1 .. 10 : regs'[Settings[i][1]] = regs[Settings[i][1]]
  BY <1>1
<1> QED
  BY <1>2 DEF SetBefore

\* Every step of the start but the last leaves the chip off air.
LEMMA BootStep ==
  ASSUME ChipInv, Booting, SpiTransfer \/ SetCe \/ Sleep
  PROVE  IInv' /\ PortStep
<1>1. PICK k \in 1 .. 20 :
        /\ script = Rest(BootScript, k) /\ SetBefore(k)
        /\ k \in 3 .. 17 => regs[Reg.CONFIG] = << 0 >>
        /\ k \in {18, 19} => regs[Reg.CONFIG] = CONFIG_PTX
        /\ k = 20 => regs[Reg.CONFIG] = CONFIG_PRX
  BY DEF Booting
<1>2. script # << >> /\ Head(script) = BootScript[k] /\ script' = Rest(BootScript, k + 1)
  BY <1>1, BootNext, WhichStep
<1>3. at = "wait" /\ ~ce /\ ~txBusy /\ DOMAIN regs = DOMAIN PowerOn
  BY DEF Booting, ChipInv
<1>4. at' = at /\ status' = status /\ UNCHANGED <<arrived, air, queued, sends>>
  BY DEF SpiTransfer, SetCe, Sleep, ioVars
<1>5. ASSUME k # 20, ~ce', ~txBusy', SetBefore(k + 1)',
             k + 1 \in 3 .. 17 => regs'[Reg.CONFIG] = << 0 >>,
             k + 1 \in {18, 19} => regs'[Reg.CONFIG] = CONFIG_PTX,
             k + 1 = 20 => regs'[Reg.CONFIG] = CONFIG_PRX
      PROVE  Booting'
  <2>1. k + 1 \in 1 .. 20
    BY <1>5
  <2> QED
    BY <1>2, <1>3, <1>4, <1>5, <2>1, StillBooting
<1>6. ASSUME ~ce', ~txBusy', DOMAIN regs' = DOMAIN PowerOn, flags' \subseteq flags,
             rxFifo' \in {rxFifo, << >>}, txFifo' \in {txFifo, << >>}
      PROVE  ChipInv'
  <2>1. << >> \in Seq(Int)
    OBVIOUS
  <2>2. rxFifo' \in Seq(Int) /\ txFifo' \in Seq(Int)
    BY <1>6, <2>1 DEF ChipInv
  <2>3. ce' = FALSE /\ txBusy' = FALSE
    BY <1>6
  <2> QED
    BY <1>4, <1>6, <2>2, <2>3 DEF ChipInv, PowerOn, Reg
<1>7. CASE k \in {1, 16}
  <2>1. Head(script) = CeStep(0)
    BY <1>2, <1>7, BootSteps
  <2>2. SetCe /\ ce' = FALSE
    BY <1>2, <2>1, WhichStep
  <2>3. regs' = regs /\ txBusy' = txBusy /\ UNCHANGED <<flags, rxFifo, txFifo>>
    BY <2>2 DEF SetCe
  <2>4. SetBefore(k + 1)'
    BY <1>1, <1>3, <1>7, <2>3, SettingsKept
  <2>5. Booting'
    BY <1>1, <1>3, <1>5, <1>7, <2>2, <2>3, <2>4
  <2>6. ChipInv'
    BY <1>3, <1>6, <2>2, <2>3
  <2>7. PortStep
    BY <1>4, <2>2, <2>3, PortCe
  <2> QED
    BY <2>5, <2>6, <2>7 DEF IInv
<1>8. CASE k = 18
  <2>1. Head(script) = SleepStep
    BY <1>2, <1>8, BootSteps
  <2>2. Sleep
    BY <1>2, <2>1, WhichStep
  <2>3. regs' = regs /\ UNCHANGED ioVars
    BY <2>2 DEF Sleep
  <2>4. UNCHANGED <<ce, txBusy, flags, rxFifo, txFifo>>
    BY <2>3 DEF ioVars
  <2>5. SetBefore(k + 1)'
    BY <1>1, <1>3, <1>8, <2>3, SettingsKept
  <2>6. Booting'
    BY <1>1, <1>3, <1>5, <1>8, <2>3, <2>4, <2>5
  <2>7. ChipInv'
    BY <1>3, <1>6, <2>3, <2>4
  <2>8. PortStep
    BY <2>3, PortSilent
  <2> QED
    BY <2>6, <2>7, <2>8 DEF IInv
<1>9. CASE k \in {2, 17, 19}
  <2>1. PICK v \in {0, 14, 15} :
          /\ Head(script) = SpiStep(<<32, v>>)
          /\ (k = 2 => v = 0) /\ (k = 17 => v = 14) /\ (k = 19 => v = 15)
    <3>1. CASE k = 2
      BY <1>2, <3>1, BootSteps
    <3>2. CASE k = 17
      BY <1>2, <3>2, BootSteps
    <3>3. CASE k = 19
      BY <1>2, <3>3, BootSteps
    <3> QED
      BY <1>9, <3>1, <3>2, <3>3
  <2>2. SpiTransfer /\ Decode(<<32, v>>)
    BY <1>2, <2>1, WhichStep
  <2>3. regs' = [regs EXCEPT ![0] = <<v>>] /\ UNCHANGED <<flags, rxFifo, txFifo>>
    <3>1. 0 \in DOMAIN PowerOn \ {7}
      BY Addresses
    <3>2. Head(<<32, v>>) = 32 + 0 /\ Tail(<<32, v>>) = <<v>>
      OBVIOUS
    <3> QED
      BY <1>3, <2>2, <3>1, <3>2, WriteDecoded
  <2>4. UNCHANGED <<ce, txBusy>>
    BY <2>2 DEF SpiTransfer
  <2>5. SetBefore(k + 1)'
    <3>1. \E w : regs' = [regs EXCEPT ![Reg.CONFIG] = w]
      BY <2>3, Numbers
    <3>2. \A i \in 1 .. 10 : i + 2 < k + 1 => i + 2 < k
      BY <1>9
    <3> QED
      BY <1>1, <1>3, <3>1, <3>2, SettingsKept
  <2>6. regs'[Reg.CONFIG] = <<v>> /\ DOMAIN regs' = DOMAIN PowerOn
    BY <1>3, <2>3, Numbers, Addresses
  <2>7. Booting'
    BY <1>3, <1>5, <1>9, <2>1, <2>4, <2>5, <2>6, Numbers
  <2>8. ChipInv'
    BY <1>3, <1>6, <2>3, <2>4, <2>6
  <2>9. PortStep
    BY <1>3, <1>4, <2>3, <2>4, PortSetMode DEF ioVars
  <2> QED
    BY <2>7, <2>8, <2>9 DEF IInv
<1>10. CASE k \in 3 .. 12
  <2>1. PICK i \in 1 .. 10 : k = i + 2
    BY <1>10
  <2>2. PICK b : /\ Head(script) = SpiStep(b)
                 /\ Head(b) = 32 + Settings[i][1] /\ Tail(b) = Settings[i][2]
    BY <1>2, <2>1, SettingsFacts
  <2>3. SpiTransfer /\ Decode(b)
    BY <1>2, <2>2, WhichStep
  <2>4. Settings[i][1] \in DOMAIN PowerOn \ {0, 7}
    BY SettingsFacts
  <2>5. /\ regs' = [regs EXCEPT ![Settings[i][1]] = Settings[i][2]]
        /\ UNCHANGED <<flags, rxFifo, txFifo>>
    BY <1>3, <2>2, <2>3, <2>4, WriteDecoded
  <2>6. UNCHANGED <<ce, txBusy>>
    BY <2>3 DEF SpiTransfer
  <2>7. SetBefore(k + 1)'
    <3>1. ASSUME NEW j \in 1 .. 10, j + 2 < k + 1
          PROVE  regs'[Settings[j][1]] = Settings[j][2]
      <4>1. CASE j = i
        BY <1>3, <2>4, <2>5, <4>1
      <4>2. CASE j # i
        <5>1. j + 2 < k
          BY <2>1, <3>1, <4>2
        <5>2. Settings[j][1] # Settings[i][1]
          BY <4>2, SettingsFacts
        <5> QED
          BY <1>1, <1>3, <2>4, <2>5, <5>1, <5>2, SettingsFacts DEF SetBefore
      <4> QED
        BY <4>1, <4>2
    <3> QED
      BY <3>1 DEF SetBefore
  <2>8. regs'[Reg.CONFIG] = <<0>> /\ regs[Reg.CONFIG] = <<0>> /\ DOMAIN regs' = DOMAIN PowerOn
    BY <1>1, <1>3, <1>10, <2>4, <2>5, Numbers, Addresses
  <2>9. Booting'
    BY <1>3, <1>5, <1>10, <2>6, <2>7, <2>8
  <2>10. ChipInv'
    BY <1>3, <1>6, <2>5, <2>6, <2>8
  <2>11. PortStep
    BY <1>4, <2>5, <2>6, <2>8, PortSilent DEF ioVars
  <2> QED
    BY <2>9, <2>10, <2>11 DEF IInv
<1>11. CASE k \in {13, 14}
  <2>1. PICK c \in {225, 226} : Head(script) = SpiStep(<<c>>)
    <3>1. k = 13 => Head(script) = SpiStep(<<225>>)
      BY <1>2, BootSteps
    <3>2. k = 14 => Head(script) = SpiStep(<<226>>)
      BY <1>2, BootSteps
    <3> QED
      BY <1>11, <3>1, <3>2
  <2>2. SpiTransfer /\ Decode(<<c>>)
    <3>1. \A b : Head(script) = SpiStep(b) => SpiTransfer /\ Decode(b)
      BY <1>2, WhichStep
    <3> QED
      BY <2>1, <3>1, Zenon
  <2>3. /\ regs' = regs /\ flags' = flags
        /\ \/ rxFifo' = << >> /\ txFifo' = txFifo
           \/ txFifo' = << >> /\ rxFifo' = rxFifo
    BY <1>3, <2>2, CommandDecoded
  <2>4. UNCHANGED <<ce, txBusy>>
    BY <2>2 DEF SpiTransfer
  <2>5. SetBefore(k + 1)'
    BY <1>1, <1>3, <1>11, <2>3, SettingsKept
  <2>6. regs[Reg.CONFIG] = <<0>>
    BY <1>1, <1>11
  <2>7. Booting'
    BY <1>3, <1>5, <1>11, <2>3, <2>4, <2>5, <2>6
  <2>8. ChipInv'
    BY <1>3, <1>6, <2>3, <2>4
  <2>9. PortStep
    BY <1>4, <2>3, <2>4, <2>6, ModeOf, PortFlush
  <2> QED
    BY <2>7, <2>8, <2>9 DEF IInv
<1>12. CASE k = 15
  <2>1. Head(script) = SpiStep(<<39, 112>>)
    BY <1>2, <1>12, BootSteps
  <2>2. SpiTransfer /\ Decode(<<39, 112>>)
    BY <1>2, <2>1, WhichStep
  <2>3. flags' = flags \ FlagsIn(112) /\ UNCHANGED <<regs, rxFifo, txFifo>>
    BY <1>3, <2>2, StatusDecoded
  <2>4. UNCHANGED <<ce, txBusy>>
    BY <2>2 DEF SpiTransfer
  <2>5. SetBefore(k + 1)'
    BY <1>1, <1>3, <1>12, <2>3, SettingsKept
  <2>6. Booting'
    BY <1>1, <1>3, <1>5, <1>12, <2>3, <2>4, <2>5
  <2>7. ChipInv'
    BY <1>3, <1>6, <2>3, <2>4
  <2>8. PortStep
    BY <1>4, <2>3, <2>4, PortClearFlags
  <2> QED
    BY <2>6, <2>7, <2>8 DEF IInv
<1>13. CASE k = 20
  <2>1. Head(script) = CeStep(1) /\ script' = << >>
    <3>1. Rest(BootScript, 21) = << >>
      <4>1. Rest(BootScript, Len(BootScript) + 1) = << >>
        BY BootSteps, RestEnds
      <4> QED
        BY <4>1, BootSteps
    <3> QED
      BY <1>2, <1>13, <3>1, BootSteps
  <2>2. SetCe /\ ce' = TRUE
    BY <1>2, <2>1, WhichStep
  <2>3. Mode(regs) = "prx" /\ regs[Reg.CONFIG] = CONFIG_PRX
    BY <1>1, <1>13, ModeOf
  <2>4. regs' = regs /\ txBusy' = FALSE /\ UNCHANGED <<flags, rxFifo, txFifo>>
    BY <1>3, <2>2, <2>3 DEF SetCe
  <2>5. SetBefore(13)'
    BY <1>1, <1>3, <1>13, <2>4, SettingsKept
  <2>6. Serving'
    BY <1>3, <1>4, <2>1, <2>3, <2>4, <2>5 DEF Serving, InWait, CONFIG_PTX, CONFIG_PRX, Reg
  <2>7. ChipInv'
    BY <1>4, <2>2, <2>4 DEF ChipInv
  <2>8. PortStep
    BY <1>4, <2>2, <2>3, <2>4, PortCe
  <2> QED
    BY <2>6, <2>7, <2>8 DEF IInv
<1> QED
  <2>1. k \in {1, 16} \cup {18} \cup {2, 17, 19} \cup (3 .. 12) \cup {13, 14} \cup {15, 20}
    OBVIOUS
  <2> QED
    BY <2>1, <1>7, <1>8, <1>9, <1>10, <1>11, <1>12, <1>13
-----------------------------------------------------------------------------
(* The thread in its loop.                                                 *)

\* A step that writes no register, takes no step of the script and does not
\* raise CE.
LEMMA ServingKept ==
  ASSUME ChipInv, Serving, UNCHANGED <<regs, ce, at, script, ret, status>>, txBusy' => txBusy
  PROVE  Serving'
<1>1. SetBefore(13)'
  BY SettingsKept DEF Serving, ChipInv
<1>2. (InStatus \/ InWidth \/ InSent \/ InCheck \/ InWait)'
  <2>1. CASE InStatus
    BY <2>1 DEF InStatus
  <2>2. CASE InWidth
    BY <2>2 DEF InWidth
  <2>3. CASE InSent
    BY <2>3 DEF InSent
  <2>4. CASE InCheck
    BY <2>4 DEF InCheck
  <2>5. CASE InWait
    BY <2>5 DEF InWait
  <2> QED
    BY <2>1, <2>2, <2>3, <2>4, <2>5 DEF Serving
<1> QED
  BY <1>1, <1>2 DEF Serving, Reg, CONFIG_PTX, CONFIG_PRX

\* A script of one transaction ends with it.
LEMMA OneTransaction ==
  ASSUME NEW b, script = <<SpiStep(b)>>, SpiTransfer \/ SetCe \/ Sleep
  PROVE  SpiTransfer /\ Decode(b) /\ script' = << >>
<1>1. script # << >> /\ Head(script) = SpiStep(b) /\ Tail(script) = << >>
  OBVIOUS
<1> QED
  BY <1>1, WhichStep

\* What the thread keeps while it takes steps of a script.
LEMMA ScriptFrame ==
  SpiTransfer \/ SetCe \/ Sleep =>
    /\ UNCHANGED <<at, status, arrived, air, queued, sends>>
    /\ SpiTransfer => UNCHANGED <<ce, txBusy>>
    /\ SetCe \/ Sleep => UNCHANGED <<regs, flags, rxFifo, txFifo>>
    /\ Sleep => UNCHANGED <<ce, txBusy>>
  BY DEF SpiTransfer, SetCe, Sleep, ioVars

\* The single transactions of nrf_irq and nrf_rx.
LEMMA ReadStep ==
  ASSUME ChipInv, Serving, InStatus \/ InWidth \/ InSent, script # << >>,
         SpiTransfer \/ SetCe \/ Sleep
  PROVE  IInv' /\ PortStep
<1>1. PICK c \in {17, 97, 255} :
        /\ script = <<SpiStep(<<c>>)>>
        /\ c = 17 => InWidth
        /\ c = 97 => InSent
        /\ c = 255 => InStatus
  BY Pieces DEF InStatus, InWidth, InSent
<1>2. SpiTransfer /\ Decode(<<c>>) /\ script' = << >>
  BY <1>1, OneTransaction
<1>3. UNCHANGED <<at, status, arrived, air, queued, sends, ce, txBusy>>
  BY <1>2, ScriptFrame
<1>4. DOMAIN regs = DOMAIN PowerOn
  BY DEF ChipInv
<1>5. /\ UNCHANGED <<regs, flags, txFifo>>
      /\ rxFifo' = rxFifo \/ (rxFifo # << >> /\ rxFifo' = Tail(rxFifo))
      /\ c = 17 => ret' = regs[17][1]
      /\ c = 255 => ret' = StatusByte
  BY <1>2, <1>4, CommandDecoded
<1>6. SetBefore(13)'
  BY <1>4, <1>5, SettingsKept DEF Serving
<1>7. (InStatus \/ InWidth \/ InSent)'
  <2>1. CASE c = 17
    <3>1. regs[17] = <<PAYLOADSZ>>
      BY SettingsDone, Numbers DEF Serving, Configured
    <3>2. InWidth'
      BY <1>1, <1>2, <1>3, <1>5, <2>1, <3>1 DEF InWidth
    <3> QED
      BY <3>2
  <2>2. CASE c = 97
    BY <1>1, <1>2, <1>3, <2>2 DEF InSent
  <2>3. CASE c = 255
    <3>1. StatusByte \in StatusBytes
      BY StatusByteSeen
    <3>2. InStatus'
      BY <1>1, <1>2, <1>3, <1>5, <2>3, <3>1 DEF InStatus, StatusBytes
    <3> QED
      BY <3>2
  <2> QED
    BY <2>1, <2>2, <2>3
<1>8. Serving'
  BY <1>5, <1>6, <1>7 DEF Serving, Reg, CONFIG_PTX, CONFIG_PRX
<1>9. ChipInv'
  <2>1. rxFifo' \in Seq(Int)
    <3>1. rxFifo \in Seq(Int)
      BY DEF ChipInv
    <3>2. rxFifo # << >> => Tail(rxFifo) \in Seq(Int)
      BY <3>1, HeadTailProperties, Zenon
    <3> QED
      BY <1>5, <3>1, <3>2
  <2> QED
    BY <1>3, <1>5, <2>1 DEF ChipInv, PowerOn, Reg, CONFIG_PTX
<1>10. PortStep
  <2>1. CASE rxFifo' = rxFifo
    BY <1>3, <1>5, <2>1, PortSilent DEF ioVars
  <2>2. CASE rxFifo # << >> /\ rxFifo' = Tail(rxFifo)
    BY <1>3, <1>5, <2>2, PortReadPayload
  <2> QED
    BY <1>5, <2>1, <2>2
<1> QED
  BY <1>8, <1>9, <1>10 DEF IInv

\* What holds in the loop wherever the thread is.
Ready == ChipInv /\ SetBefore(13) /\ regs[Reg.CONFIG] \in {CONFIG_PTX, CONFIG_PRX}

\* CE goes low, whatever is under way.
LEMMA CeLowStep ==
  ASSUME Ready, SetCe, ce' = FALSE
  PROVE  Ready' /\ PortStep /\ UNCHANGED <<regs, txBusy>>
<1>1. regs' = regs /\ txBusy' = txBusy /\ UNCHANGED <<flags, rxFifo, txFifo, arrived, air>>
  BY DEF SetCe
<1>2. SetBefore(13)'
  BY <1>1, SettingsKept DEF Ready, ChipInv
<1>3. Ready'
  BY <1>1, <1>2, ScriptFrame DEF Ready, ChipInv, PowerOn, Reg, CONFIG_PTX, CONFIG_PRX
<1>4. PortStep
  BY <1>1, PortCe DEF Ready
<1> QED
  BY <1>1, <1>3, <1>4

\* CE goes high: the chip transmits if it is in that mode and has a payload.
LEMMA CeHighStep ==
  ASSUME Ready, ~ce, SetCe, ce' = TRUE
  PROVE  Ready' /\ PortStep /\ regs' = regs
<1>1. /\ regs' = regs /\ UNCHANGED <<flags, rxFifo, txFifo, arrived, air>>
      /\ txBusy' = (Mode(regs) = "ptx" /\ txFifo # << >>)
  BY DEF SetCe
<1>2. SetBefore(13)'
  BY <1>1, SettingsKept DEF Ready, ChipInv
<1>3. Mode(regs) = "ptx" => regs[Reg.CONFIG] = CONFIG_PTX
  BY ModeOf DEF Ready
<1>4. ChipInv'
  <2>1. txBusy' \in BOOLEAN
    BY <1>1
  <2>2. txBusy' => txFifo # << >> /\ regs[Reg.CONFIG] = CONFIG_PTX
    BY <1>1, <1>3
  <2> QED
    BY <1>1, <2>1, <2>2, ScriptFrame DEF Ready, ChipInv, PowerOn, Reg, CONFIG_PTX
<1>5. Ready'
  BY <1>1, <1>2, <1>4 DEF Ready, Reg, CONFIG_PTX, CONFIG_PRX
<1>6. PortStep
  BY <1>1, PortCe DEF Ready
<1> QED
  BY <1>1, <1>5, <1>6

\* CONFIG is written with CE low: no transmission is under way, or it is
\* transmit mode that is written again.
LEMMA ConfigStep ==
  ASSUME Ready, ~ce, NEW v \in {14, 15}, SpiTransfer, Decode(<<32, v>>), txBusy => v = 14
  PROVE  Ready' /\ PortStep /\ UNCHANGED <<ce, txBusy>> /\ regs'[Reg.CONFIG] = <<v>>
<1>1. DOMAIN regs = DOMAIN PowerOn
  BY DEF Ready, ChipInv
<1>2. 0 \in DOMAIN PowerOn \ {7} /\ Head(<<32, v>>) = 32 + 0 /\ Tail(<<32, v>>) = <<v>>
  BY Addresses
<1>3. regs' = [regs EXCEPT ![0] = <<v>>] /\ UNCHANGED <<flags, rxFifo, txFifo>>
  BY <1>1, <1>2, WriteDecoded
<1>4. UNCHANGED <<ce, txBusy, arrived, air, status, queued, sends>>
  BY ScriptFrame
<1>5. regs'[Reg.CONFIG] = <<v>> /\ DOMAIN regs' = DOMAIN PowerOn
  BY <1>1, <1>2, <1>3, Numbers
<1>6. SetBefore(13)'
  <2>1. \E w : regs' = [regs EXCEPT ![Reg.CONFIG] = w]
    BY <1>3, Numbers
  <2> QED
    BY <1>1, <2>1, SettingsKept DEF Ready
<1>7. regs'[Reg.CONFIG] \in {CONFIG_PTX, CONFIG_PRX} /\ (txBusy => regs'[Reg.CONFIG] = CONFIG_PTX)
  BY <1>5, Numbers
<1>8. Ready'
  BY <1>3, <1>4, <1>5, <1>6, <1>7 DEF Ready, ChipInv, PowerOn, Reg, CONFIG_PTX, CONFIG_PRX
<1>9. PortStep
  <2>1. CASE txBusy
    <3>1. regs[Reg.CONFIG] = <<v>>
      BY <2>1, Numbers DEF Ready, ChipInv
    <3> QED
      BY <1>3, <1>4, <1>5, <3>1, PortSilent DEF ioVars
  <2>2. CASE ~txBusy
    BY <1>3, <1>4, <2>2, PortSetMode DEF ioVars
  <2> QED
    BY <2>1, <2>2
<1> QED
  BY <1>4, <1>5, <1>8, <1>9

\* A sleep lasts until the transmission under way is over.
LEMMA SleepKept ==
  ASSUME Ready, Sleep
  PROVE  Ready' /\ PortStep /\ ~txBusy' /\ UNCHANGED <<regs, ce>>
<1>1. regs' = regs /\ UNCHANGED ioVars /\ ~txBusy
  BY DEF Sleep
<1>2. UNCHANGED <<ce, txBusy, flags, rxFifo, txFifo, arrived, air>>
  BY <1>1 DEF ioVars
<1>3. SetBefore(13)'
  BY <1>1, SettingsKept DEF Ready, ChipInv
<1>4. Ready'
  BY <1>1, <1>2, <1>3, ScriptFrame DEF Ready, ChipInv, PowerOn, Reg, CONFIG_PTX, CONFIG_PRX
<1> QED
  BY <1>1, <1>2, <1>4, PortSilent

\* A payload is written in transmit mode, with CE low.
LEMMA PayloadStep ==
  ASSUME Ready, ~ce, ~txBusy, regs[Reg.CONFIG] = CONFIG_PTX, NEW m \in Int,
         SpiTransfer, Decode(<<160, m>>)
  PROVE  Ready' /\ PortStep /\ UNCHANGED <<regs, ce, txBusy>>
<1>1. regs' = regs /\ txFifo' = Append(txFifo, m) /\ UNCHANGED <<flags, rxFifo>>
  BY PayloadDecoded DEF Ready, ChipInv
<1>2. UNCHANGED <<ce, txBusy, arrived, air, status, queued, sends>>
  BY ScriptFrame
<1>3. SetBefore(13)'
  BY <1>1, SettingsKept DEF Ready, ChipInv
<1>4. txFifo' \in Seq(Int)
  BY <1>1 DEF Ready, ChipInv
<1>5. Ready'
  BY <1>1, <1>2, <1>3, <1>4 DEF Ready, ChipInv, PowerOn, Reg, CONFIG_PTX, CONFIG_PRX
<1>6. Mode(regs) = "ptx"
  BY ModeOf
<1>7. PortStep
  BY <1>1, <1>2, <1>6, PortWritePayload DEF Ready
<1> QED
  BY <1>1, <1>2, <1>5, <1>7

\* The flags that were read are cleared.
LEMMA ClearStep ==
  ASSUME Ready, NEW v, SpiTransfer, Decode(<<39, v>>)
  PROVE  Ready' /\ PortStep /\ UNCHANGED <<regs, ce, txBusy>>
<1>1. regs' = regs /\ flags' = flags \ FlagsIn(v) /\ UNCHANGED <<rxFifo, txFifo>>
  BY StatusDecoded DEF Ready, ChipInv
<1>2. UNCHANGED <<ce, txBusy, arrived, air, status, queued, sends>>
  BY ScriptFrame
<1>3. SetBefore(13)'
  BY <1>1, SettingsKept DEF Ready, ChipInv
<1>4. Ready'
  BY <1>1, <1>2, <1>3 DEF Ready, ChipInv, PowerOn, Reg, CONFIG_PTX, CONFIG_PRX
<1>5. PortStep
  BY <1>1, <1>2, PortClearFlags DEF Ready
<1> QED
  BY <1>1, <1>2, <1>4, <1>5

\* Ready and a place in the loop make up Serving.
LEMMA ReadyIsServing ==
  /\ ChipInv /\ Serving => Ready
  /\ Ready' /\ (InStatus \/ InWidth \/ InSent \/ InCheck \/ InWait)' => IInv'
  BY DEF Ready, Serving, IInv, Reg, CONFIG_PTX, CONFIG_PRX

\* Back to receiving, and the flags cleared.
LEMMA BackToRxStep ==
  ASSUME ChipInv, Serving, InCheck, script # << >>, SpiTransfer \/ SetCe \/ Sleep
  PROVE  IInv' /\ PortStep
<1>1. Ready /\ status \in Int
  BY ReadyIsServing DEF ChipInv
<1>2. at' = "check" /\ status' = status
  BY ScriptFrame DEF InCheck
<1>3. CASE script = nrf_write_reg(Reg.STATUS, status)
  <2>1. SpiTransfer /\ Decode(<<39, status>>) /\ script' = << >>
    BY <1>3, Pieces, OneTransaction
  <2>2. InCheck'
    BY <1>2, <2>1 DEF InCheck
  <2> QED
    BY <1>1, <2>1, <2>2, ClearStep, ReadyIsServing
<1>4. ASSUME NEW k \in 1 .. 5, script = Rest(BackToRx(status), k),
             k > 1 => ~ce, k > 3 => ~txBusy
      PROVE  IInv' /\ PortStep
  <2> DEFINE s == BackToRx(status)
  <2>1. /\ s \in Seq(Steps) /\ Len(s) = 6
        /\ s[1] = CeStep(0) /\ s[2] = SpiStep(<<32, 14>>) /\ s[3] = SleepStep
        /\ s[4] = SpiStep(<<32, 15>>) /\ s[5] = CeStep(1) /\ s[6] = SpiStep(<<39, status>>)
    BY <1>1, BackToRxSteps
  <2> HIDE DEF s
  <2>2. Head(script) = s[k] /\ script' = Rest(s, k + 1)
    <3>1. k \in 1 .. 6 /\ script = Rest(s, k)
      BY <1>4 DEF s
    <3> QED
      BY <2>1, <3>1, LoopNext, WhichStep
  <2>3. ASSUME k # 5, ~ce', k > 2 => ~txBusy'
        PROVE  InCheck'
    <3>1. k + 1 \in 1 .. 5 /\ script' = Rest(BackToRx(status'), k + 1)
      BY <1>2, <2>2, <2>3 DEF s
    <3>2. k + 1 > 1 => ~ce'
      BY <2>3
    <3>3. k + 1 > 3 => ~txBusy'
      BY <2>3
    <3> QED
      BY <1>2, <3>1, <3>2, <3>3 DEF InCheck
  <2>4. CASE k = 1
    <3>1. SetCe /\ ce' = FALSE
      BY <1>4, <2>1, <2>2, <2>4, WhichStep
    <3>2. Ready' /\ PortStep
      BY <1>1, <3>1, CeLowStep
    <3>3. InCheck'
      BY <2>3, <2>4, <3>1
    <3> QED
      BY <3>2, <3>3, ReadyIsServing
  <2>5. CASE k = 2
    <3>1. SpiTransfer /\ Decode(<<32, 14>>)
      BY <1>4, <2>1, <2>2, <2>5, WhichStep
    <3>2. ~ce /\ 14 \in {14, 15}
      BY <1>4, <2>5
    <3>3. Ready' /\ PortStep /\ ce' = ce
      BY <1>1, <3>1, <3>2, ConfigStep
    <3>4. InCheck'
      BY <2>3, <2>5, <3>2, <3>3
    <3> QED
      BY <3>3, <3>4, ReadyIsServing
  <2>6. CASE k = 3
    <3>1. Sleep
      BY <1>4, <2>1, <2>2, <2>6, WhichStep
    <3>2. Ready' /\ PortStep /\ ~txBusy' /\ ce' = ce
      BY <1>1, <3>1, SleepKept
    <3>3. InCheck'
      BY <1>4, <2>3, <2>6, <3>2
    <3> QED
      BY <3>2, <3>3, ReadyIsServing
  <2>7. CASE k = 4
    <3>1. SpiTransfer /\ Decode(<<32, 15>>)
      BY <1>4, <2>1, <2>2, <2>7, WhichStep
    <3>2. ~ce /\ ~txBusy /\ 15 \in {14, 15}
      BY <1>4, <2>7
    <3>3. Ready' /\ PortStep /\ ce' = ce /\ txBusy' = txBusy
      BY <1>1, <3>1, <3>2, ConfigStep
    <3>4. InCheck'
      BY <2>3, <2>7, <3>2, <3>3
    <3> QED
      BY <3>3, <3>4, ReadyIsServing
  <2>8. CASE k = 5
    <3>1. SetCe /\ ce' = TRUE
      BY <1>4, <2>1, <2>2, <2>8, WhichStep
    <3>2. Ready' /\ PortStep
      BY <1>1, <1>4, <2>8, <3>1, CeHighStep
    <3>3. script' = nrf_write_reg(Reg.STATUS, status)
      <4>1. Rest(s, 6) = <<s[6]>>
        <5>1. PICK t : t = Rest(s, 6)
          OBVIOUS
        <5>2. t = SubSeq(s, 6, 6) /\ \A i \in 6 .. 6 : s[i] \in Steps
          <6>1. s[6] \in Steps
            <7>1. s \in [1 .. Len(s) -> Steps]
              BY <2>1, LenProperties, Zenon
            <7>2. 6 \in 1 .. Len(s)
              BY <2>1
            <7> QED
              BY <7>1, <7>2
          <6>2. \A i \in 6 .. 6 : i = 6
            OBVIOUS
          <6> QED
            BY <2>1, <5>1, <6>1, <6>2 DEF Rest
        <5>3. t \in Seq(Steps) /\ Len(t) = 1 /\ t[1] = s[6]
          BY <5>2, SubSeqProperties
        <5>4. t = <<s[6]>>
          BY <5>3
        <5> QED
          BY <5>1, <5>4
      <4> QED
        BY <2>1, <2>2, <2>8, <4>1, Pieces
    <3>4. InCheck'
      BY <1>2, <3>3 DEF InCheck, nrf_write_reg, Spi, Reg, Cmd
    <3> QED
      BY <3>2, <3>4, ReadyIsServing
  <2> QED
    BY <2>4, <2>5, <2>6, <2>7, <2>8
<1> QED
  BY <1>3, <1>4 DEF InCheck

\* On to a transmission.
LEMMA OnToTxStep ==
  ASSUME ChipInv, Serving, InWait, script # << >>, SpiTransfer \/ SetCe \/ Sleep
  PROVE  IInv' /\ PortStep
<1>1. Ready /\ at' = "wait"
  BY ReadyIsServing, ScriptFrame DEF InWait
<1>2. PICK k \in 1 .. 6, m \in 1 .. MaxSend :
        /\ script = Rest(OnToTx(m), k)
        /\ k > 1 => ~ce
        /\ k > 3 => ~txBusy
        /\ k = 5 => regs[Reg.CONFIG] = CONFIG_PTX
  BY DEF InWait
<1> DEFINE s == OnToTx(m)
<1>3. m \in Int
  OBVIOUS
<1>4. /\ s \in Seq(Steps) /\ Len(s) = 6
      /\ s[1] = CeStep(0) /\ s[2] = SpiStep(<<32, 14>>) /\ s[3] = SleepStep
      /\ s[4] = SpiStep(<<32, 14>>) /\ s[5] = SpiStep(<<160, m>>) /\ s[6] = CeStep(1)
  BY <1>3, OnToTxSteps
<1>5. script = Rest(s, k)
  BY <1>2
<1> HIDE DEF s
<1>6. Head(script) = s[k] /\ script' = Rest(s, k + 1) /\ Rest(s, 7) = << >>
  BY <1>4, <1>5, LoopNext, WhichStep
<1>7. ASSUME k # 6, ~ce', k > 2 => ~txBusy', k = 4 => regs'[Reg.CONFIG] = CONFIG_PTX
      PROVE  InWait'
  <2>1. k + 1 \in 1 .. 6 /\ script' = Rest(OnToTx(m), k + 1)
    BY <1>6, <1>7 DEF s
  <2>2. (k + 1 > 1 => ~ce') /\ (k + 1 > 3 => ~txBusy')
    BY <1>7
  <2>3. k + 1 = 5 => regs'[Reg.CONFIG] = CONFIG_PTX
    BY <1>7
  <2> QED
    BY <1>1, <2>1, <2>2, <2>3 DEF InWait, Reg, CONFIG_PTX
<1>8. CASE k = 1
  <2>1. SetCe /\ ce' = FALSE
    BY <1>4, <1>6, <1>8, WhichStep
  <2>2. Ready' /\ PortStep
    BY <1>1, <2>1, CeLowStep
  <2>3. InWait'
    BY <1>7, <1>8, <2>1
  <2> QED
    BY <2>2, <2>3, ReadyIsServing
<1>9. CASE k \in {2, 4}
  <2>1. SpiTransfer /\ Decode(<<32, 14>>)
    BY <1>4, <1>6, <1>9, WhichStep
  <2>2. ~ce /\ (k = 4 => ~txBusy) /\ 14 \in {14, 15}
    BY <1>2, <1>9
  <2>3. Ready' /\ PortStep /\ ce' = ce /\ txBusy' = txBusy /\ regs'[Reg.CONFIG] = <<14>>
    BY <1>1, <2>1, <2>2, ConfigStep
  <2>4. InWait'
    BY <1>7, <1>9, <2>2, <2>3, Numbers
  <2> QED
    BY <2>3, <2>4, ReadyIsServing
<1>10. CASE k = 3
  <2>1. Sleep
    BY <1>4, <1>6, <1>10, WhichStep
  <2>2. Ready' /\ PortStep /\ ~txBusy' /\ ce' = ce
    BY <1>1, <2>1, SleepKept
  <2>3. InWait'
    BY <1>2, <1>7, <1>10, <2>2
  <2> QED
    BY <2>2, <2>3, ReadyIsServing
<1>11. CASE k = 5
  <2>1. SpiTransfer /\ Decode(<<160, m>>)
    BY <1>4, <1>6, <1>11, WhichStep
  <2>2. ~ce /\ ~txBusy /\ regs[Reg.CONFIG] = CONFIG_PTX
    BY <1>2, <1>11
  <2>3. Ready' /\ PortStep /\ ce' = ce /\ txBusy' = txBusy
    BY <1>1, <1>3, <2>1, <2>2, PayloadStep
  <2>4. InWait'
    BY <1>7, <1>11, <2>2, <2>3
  <2> QED
    BY <2>3, <2>4, ReadyIsServing
<1>12. CASE k = 6
  <2>1. SetCe /\ ce' = TRUE /\ script' = << >>
    <3>1. SetCe /\ ce' = TRUE
      BY <1>4, <1>6, <1>12, WhichStep
    <3>2. script' = << >>
      BY <1>6, <1>12
    <3> QED
      BY <3>1, <3>2
  <2>2. Ready' /\ PortStep
    BY <1>1, <1>2, <1>12, <2>1, CeHighStep
  <2>3. InWait'
    BY <1>1, <2>1 DEF InWait
  <2> QED
    BY <2>2, <2>3, ReadyIsServing
<1> QED
  BY <1>8, <1>9, <1>10, <1>11, <1>12

\* From one place in the loop to the next nothing happens to the chip.
LEMMA PlaceStep ==
  ASSUME Ready, UNCHANGED <<regs, ioVars, sends>>, status' \in Int, queued' \in 0 .. sends
  PROVE  Ready' /\ PortStep
<1>1. UNCHANGED <<ce, flags, rxFifo, txFifo, txBusy, arrived, air>>
  BY DEF ioVars
<1>2. SetBefore(13)'
  BY SettingsKept DEF Ready, ChipInv
<1>3. Ready'
  BY <1>1, <1>2 DEF Ready, ChipInv, PowerOn, Reg, CONFIG_PTX, CONFIG_PRX
<1> QED
  BY <1>3, PortSilent

\* WaitEvent, HaveStatus, HavePipe and HaveWidth: the thread reads.
LEMMA ReadPlaces ==
  ASSUME ChipInv, Serving, WaitEvent \/ HaveStatus \/ HavePipe \/ HaveWidth
  PROVE  IInv' /\ PortStep
<1>1. UNCHANGED <<regs, ioVars, ret, sends, queued>> /\ script = << >>
  BY DEF WaitEvent, HaveStatus, HavePipe, HaveWidth, Go
<1>2. nrf_get_status # << >> /\ nrf_read_payload # << >> /\ nrf_read_reg(Reg.RX_PW_P0) # << >>
  BY Pieces
<1>3. status' \in Int /\ (InStatus \/ InWidth \/ InSent)'
  <2>1. CASE WaitEvent
    <3>1. InStatus'
      BY <2>1 DEF WaitEvent, Go, InStatus, nrf_get_status, Spi, Cmd, StatusBytes
    <3> QED
      BY <2>1, <3>1 DEF WaitEvent, ChipInv
  <2>2. CASE HaveStatus
    <3>1. ret \in StatusBytes /\ status' = ret
      BY <1>1, <1>2, <2>2 DEF HaveStatus, Go, Serving, InStatus, InWidth, InSent, InCheck, InWait
    <3>2. \/ at' = "pipe" /\ script' = nrf_get_status
          \/ at' = "sent" /\ script' = << >>
      BY <2>2 DEF HaveStatus, Go
    <3>3. (InStatus \/ InSent)'
      BY <3>2 DEF InStatus, InSent, nrf_get_status, nrf_read_payload, Spi, Cmd, StatusBytes
    <3> QED
      BY <3>1, <3>3, PipeOf
  <2>3. CASE HavePipe
    <3>1. ret \in StatusBytes
      BY <1>1, <1>2, <2>3 DEF HavePipe, Go, Serving, InStatus, InWidth, InSent, InCheck, InWait
    <3>2. (ret \div 2) % 8 \in {0, 7}
      BY <3>1, PipeOf
    <3>3. \/ at' = "sent" /\ script' = << >>
          \/ at' = "width" /\ script' = nrf_read_reg(Reg.RX_PW_P0)
      <4>1. CASE (ret \div 2) % 8 = 7
        BY <2>3, <4>1 DEF HavePipe, Go
      <4>2. CASE (ret \div 2) % 8 = 0
        <5>1. Reg.RX_PW_P0 + 0 = Reg.RX_PW_P0
          BY Numbers
        <5> QED
          BY <2>3, <4>2, <5>1 DEF HavePipe, Go
      <4> QED
        BY <3>2, <4>1, <4>2
    <3>4. (InSent \/ InWidth)'
      BY <3>3 DEF InSent, InWidth, nrf_read_reg, nrf_read_payload, Spi, Cmd, Reg
    <3> QED
      BY <2>3, <3>4 DEF HavePipe, ChipInv
  <2>4. CASE HaveWidth
    <3>1. ret = PAYLOADSZ
      BY <1>1, <1>2, <2>4 DEF HaveWidth, Go, Serving, InStatus, InWidth, InSent, InCheck, InWait
    <3>2. at' = "sent" /\ script' = nrf_read_payload
      BY <2>4, <3>1 DEF HaveWidth, Go
    <3>3. InSent'
      BY <3>2 DEF InSent, nrf_read_payload, Spi, Cmd
    <3> QED
      BY <2>4, <3>3 DEF HaveWidth, ChipInv
  <2> QED
    BY <2>1, <2>2, <2>3, <2>4
<1>4. queued' \in 0 .. sends
  BY <1>1 DEF ChipInv
<1> QED
  BY <1>1, <1>3, <1>4, PlaceStep, ReadyIsServing

\* AfterRx and CheckTx: the two scripts of the loop begin.
LEMMA WritePlaces ==
  ASSUME ChipInv, Serving, AfterRx \/ CheckTx
  PROVE  IInv' /\ PortStep
<1>1. UNCHANGED <<regs, ioVars, sends>> /\ Ready
  BY ReadyIsServing DEF AfterRx, CheckTx, Go
<1>2. CASE AfterRx
  <2>1. at' = "check" /\ status' = status /\ queued' = queued /\ status \in Int
    BY <1>2 DEF AfterRx, Go, ChipInv
  <2>2. nrf_write_reg(Reg.STATUS, status) \in Seq(Steps)
    <3>1. SpiStep(<<39, status>>) \in Steps
      <4>1. 39 \in Int
        OBVIOUS
      <4> QED
        BY <2>1, <4>1, StepTypes, Zenon
    <3>2. <<SpiStep(<<39, status>>)>> \in Seq(Steps)
      BY <3>1
    <3> QED
      BY <3>2, Pieces
  <2>3. script' = BackToRx(status) \/ script' = nrf_write_reg(Reg.STATUS, status)
    <3>1. << >> \o nrf_write_reg(Reg.STATUS, status) = nrf_write_reg(Reg.STATUS, status)
      BY <2>2, ConcatEmptySeq
    <3>2. \/ script' = nrf_standby \o nrf_rx_mode \o nrf_write_reg(Reg.STATUS, status)
          \/ script' = << >> \o nrf_write_reg(Reg.STATUS, status)
      BY <1>2, Zenon DEF AfterRx, Go, TxDone
    <3> QED
      BY <3>1, <3>2, Zenon DEF BackToRx
  <2>4. InCheck'
    <3>1. CASE script' = BackToRx(status)
      <4>1. Rest(BackToRx(status), 1) = BackToRx(status)
        BY <2>1, BackToRxSteps, RestEnds
      <4>2. 1 \in 1 .. 5 /\ script' = Rest(BackToRx(status'), 1) /\ ~(1 > 1) /\ ~(1 > 3)
        BY <2>1, <3>1, <4>1
      <4> QED
        BY <2>1, <4>2 DEF InCheck
    <3>2. CASE script' = nrf_write_reg(Reg.STATUS, status)
      BY <2>1, <3>2 DEF InCheck, nrf_write_reg, Spi, Reg, Cmd
    <3> QED
      BY <2>3, <3>1, <3>2
  <2>5. queued' \in 0 .. sends /\ status' \in Int
    BY <2>1 DEF ChipInv
  <2> QED
    BY <1>1, <2>4, <2>5, PlaceStep, ReadyIsServing
<1>3. CASE CheckTx
  <2>1. at' = "wait" /\ status' = 0
    BY <1>3 DEF CheckTx, Go
  <2>2. CASE queued > 0
    <3>1. PICK m : m = sends - queued + 1
      OBVIOUS
    <3>2. m \in 1 .. MaxSend /\ m \in Int /\ queued - 1 \in 0 .. sends
      BY <2>2, <3>1, SpiAssumption DEF ChipInv
    <3>3. script' = OnToTx(m) /\ queued' = queued - 1
      BY <1>3, <2>2, <3>1 DEF CheckTx, Go, OnToTx
    <3>4. Rest(OnToTx(m), 1) = OnToTx(m)
      BY <3>2, OnToTxSteps, RestEnds
    <3>5. 1 \in 1 .. 6 /\ script' = Rest(OnToTx(m), 1) /\ ~(1 > 1) /\ ~(1 > 3) /\ 1 # 5
      BY <3>3, <3>4
    <3>6. InWait'
      BY <2>1, <3>2, <3>5 DEF InWait
    <3>7. queued' \in 0 .. sends /\ status' \in Int
      BY <2>1, <3>2, <3>3
    <3> QED
      BY <1>1, <3>6, <3>7, PlaceStep, ReadyIsServing
  <2>3. CASE ~(queued > 0)
    <3>1. script' = << >> /\ queued' = queued
      BY <1>3, <2>3 DEF CheckTx, Go
    <3>2. InWait'
      BY <2>1, <3>1 DEF InWait
    <3>3. queued' \in 0 .. sends /\ status' \in Int
      BY <2>1, <3>1 DEF ChipInv
    <3> QED
      BY <1>1, <3>2, <3>3, PlaceStep, ReadyIsServing
  <2> QED
    BY <2>2, <2>3
<1> QED
  BY <1>2, <1>3
-----------------------------------------------------------------------------
(* Other threads and the chip.                                             *)

\* nrf_send, at any time.
LEMMA SendStep == IInv /\ Send => IInv' /\ PortStep
<1> SUFFICES ASSUME IInv, Send PROVE IInv' /\ PortStep
  OBVIOUS
<1>1. /\ UNCHANGED <<regs, ioVars, at, script, ret, status>>
      /\ sends' = sends + 1 /\ queued' = queued + 1 /\ sends < MaxSend
  BY DEF Send
<1>2. UNCHANGED <<ce, flags, rxFifo, txFifo, txBusy, arrived, air>>
  BY <1>1 DEF ioVars
<1>3. ChipInv'
  <2>1. sends' \in 0 .. MaxSend /\ queued' \in 0 .. sends'
    BY <1>1, SpiAssumption DEF IInv, ChipInv
  <2> QED
    BY <1>1, <1>2, <2>1 DEF IInv, ChipInv, PowerOn, Reg, CONFIG_PTX
<1>4. (Booting \/ Serving)'
  <2>1. CASE Booting
    <3>1. PICK k \in 1 .. 20 :
            /\ script = Rest(BootScript, k) /\ SetBefore(k)
            /\ k \in 3 .. 17 => regs[Reg.CONFIG] = <<0>>
            /\ k \in {18, 19} => regs[Reg.CONFIG] = CONFIG_PTX
            /\ k = 20 => regs[Reg.CONFIG] = CONFIG_PRX
      BY <2>1 DEF Booting
    <3>2. SetBefore(k)'
      BY <1>1, <3>1, SettingsKept DEF IInv, ChipInv
    <3>3. at' = "wait" /\ ~ce' /\ ~txBusy'
      BY <1>1, <1>2, <2>1 DEF Booting
    <3> QED
      BY <1>1, <3>1, <3>2, <3>3, StillBooting
  <2>2. CASE Serving
    BY <1>1, <1>2, <2>2, ServingKept DEF IInv
  <2> QED
    BY <2>1, <2>2 DEF IInv
<1>5. PortStep
  BY <1>1, PortSilent
<1> QED
  BY <1>3, <1>4, <1>5 DEF IInv

\* The chip hears a packet only in receive mode, once the start is over.
LEMMA HearStep == IInv /\ Hear => IInv' /\ PortStep
<1> SUFFICES ASSUME IInv, Hear PROVE IInv' /\ PortStep
  OBVIOUS
<1>1. /\ Mode(regs) = "prx" /\ ce /\ arrived < MaxPackets /\ arrived' = arrived + 1
      /\ IF Len(rxFifo) < RxFifoSize
           THEN rxFifo' = Append(rxFifo, arrived + 1) /\ flags' = flags \union {"RX_DR"}
           ELSE UNCHANGED <<rxFifo, flags>>
      /\ UNCHANGED <<regs, ce, txFifo, txBusy, air>>
      /\ UNCHANGED <<at, script, ret, status, queued, sends>>
  BY DEF Hear, driverVars
<1>2. ChipInv'
  <2>1. arrived' \in Nat /\ rxFifo' \in Seq(Int) /\ flags' \subseteq {"RX_DR", "TX_DS"}
    <3>1. arrived' \in Nat /\ arrived + 1 \in Int /\ rxFifo \in Seq(Int)
      BY <1>1 DEF IInv, ChipInv
    <3>2. rxFifo' \in Seq(Int)
      <4>1. Append(rxFifo, arrived + 1) \in Seq(Int)
        BY <3>1, AppendProperties
      <4> QED
        BY <1>1, <3>1, <4>1
    <3>3. flags' \subseteq {"RX_DR", "TX_DS"}
      BY <1>1 DEF IInv, ChipInv
    <3> QED
      BY <3>1, <3>2, <3>3
  <2> QED
    BY <1>1, <2>1 DEF IInv, ChipInv, PowerOn, Reg, CONFIG_PTX
<1>3. Serving'
  BY <1>1, ServingKept DEF IInv, Booting
<1>4. PortStep
  <2>1. Mode(regs)' = Mode(regs) /\ Halves(txFifo)' = Halves(txFifo) /\ Halves(air)' = Halves(air)
    BY <1>1, ModeNext DEF Halves
  <2>2. Port!Receive
    BY <1>1, <2>1 DEF Port!Receive, Port!Listening
  <2> QED
    BY <2>2 DEF PortStep, Port!PortNext
<1> QED
  BY <1>2, <1>3, <1>4 DEF IInv

\* Auto-acknowledge being off, a transmission ends with its payload sent.
LEMMA TransmittedStep == IInv /\ Transmitted => IInv' /\ PortStep
<1> SUFFICES ASSUME IInv, Transmitted PROVE IInv' /\ PortStep
  OBVIOUS
<1>1. ChipInv /\ Serving /\ txFifo # << >> /\ txFifo \in Seq(Int) /\ air \in Seq(Int)
  BY DEF IInv, ChipInv, Booting, Transmitted
<1>2. ~Bit(regs[Reg.EN_AA][1], 1)
  <2>1. regs[Reg.EN_AA] = <<0>>
    BY <1>1, SettingsDone DEF Serving, Configured
  <2> QED
    BY <2>1 DEF Bit
<1>3. /\ txBusy /\ txBusy' = FALSE /\ flags' = flags \union {"TX_DS"}
      /\ txFifo' = Tail(txFifo) /\ air' = Append(air, Head(txFifo))
      /\ UNCHANGED <<regs, ce, rxFifo, arrived, at, script, ret, status, queued, sends>>
  BY <1>2 DEF Transmitted, driverVars
<1>4. txFifo' \in Seq(Int) /\ air' \in Seq(Int) /\ Head(txFifo) \in Int
  <2>1. Tail(txFifo) \in Seq(Int) /\ Head(txFifo) \in Int
    BY <1>1, HeadTailProperties, Zenon
  <2> QED
    BY <1>1, <1>3, <2>1
<1>5. ChipInv'
  BY <1>1, <1>3, <1>4 DEF ChipInv, PowerOn, Reg
<1>6. Serving'
  BY <1>1, <1>3, ServingKept
<1>7. PortStep
  <2>1. /\ Mode(regs)' = Mode(regs) /\ Halves(txFifo)' = Halves(txFifo')
        /\ Halves(air)' = Halves(air')
    BY <1>3, ModeNext DEF Halves
  <2>2. /\ Halves(Tail(txFifo)) = Tail(Halves(txFifo))
        /\ Head(Halves(txFifo)) = <<Head(txFifo), Head(txFifo)>>
    BY <1>1, <1>4, HalvesFacts
  <2>3. Halves(Append(air, Head(txFifo))) = Append(Halves(air), <<Head(txFifo), Head(txFifo)>>)
    BY <1>1, <1>4, HalvesFacts
  <2>4. /\ Halves(txFifo)' = Tail(Halves(txFifo))
        /\ Halves(air)' = Append(Halves(air), Head(Halves(txFifo)))
    BY <1>3, <2>1, <2>2, <2>3
  <2>5. Port!TransmitDone
    BY <1>3, <2>1, <2>4 DEF Port!TransmitDone
  <2> QED
    BY <2>5 DEF PortStep, Port!PortNext
<1> QED
  BY <1>5, <1>6, <1>7 DEF IInv
-----------------------------------------------------------------------------
(* The theorems.                                                           *)

\* The chip may hold anything at the start, but CE is low.
LEMMA InitStep == Init => IInv
<1> SUFFICES ASSUME Init PROVE IInv
  OBVIOUS
<1>1. DOMAIN regs = DOMAIN PowerOn
  BY DEF Init, Leftovers, Foreign
<1>2. rxFifo \in Seq(Int) /\ txFifo \in Seq(Int) /\ air \in Seq(Int)
  <2>1. << >> \in Seq(Int) /\ <<0>> \in Seq(Int)
    OBVIOUS
  <2> QED
    BY <2>1 DEF Init
<1>3. sends = 0 /\ queued = 0 /\ status = 0 /\ arrived = 0 /\ txBusy = FALSE /\ ce = FALSE
      /\ flags \subseteq {"RX_DR", "TX_DS"}
  BY DEF Init
<1>4. ChipInv
  <2>1. sends \in 0 .. MaxSend /\ queued \in 0 .. sends /\ status \in Int /\ arrived \in Nat
    BY <1>3, SpiAssumption
  <2>2. ce \in BOOLEAN /\ txBusy \in BOOLEAN /\ ~txBusy
    BY <1>3
  <2> QED
    BY <1>1, <1>2, <1>3, <2>1, <2>2 DEF ChipInv
<1>5. Booting
  <2>1. script = Rest(BootScript, 1)
    BY BootSteps, RestEnds DEF Init
  <2>2. SetBefore(1)
    BY DEF SetBefore
  <2>3. at = "wait" /\ ~ce /\ ~txBusy /\ 1 \in 1 .. 20
    BY DEF Init
  <2> QED
    BY <2>1, <2>2, <2>3 DEF Booting
<1> QED
  BY <1>4, <1>5 DEF IInv

\* Every step keeps the invariant and is one of RadioPort's, or none of them.
LEMMA AnyStep == IInv /\ [Next]_vars => IInv' /\ PortStep
<1> SUFFICES ASSUME IInv, [Next]_vars PROVE IInv' /\ PortStep
  OBVIOUS
<1>1. CASE SpiTransfer \/ SetCe \/ Sleep
  <2>1. script # << >>
    BY <1>1 DEF SpiTransfer, SetCe, Sleep, NextOp
  <2>2. CASE Booting
    BY <1>1, <2>2, BootStep DEF IInv
  <2>3. CASE Serving
    BY <1>1, <2>1, <2>3, ReadStep, BackToRxStep, OnToTxStep DEF IInv, Serving
  <2> QED
    BY <2>2, <2>3 DEF IInv
<1>2. CASE WaitEvent \/ HaveStatus \/ HavePipe \/ HaveWidth \/ AfterRx \/ CheckTx
  <2>1. script = << >>
    BY <1>2 DEF WaitEvent, HaveStatus, HavePipe, HaveWidth, AfterRx, CheckTx, Go
  <2>2. ChipInv /\ Serving
    BY <2>1, BootNext DEF IInv, Booting
  <2> QED
    BY <1>2, <2>2, ReadPlaces, WritePlaces
<1>3. CASE Send \/ Hear \/ Transmitted
  BY <1>3, SendStep, HearStep, TransmittedStep
<1>4. CASE UNCHANGED vars
  <2>1. UNCHANGED <<regs, ioVars, at, script, ret, status, queued, sends>>
    BY <1>4 DEF vars, driverVars
  <2>2. UNCHANGED <<ce, flags, rxFifo, txFifo, txBusy, arrived, air>>
    BY <2>1 DEF ioVars
  <2>3. ChipInv'
    BY <2>1, <2>2 DEF IInv, ChipInv, PowerOn, Reg, CONFIG_PTX
  <2>4. (Booting \/ Serving)'
    BY <2>1, <2>2 DEF IInv, Booting, Serving, SetBefore, InStatus, InWidth, InSent, InCheck,
      InWait
  <2> QED
    BY <2>1, <2>3, <2>4, PortSilent DEF IInv
<1> QED
  BY <1>1, <1>2, <1>3, <1>4 DEF Next

\* Where the thread is in its scripts says what the chip has been told.
THEOREM Inductive == Spec => []IInv
  BY InitStep, AnyStep, PTL DEF Spec

\* The chip listens or transmits only as the driver configures it, whatever
\* its registers held when the firmware started.
THEOREM NeverMisconfigured == Spec => []OnAirConfigured
<1>1. IInv => OnAirConfigured
  BY SettingsDone DEF IInv, Booting, Serving, OnAirConfigured
<1> QED
  BY Inductive, <1>1, PTL

\* The SPI traffic of the driver amounts to the operations of RadioPort, which
\* are those module NrfRadio is built on.
THEOREM TrafficIsPort == Spec => ImplementsPort
<1>1. Init => Port!PortInit
  <2> SUFFICES ASSUME Init PROVE Port!PortInit
    OBVIOUS
  <2>1. Halves(<<0>>) = << <<0, 0>> >>
    BY DEF Halves
  <2>2. Halves(txFifo) \in {<< >>, << <<0, 0>> >>} /\ Halves(air) = << >>
    BY <2>1, HalvesEmpty DEF Init
  <2> QED
    BY <2>2, ModeOf DEF Init, Port!PortInit, Port!ChipInit, Port!Flags
<1>2. IInv /\ [Next]_vars => [Port!PortNext]_(Port!chipVars)
  BY AnyStep DEF PortStep
<1> QED
  BY <1>1, <1>2, Inductive, PTL DEF Spec, ImplementsPort, Port!PortSpec
=============================================================================
