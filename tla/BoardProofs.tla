---------------------------- MODULE BoardProofs ----------------------------
(***************************************************************************)
(* Safety of the board: from reset to the console, through any resets, for *)
(* any size of the heap; and its lights, which module Blink follows in     *)
(* time.  The two have no variable in common: LightsSpec speaks of the     *)
(* lights, ConsoleSpec of the rest.                                        *)
(***************************************************************************)
EXTENDS Console, Blink, TLAPS

\* Main leaves behind what it initialises; threads are those it has created.
MainInv ==
  /\ at \in 1 .. 14
  /\ \A i \in 1 .. 13 : i < at => Held(Order[i]) \subseteq ready
  /\ \A t \in threads : \E i \in 1 .. 13 : i < at /\ t \in Created(Order[i])

\* nrf_radio is created in place 5 of Order.  Before it listens the chip raises
\* no flag.  From then on a flag that is set has an event pending or was missed,
\* unless nrf_irq has seen it or another and is about to clear what it saw.
RadioInv ==
  /\ radio \in {"none", "created", "setup", "standby", "wait", "irq", "check"}
  /\ kick \in BOOLEAN /\ missed \in BOOLEAN
  /\ radio # "none" => at > 5
  /\ radio = "standby" => flags = {}
  /\ radio \in {"wait", "check"} \/ (radio = "irq" /\ saw = {}) =>
       (flags # {} => kick \/ missed)

\* The shell is made when main polls.
ShellInv == th # "none" => at = 14

IInv == MainInv /\ RadioInv /\ ShellInv /\ InitBeforeUse
-----------------------------------------------------------------------------
(* What Order says of a place in it.                                       *)

\* The length of Order and what stands in each of its places.
LEMMA Places ==
  /\ Len(Order) = 14
  /\ Order[1] = "blink_init" /\ Order[2] = "usb_init" /\ Order[3] = "usb_up"
  /\ Order[4] = "console_init" /\ Order[5] = "nrf_init" /\ Order[6] = "nrf_th"
  /\ Order[7] = "extStart" /\ Order[8] = "data_init" /\ Order[9] = "hello"
  /\ Order[10] = "services" /\ Order[11] = "httpd_init" /\ Order[12] = "rawd_init"
  /\ Order[13] = "rawd_push_th" /\ Order[14] = "poll"
  BY DEF Order

\* Past tells whether main has done extStart, or usb_up.
LEMMA PastPlaces ==
  ASSUME at \in 1 .. 14
  PROVE  /\ Past("extStart") <=> at > 7
         /\ Past("usb_up") <=> at > 3
<1>1. SelectInSeq(Order, LAMBDA o : o = "extStart") = 7
  <2>1. {i \in 1 .. Len(Order) : Order[i] = "extStart"} = {7}
    BY Places
  <2>2. Min({7}) = 7
    BY DEF Min
  <2> QED
    BY <2>1, <2>2 DEF SelectInSeq
<1>2. SelectInSeq(Order, LAMBDA o : o = "usb_up") = 3
  <2>1. {i \in 1 .. Len(Order) : Order[i] = "usb_up"} = {3}
    BY Places
  <2>2. Min({3}) = 3
    BY DEF Min
  <2> QED
    BY <2>1, <2>2 DEF SelectInSeq
<1> QED
  BY <1>1, <1>2 DEF Past

\* What main is about to do, and when it sleeps.
LEMMA OpPlaces ==
  ASSUME at \in 1 .. 14
  PROVE  /\ Op = "nrf_init" <=> at = 5
         /\ Op = "nrf_th" <=> at = 6
         /\ Op = "poll" <=> at = 14
         /\ Asleep => at \in {3, 9, 14}
<1>1. at \in {1, 2, 3, 4, 5, 6, 7, 8, 9, 10, 11, 12, 13, 14}
  BY SMT
<1> QED
  BY <1>1, Places DEF Op, Asleep

\* The objects that are initialised by the time main is past their place.
LEMMA WhatIsReady ==
  ASSUME MainInv
  PROVE  /\ at > 1 => "blinks" \in ready
         /\ at > 2 => "SDU1" \in ready
         /\ at > 4 => "shell_cfg" \in ready
         /\ at > 5 => "mailboxes" \in ready /\ "spi" \in ready
         /\ at > 6 => "nrf.th" \in ready
         /\ at > 8 => "data_mutex" \in ready
         /\ at > 10 => "tcpip" \in ready
         /\ at > 12 => "rawd_mutex" \in ready
<1>1. \A i \in 1 .. 13 : at > i => Held(Order[i]) \subseteq ready
  BY DEF MainInv
<1>2. /\ Held("blink_init") = {"blinks"} /\ Held("usb_init") = {"SDU1"}
      /\ Held("console_init") = {"shell_cfg"} /\ Held("nrf_init") = {"mailboxes", "spi"}
      /\ Held("nrf_th") = {"nrf.th"} /\ Held("data_init") = {"data_mutex"}
      /\ Held("services") = {"tcpip"} /\ Held("rawd_init") = {"rawd_mutex"}
  BY DEF Held
<1> QED
  BY <1>1, <1>2, Places

\* Where main is when a thread exists.
LEMMA WhereCreated ==
  ASSUME MainInv
  PROVE  /\ "data_rx" \in threads => at > 8
         /\ "data_clean" \in threads => at > 8
         /\ "heartbeat" \in threads => at > 10
         /\ "httpd" \in threads => at > 11
         /\ "rawd" \in threads => at > 12
         /\ "rawd_push" \in threads => at > 13
<1>1. \A i \in 1 .. 13 : i \in {1, 2, 3, 4, 5, 6, 7, 8, 9, 10, 11, 12, 13}
  BY SMT
<1>2. \A i \in 1 .. 13 :
        /\ "data_rx" \in Created(Order[i]) => i = 8
        /\ "data_clean" \in Created(Order[i]) => i = 8
        /\ "heartbeat" \in Created(Order[i]) => i = 10
        /\ "httpd" \in Created(Order[i]) => i = 11
        /\ "rawd" \in Created(Order[i]) => i = 12
        /\ "rawd_push" \in Created(Order[i]) => i = 13
  BY <1>1, Places DEF Created
<1> QED
  BY <1>2 DEF MainInv
-----------------------------------------------------------------------------
(* A step that leaves a part of the state alone keeps what is said of it.  *)

\* Main's place, what it has initialised and what it has created.
LEMMA MainKept ==
  MainInv /\ UNCHANGED <<at, ready, threads>> => MainInv'
  BY DEF MainInv

\* The radio, its chip, the pending event and main's place.
LEMMA RadioKept ==
  RadioInv /\ UNCHANGED <<at, radio, flags, saw, kick, missed>> => RadioInv'
  BY DEF RadioInv

\* The shell and main's place.
LEMMA ShellKept ==
  ShellInv /\ UNCHANGED <<at, consoleVars>> => ShellInv'
  BY DEF ShellInv, consoleVars, shellVars

\* A step that only uses objects that are ready leaves early as it was.
LEMMA ReadyUse ==
  ASSUME NEW t, NEW objects, objects \subseteq ready, InitBeforeUse, Use(t, objects)
  PROVE  InitBeforeUse'
  BY DEF InitBeforeUse, Use
-----------------------------------------------------------------------------
(* The steps of the board.                                                 *)

\* Main initialises and creates in order; nrf_radio begins in place 5.
LEMMA MainStep == IInv /\ Main /\ UNCHANGED consoleVars => IInv'
<1> SUFFICES ASSUME IInv, Main, UNCHANGED consoleVars PROVE IInv'
  OBVIOUS
<1>1. at \in 1 .. 13 /\ at' = at + 1 /\ at' \in 1 .. 14
  BY Places DEF IInv, MainInv, Main
<1>2. \A i \in 1 .. 13 : i < at' => i < at \/ i = at
  BY <1>1
<1>3. MainInv'
  <2>1. \A i \in 1 .. 13 : i < at' => Held(Order[i]) \subseteq ready'
    BY <1>2 DEF IInv, MainInv, Main, Op
  <2>2. \A t \in threads' : \E i \in 1 .. 13 : i < at' /\ t \in Created(Order[i])
    <3> TAKE t \in threads'
    <3>1. CASE t \in threads
      BY <3>1, <1>1 DEF IInv, MainInv
    <3>2. CASE t \in Created(Op)
      BY <3>2, <1>1 DEF Op
    <3> QED
      BY <3>1, <3>2 DEF Main
  <2> QED
    BY <1>1, <2>1, <2>2 DEF MainInv, Held, Created
<1>4. RadioInv'
  BY <1>1, OpPlaces DEF IInv, RadioInv, Main, chipVars, eventVars
<1>5. ShellInv'
  BY <1>1 DEF IInv, ShellInv, consoleVars, shellVars
<1>6. InitBeforeUse'
  BY DEF IInv, InitBeforeUse, Main
<1> QED
  BY <1>3, <1>4, <1>5, <1>6 DEF IInv

\* The radio's thread finds the SPI driver, the lights and the mailboxes.
LEMMA RadioStep ==
  /\ IInv /\ UNCHANGED consoleVars
  /\ \/ RadioSetup \/ RadioClear \/ RadioListen
     \/ RadioStatus \/ RadioAck \/ RadioCheck
  => IInv'
<1> SUFFICES ASSUME IInv, UNCHANGED consoleVars,
                    \/ RadioSetup \/ RadioClear \/ RadioListen
                    \/ RadioStatus \/ RadioAck \/ RadioCheck
             PROVE  IInv'
  OBVIOUS
<1>1. UNCHANGED <<at, ready, threads>>
  BY DEF RadioSetup, RadioClear, RadioListen, RadioStatus, RadioAck, RadioCheck, bootVars
<1>2. MainInv' /\ ShellInv'
  BY <1>1, MainKept, ShellKept DEF IInv
<1>3. at > 5 /\ {"spi", "blinks", "mailboxes"} \subseteq ready
  <2>1. at > 5 /\ at \in 1 .. 14
    BY DEF IInv, MainInv, RadioInv, RadioSetup, RadioClear, RadioListen, RadioStatus,
      RadioAck, RadioCheck
  <2> QED
    BY <2>1, WhatIsReady DEF IInv
<1>4. RadioInv'
  <2>1. CASE RadioSetup
    BY <2>1, <1>3 DEF IInv, RadioInv, RadioSetup, bootVars, chipVars, eventVars
  <2>2. CASE RadioClear
    BY <2>2, <1>3 DEF IInv, RadioInv, RadioClear, Cleared, bootVars, eventVars
  <2>3. CASE RadioListen
    BY <2>3, <1>3 DEF IInv, RadioInv, RadioListen, bootVars, chipVars, eventVars
  <2>4. CASE RadioStatus
    BY <2>4, <1>3 DEF IInv, RadioInv, RadioStatus, bootVars
  <2>5. CASE RadioAck
    BY <2>5, <1>3 DEF IInv, RadioInv, RadioAck, bootVars
  <2>6. CASE RadioCheck
    BY <2>6, <1>3 DEF IInv, RadioInv, RadioCheck, bootVars
  <2> QED
    BY <2>1, <2>2, <2>3, <2>4, <2>5, <2>6
<1>5. InitBeforeUse'
  <2>1. CASE RadioSetup
    BY <2>1, <1>3, ReadyUse DEF IInv, RadioSetup
  <2>2. CASE RadioStatus
    BY <2>2, <1>3, ReadyUse DEF IInv, RadioStatus
  <2>3. CASE RadioAck
    BY <2>3, <1>3, ReadyUse DEF IInv, RadioAck
  <2>4. CASE RadioClear \/ RadioListen \/ RadioCheck
    BY <2>4 DEF IInv, InitBeforeUse, RadioClear, RadioListen, RadioCheck
  <2> QED
    BY <2>1, <2>2, <2>3, <2>4
<1> QED
  BY <1>2, <1>4, <1>5 DEF IInv

\* A flag that comes up alone signals the event, the thread's pointer being set
\* before the interrupt is armed, or is missed.
LEMMA ChipStep ==
  IInv /\ (ChipReceive \/ ChipSent) /\ UNCHANGED consoleVars => IInv'
<1> SUFFICES ASSUME IInv, NEW f, Raise(f), UNCHANGED consoleVars PROVE IInv'
  BY DEF ChipReceive, ChipSent
<1>1. MainInv' /\ ShellInv'
  BY MainKept, ShellKept DEF IInv, Raise, bootVars
<1>2. Armed => {"nrf.th"} \subseteq ready
  BY PastPlaces, WhatIsReady DEF IInv, MainInv, Armed
<1>3. RadioInv'
  <2>1. flags = {} => kick' \/ missed'
    BY <1>2 DEF Raise
  <2>2. (kick => kick') /\ (missed => missed')
    BY DEF Raise
  <2>3. radio' = radio /\ saw' = saw /\ at' = at /\ radio # "standby"
    BY DEF Raise, bootVars
  <2>4. kick' \in BOOLEAN /\ missed' \in BOOLEAN
    BY DEF Raise
  <2> QED
    BY <2>1, <2>2, <2>3, <2>4 DEF IInv, RadioInv
<1>4. InitBeforeUse'
  <2>1. CASE flags = {} /\ Armed
    BY <2>1, <1>2, ReadyUse DEF IInv, Raise
  <2>2. CASE ~(flags = {} /\ Armed)
    BY <2>2 DEF IInv, InitBeforeUse, Raise
  <2> QED
    BY <2>1, <2>2
<1> QED
  BY <1>1, <1>3, <1>4 DEF IInv

\* data_rx may find no mutex of the raw feed and no thread behind it.
LEMMA DataRxStep == IInv /\ DataRx /\ UNCHANGED consoleVars => IInv'
<1> SUFFICES ASSUME IInv, DataRx, UNCHANGED consoleVars PROVE IInv'
  OBVIOUS
<1>1. MainInv' /\ ShellInv' /\ RadioInv'
  BY MainKept, ShellKept, RadioKept DEF IInv, DataRx, chipVars
<1>2. {"mailboxes", "data_mutex"} \subseteq ready
  BY WhatIsReady, WhereCreated DEF IInv, MainInv, DataRx
<1>3. Use("data_rx", {"mailboxes", "data_mutex", "rawd_mutex", "rawd_push_th"})
  BY DEF DataRx
<1>4. InitBeforeUse'
  BY <1>2, <1>3 DEF IInv, InitBeforeUse, Use
<1> QED
  BY <1>1, <1>4 DEF IInv

\* The other threads run while main sleeps, long after what they need.
LEMMA ThreadStep ==
  ASSUME IInv, UNCHANGED consoleVars, NEW t \in DOMAIN Needs, Thread(t)
  PROVE  IInv'
<1>1. MainInv' /\ ShellInv' /\ RadioInv'
  BY MainKept, ShellKept, RadioKept DEF IInv, Thread, bootVars, chipVars, eventVars
<1>2. at \in {3, 9, 14} /\ at \in 1 .. 14
  BY OpPlaces DEF IInv, MainInv, Thread
<1>3. t \in {"data_clean", "heartbeat", "httpd", "rawd", "rawd_push"}
  BY DEF Needs
<1>4. Needs[t] \subseteq ready
  BY <1>2, <1>3, WhatIsReady, WhereCreated
  DEF IInv, Needs, CleanNeeds, HeartbeatNeeds, HttpdNeeds, RawdNeeds, RawdPushNeeds, Thread
<1>5. InitBeforeUse'
  BY <1>4, ReadyUse DEF IInv, Thread
<1> QED
  BY <1>1, <1>5 DEF IInv

\* The web server sends with the mailboxes and the radio's thread in place.
LEMMA HttpdStep == IInv /\ HttpdSend /\ UNCHANGED consoleVars => IInv'
<1> SUFFICES ASSUME IInv, HttpdSend, UNCHANGED consoleVars PROVE IInv'
  OBVIOUS
<1>1. MainInv' /\ ShellInv'
  BY MainKept, ShellKept DEF IInv, HttpdSend, bootVars
<1>2. RadioInv'
  BY DEF IInv, RadioInv, HttpdSend, bootVars, chipVars
<1>3. {"mailboxes", "nrf.th"} \subseteq ready
  BY WhatIsReady, WhereCreated DEF IInv, MainInv, HttpdSend
<1>4. InitBeforeUse'
  BY <1>3, ReadyUse DEF IInv, HttpdSend
<1> QED
  BY <1>1, <1>2, <1>4 DEF IInv

\* A reset starts again from nothing, whatever flags it leaves in the chip.
LEMMA ResetStep == IInv /\ (request_hook \/ PowerCycle) /\ ConsoleReset => IInv'
<1> SUFFICES ASSUME IInv, Restarted, ConsoleReset PROVE IInv'
  BY DEF request_hook, PowerCycle
<1>1. MainInv'
  BY DEF MainInv, Restarted
<1>2. RadioInv' /\ ShellInv'
  BY DEF RadioInv, ShellInv, Restarted, ConsoleReset
<1>3. InitBeforeUse'
  BY DEF IInv, InitBeforeUse, Restarted
<1> QED
  BY <1>1, <1>2, <1>3 DEF IInv
-----------------------------------------------------------------------------
(* The steps of the bus and of the shell.                                  *)

\* The bus is there once usb_init has set up the serial driver.
LEMMA BusStep == IInv /\ Bus /\ UNCHANGED Others => IInv'
<1> SUFFICES ASSUME IInv, Bus, UNCHANGED Others PROVE IInv'
  OBVIOUS
<1>1. MainInv' /\ RadioInv'
  BY MainKept, RadioKept DEF IInv, Others, bootVars, chipVars, eventVars
<1>2. at' = at
  BY DEF Others, bootVars
<1>3. CASE BusReset \/ SetAddress
  BY <1>1, <1>2, <1>3 DEF IInv, ShellInv, InitBeforeUse, BusReset, SetAddress, shellVars
<1>4. CASE SetConfiguration
  <2>1. ShellInv'
    BY <1>2, <1>4 DEF IInv, ShellInv, SetConfiguration
  <2>2. {"SDU1"} \subseteq ready
    BY WhatIsReady, PastPlaces DEF IInv, MainInv, Bus, Connected
  <2>3. InitBeforeUse'
    BY <1>4, <2>2, ReadyUse DEF IInv, SetConfiguration
  <2> QED
    BY <1>1, <2>1, <2>3 DEF IInv
<1> QED
  BY <1>3, <1>4 DEF Bus

\* Main polls for the shell only when everything is initialised.
LEMMA PollStep == IInv /\ console_poll /\ UNCHANGED Others => IInv'
<1> SUFFICES ASSUME IInv, console_poll, UNCHANGED Others PROVE IInv'
  OBVIOUS
<1>1. MainInv' /\ RadioInv'
  BY MainKept, RadioKept DEF IInv, Others, bootVars, chipVars, eventVars
<1>2. at = 14 /\ at' = 14
  BY OpPlaces
  DEF IInv, MainInv, Others, bootVars, console_poll, PollCreate, PollRelease, Polling
<1>3. ShellInv'
  BY <1>2 DEF ShellInv
<1>4. InitBeforeUse'
  <2>1. CASE PollCreate
    <3>1. {"shell_cfg", "SDU1"} \subseteq ready
      BY <1>2, WhatIsReady DEF IInv
    <3> QED
      BY <2>1, <3>1, ReadyUse DEF IInv, PollCreate
  <2>2. CASE PollRelease
    BY <2>2 DEF IInv, InitBeforeUse, PollRelease
  <2> QED
    BY <2>1, <2>2 DEF console_poll
<1> QED
  BY <1>1, <1>3, <1>4 DEF IInv

\* A shell exists only once main polls, and finds the mutex of the table and
\* the network.
LEMMA ShellStep == IInv /\ Shell /\ UNCHANGED Others => IInv'
<1> SUFFICES ASSUME IInv, Shell, UNCHANGED Others PROVE IInv'
  OBVIOUS
<1>1. MainInv' /\ RadioInv'
  BY MainKept, RadioKept DEF IInv, Others, bootVars, chipVars, eventVars
<1>2. at = 14 /\ at' = 14
  BY DEF IInv, ShellInv, Others, bootVars, Shell, Return, Exit, Command, Commands
<1>3. ShellInv'
  BY <1>2 DEF ShellInv
<1>4. \A c : CommandNeeds(c) \subseteq ready
  <2>1. "data_mutex" \in ready /\ "tcpip" \in ready
    BY <1>2, WhatIsReady DEF IInv
  <2> QED
    BY <2>1 DEF CommandNeeds
<1>5. InitBeforeUse'
  <2>1. CASE Return \/ Exit
    BY <2>1 DEF IInv, InitBeforeUse, Return, Exit
  <2>2. ASSUME NEW c \in Commands, Command(c) PROVE InitBeforeUse'
    BY <1>4, <2>2, ReadyUse DEF IInv, Command
  <2> QED
    BY <2>1, <2>2 DEF Shell
<1> QED
  BY <1>1, <1>3, <1>5 DEF IInv
-----------------------------------------------------------------------------
(* The theorems.                                                           *)

\* The invariant holds at reset, whatever the chip's flags.
LEMMA InitStep == ConsoleInit => IInv
<1> SUFFICES ASSUME ConsoleInit PROVE IInv
  OBVIOUS
<1>1. MainInv
  BY DEF MainInv, ConsoleInit, Init, AtReset
<1>2. RadioInv
  BY DEF RadioInv, ConsoleInit, Init, AtReset
<1>3. ShellInv /\ InitBeforeUse
  BY DEF ShellInv, InitBeforeUse, ConsoleInit, Init
<1> QED
  BY <1>1, <1>2, <1>3 DEF IInv

\* The invariant of the board, from reset to polling and through any resets.
THEOREM Inductive == ConsoleSpec => []IInv
<1>1. IInv /\ [ConsoleNext]_boardVars => IInv'
  <2> SUFFICES ASSUME IInv, [ConsoleNext]_boardVars PROVE IInv'
    OBVIOUS
  <2>1. CASE (Bus \/ console_poll \/ Shell) /\ UNCHANGED Others
    BY <2>1, BusStep, PollStep, ShellStep
  <2>2. CASE Running /\ UNCHANGED consoleVars
    BY <2>2, MainStep, RadioStep, ChipStep, DataRxStep, ThreadStep, HttpdStep DEF Running
  <2>3. CASE (request_hook \/ PowerCycle) /\ ConsoleReset
    BY <2>3, ResetStep
  <2>4. CASE UNCHANGED boardVars
    <3>1. UNCHANGED <<at, ready, threads, early, radio, flags, saw, kick, missed>>
      BY <2>4 DEF boardVars, vars, bootVars, chipVars, eventVars
    <3>2. UNCHANGED consoleVars
      BY <2>4 DEF boardVars
    <3> QED
      BY <3>1, <3>2, MainKept, RadioKept, ShellKept DEF IInv, InitBeforeUse
  <2> QED
    BY <2>1, <2>2, <2>3, <2>4 DEF ConsoleNext
<1> QED
  BY InitStep, <1>1, PTL DEF ConsoleSpec

\* No thread and no interrupt uses an object before its initialisation, but
\* for data_rx and the raw feed's mutex and thread.
THEOREM UsedWhenReady == ConsoleSpec => []InitBeforeUse
<1>1. IInv => InitBeforeUse
  BY DEF IInv
<1> QED
  BY Inductive, <1>1, PTL

\* The radio waits with its pin low and no event on the way only if the pin
\* fell before the interrupt was armed, or a flag came up between the reading
\* of STATUS and the clearing of another, whatever a reset before main, in it
\* or after it left in the chip: nrf_init and nrf_radio of nrf24l01p.c, main
\* and nrf_ext_irq of main.c.
THEOREM EdgeSeen == ConsoleSpec => []NoLostEdge
<1>1. IInv => NoLostEdge
  BY DEF IInv, RadioInv, NoLostEdge
<1> QED
  BY Inductive, <1>1, PTL
-----------------------------------------------------------------------------
(* The lights: what LightsAtRest rests on.                                 *)

LightsType ==
  /\ light \in [Lights -> BOOLEAN]
  /\ pos \in [Lights -> {"start", "first", "second", "wait"}]
  /\ evt \in [Lights -> {POS, NEG}] /\ pend \in [Lights -> {0, POS, NEG}]
  /\ due \in [Lights -> 0 .. 1]
  /\ main \in 0 .. 9 /\ mdue \in 0 .. 2

\* Red and rf are only ever blinked one way, green the other way, and green
\* and red not before the heartbeat and the web server have started.
SignInv ==
  /\ \A l \in {"red", "rf"} : evt[l] = POS /\ pend[l] # NEG
  /\ pend["green"] # POS
  /\ main < 9 => beat = "none" /\ evt["green"] = POS /\ pend["green"] = 0 /\ pend["red"] = 0

\* Every blinker blinks once when it starts: one tick on and one tick off,
\* which are the two ticks that main sleeps before hello.
FirstBlink(l) ==
  \/ main = 0 /\ mdue = 2 /\ \/ pos[l] = "start" /\ due[l] = 0
                             \/ pos[l] = "first" /\ due[l] = 1
  \/ main = 0 /\ mdue = 1 /\ \/ pos[l] = "first" /\ due[l] = 0
                             \/ pos[l] = "second" /\ due[l] = 1
  \/ (main > 0 \/ mdue = 0) /\ mdue < 2 /\ pos[l] \in {"second", "wait"} /\ due[l] = 0

Resting(l) == pos[l] \in {"second", "wait"}

\* So it does not come between the toggles, of which there is an even number.
HelloInv ==
  main < 9 => \A l \in {"red", "green"} :
                FirstBlink(l) /\ (Resting(l) => (light[l] <=> main % 2 = 1))

\* rf is not touched by hello.
RestInv ==
  /\ Resting("rf") => ~light["rf"]
  /\ main = 9 /\ Resting("red") => ~light["red"]
  /\ main = 9 => IF Resting("green") THEN light["green"] ELSE evt["green"] = NEG

LightsInv == LightsType /\ SignInv /\ HelloInv /\ RestInv
-----------------------------------------------------------------------------
(* The lights, tick by tick.                                               *)

\* The invariant holds when the blinkers have been created.
LEMMA LightsInitially ==
  ASSUME LightsInit
  PROVE  LightsInv
  BY DEF LightsInit, LightsInv, LightsType, SignInv, HelloInv, RestInv, FirstBlink, Resting,
    Lights, POS, NEG

\* A blinker lights or darkens its own light only.
LEMMA BlinkerStep ==
  ASSUME LightsInv, NEW l \in Lights, Blinker(l)
  PROVE  LightsInv'
<1> USE DEF LightsInv, LightsType, SignInv, HelloInv, RestInv, FirstBlink, Resting, Lights,
      POS, NEG, mainVars, beatVars
<1>1. CASE BlinkStart(l)
  BY <1>1 DEF BlinkStart, OnFirst, BLINK_DELTA
<1>2. CASE BlinkBack(l)
  <2>1. light'[l] <=> evt[l] # POS
    BY <1>2 DEF BlinkBack, OnFirst
  <2>2. \A m \in Lights \ {l} : light'[m] = light[m]
    BY <1>2 DEF BlinkBack
  <2>3. LightsType'
    BY <1>2 DEF BlinkBack, OnFirst, BLINK_DELTA
  <2>4. main = main' /\ mdue' = mdue /\ beat' = beat /\ evt' = evt /\ pend' = pend
    BY <1>2 DEF BlinkBack
  <2>5. /\ pos[l] = "first" /\ due[l] = 0
        /\ pos' = [pos EXCEPT ![l] = "second"] /\ due' = [due EXCEPT ![l] = 1]
    BY <1>2 DEF BlinkBack, BLINK_DELTA
  <2>6. /\ pos'[l] = "second" /\ due'[l] = 1
        /\ \A m \in Lights \ {l} : pos'[m] = pos[m] /\ due'[m] = due[m]
    BY <2>5
  <2>7. HelloInv'
    <3> SUFFICES ASSUME main < 9, NEW m \in {"red", "green"}
                 PROVE  FirstBlink(m)' /\ (Resting(m)' => (light'[m] <=> main % 2 = 1))
      BY <2>4
    <3>1. CASE m = l
      <4>1. main = 0 /\ mdue = 1 /\ evt[l] = POS
        BY <3>1, <2>5
      <4> QED
        BY <4>1, <3>1, <2>1, <2>4, <2>6
    <3>2. CASE m # l
      BY <3>2, <2>2, <2>4, <2>6
    <3> QED
      BY <3>1, <3>2
  <2>8. RestInv'
    <3>1. l # "green" => ~light'[l]
      BY <2>1
    <3>2. main = 9 /\ l = "green" => light'[l]
      BY <2>1, <2>5
    <3>3. \A m \in Lights \ {l} : Resting(m)' <=> Resting(m)
      BY <2>6
    <3> QED
      BY <3>1, <3>2, <3>3, <2>2, <2>4, <2>6
  <2> QED
    BY <2>3, <2>4, <2>7, <2>8
<1>3. CASE BlinkRest(l)
  BY <1>3 DEF BlinkRest
<1>4. CASE BlinkEvent(l)
  BY <1>4 DEF BlinkEvent
<1> QED
  BY <1>1, <1>2, <1>3, <1>4 DEF Blinker

\* main toggles red and green, and lights green.
LEMMA MainLights ==
  ASSUME LightsInv, Hello \/ HelloDone
  PROVE  LightsInv'
<1> USE DEF LightsInv, LightsType, SignInv, HelloInv, RestInv, FirstBlink, Resting, Lights,
      POS, NEG, blinkVars, beatVars
<1>1. CASE Hello
  <2>1. /\ main < 8 /\ main' = main + 1 /\ mdue = 0 /\ mdue' = 1
        /\ UNCHANGED <<pos, evt, due, pend, beat>>
    BY <1>1 DEF Hello
  <2>2. /\ \A l \in {"red", "green"} : light'[l] <=> ~light[l]
        /\ light'["rf"] = light["rf"] /\ light' \in [Lights -> BOOLEAN]
    BY <1>1 DEF Hello
  <2>3. main' % 2 = 1 <=> ~(main % 2 = 1)
    BY <2>1
  <2>4. HelloInv'
    BY <2>1, <2>2, <2>3
  <2> QED
    BY <2>1, <2>2, <2>4
<1>2. CASE HelloDone
  BY <1>2 DEF HelloDone
<1> QED
  BY <1>1, <1>2

\* Events are signalled with the sign of their light.
LEMMA EventStep ==
  ASSUME LightsInv, Heartbeat \/ Request \/ RadioPacket
  PROVE  LightsInv'
<1> USE DEF LightsInv, LightsType, SignInv, HelloInv, RestInv, FirstBlink, Resting, Lights,
      POS, NEG, mainVars, beatVars, blink, Mask, Sign
<1>1. CASE Heartbeat
  BY <1>1 DEF Heartbeat
<1>2. CASE Request
  BY <1>2 DEF Request
<1>3. CASE RadioPacket
  BY <1>3 DEF RadioPacket
<1> QED
  BY <1>1, <1>2, <1>3

\* A tick moves main and the blinkers on together.
LEMMA TickStep ==
  ASSUME LightsInv, Tick
  PROVE  LightsInv'
  BY DEF Tick, Idle, LightsInv, LightsType, SignInv, HelloInv, RestInv, FirstBlink, Resting,
    Lights, POS, NEG

\* The signs, the first blink and the toggles of the start-up are kept by
\* every step: blink.c, and hello and main of main.c.
THEOREM LightsInductive == LightsSpec => []LightsInv
<1>1. LightsInit => LightsInv
  BY LightsInitially
<1>2. LightsInv /\ [LightsNext]_lightVars => LightsInv'
  <2> SUFFICES ASSUME LightsInv, [LightsNext]_lightVars
               PROVE  LightsInv'
    OBVIOUS
  <2>1. CASE UNCHANGED lightVars
    BY <2>1 DEF lightVars, blinkVars, mainVars, LightsInv, LightsType, SignInv, HelloInv,
      RestInv, FirstBlink, Resting, beatVars
  <2>2. CASE LightsNext
    BY <2>2, BlinkerStep, MainLights, EventStep, TickStep DEF LightsNext
  <2> QED
    BY <2>1, <2>2
<1> QED
  BY <1>1, <1>2, PTL DEF LightsSpec

\* After start-up a light at rest shows its state of rest, whatever blinks
\* were merged and whenever the requests and packets come: blinker and blink
\* of blink.c, hello of main.c.
THEOREM LightsAtRest == LightsSpec => []RestsRight
<1>1. LightsInv => RestsRight
  <2> SUFFICES ASSUME LightsInv, main = 9, NEW l \in Lights, Resting(l)
               PROVE  light[l] = Rest(l)
    BY DEF Resting, RestsRight
  <2>1. light[l] \in BOOLEAN /\ Rest(l) \in BOOLEAN
    BY DEF LightsInv, LightsType, Rest
  <2>2. light[l] <=> l = "green"
    BY DEF LightsInv, RestInv, Lights
  <2> QED
    BY <2>1, <2>2 DEF Rest
<1> QED
  BY <1>1, LightsInductive, PTL
=============================================================================
