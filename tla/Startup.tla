------------------------------ MODULE Startup ------------------------------
(***************************************************************************)
(* From reset to the polling loop: main of firmware/main.c, the init       *)
(* functions it calls, and the threads and interrupts that start to run on *)
(* the way.  What a thread does with an object is left to the other        *)
(* modules; here it uses it, and the object had better be initialised.     *)
(*                                                                         *)
(* The radio thread has a higher priority than main; the threads of data.c *)
(* have main's own, and the rest a lower one: they run while main sleeps.  *)
(***************************************************************************)
EXTENDS Naturals, SequencesExt

VARIABLES
  at,       \* main: its place in Order
  ready,    \* the objects initialised so far
  threads,  \* the threads created so far
  early,    \* history: who used which object before it was initialised
  radio,    \* nrf_radio: "none", "created", "setup", "standby", "wait", "irq", "check"
  flags,    \* the chip's interrupt flags; its IRQ pin is low while one is set
  saw,      \* STATUS as nrf_irq has read it
  air,      \* the chip, once it listens: "rx", "tx" or "sent"
  tx,       \* a message waits in the mailbox nrf.tx
  kick,     \* an event is pending for nrf_radio
  missed,   \* history: the flags that hold the pin low came without an event
  inbox,    \* a frame waits in the mailbox nrf.rx
  halted    \* the processor has run into a fault

bootVars == <<at, ready, threads, halted>>
chipVars == <<flags, air, missed>>
eventVars == <<tx, kick, inbox>>
vars == <<bootVars, early, radio, chipVars, saw, eventVars>>
-----------------------------------------------------------------------------
(* Faulty variants of the definitions below.  Nothing uses them: each shows*)
(* that some property notices when the code is wrong in that way.          *)

FaultyOrder ==
  <<"usb_init", "usb_up", "console_init", "nrf_init", "nrf_th", "extStart", "data_init",
    "hello", "blink_init", "services", "httpd_init", "rawd_init", "rawd_push_th", "poll">>
FaultyCleared == flags
FaultyRadioCheck ==
  /\ ~halted /\ radio = "check" /\ (tx => air # "tx")
  /\ air' = IF tx THEN "tx" ELSE air
  /\ tx' = FALSE /\ kick' = FALSE /\ radio' = "wait"
  /\ UNCHANGED <<bootVars, early, flags, missed, saw, inbox>>
-----------------------------------------------------------------------------
\* main and what it calls, cut where another thread can come in: usb_init
\* sleeps 100 ms before usbStart, hello 400 ms; nrf.th and rawd_push_th are
\* assigned once chThdCreateStatic returns.
Order ==
  <<"blink_init", "usb_init", "usb_up", "console_init", "nrf_init", "nrf_th", "extStart",
    "data_init", "hello", "services", "httpd_init", "rawd_init", "rawd_push_th", "poll">>

Op == Order[at]
Past(op) == at > SelectInSeq(Order, LAMBDA o : o = op)
Asleep == Op \in {"usb_up", "hello", "poll"}

\* The objects each step leaves initialised.  lwip_thread runs at once, being
\* of a higher priority, and initialises the stack.
Held(op) ==
  CASE op = "blink_init" -> {"blinks"}
    [] op = "usb_init" -> {"SDU1"}
    [] op = "console_init" -> {"shell_cfg"}
    [] op = "nrf_init" -> {"mailboxes", "spi"}
    [] op = "nrf_th" -> {"nrf.th"}
    [] op = "data_init" -> {"data_mutex"}
    [] op = "services" -> {"tcpip"}
    [] op = "rawd_init" -> {"rawd_mutex"}
    [] op = "rawd_push_th" -> {"rawd_push_th"}
    [] OTHER -> {}

\* The threads it creates, nrf_radio apart.  The shell comes from the first
\* console_poll, which is next: see module Console.
Created(op) ==
  CASE op = "data_init" -> {"data_rx", "data_clean"}
    [] op = "services" -> {"heartbeat"}
    [] op = "httpd_init" -> {"httpd"}
    [] op = "rawd_init" -> {"rawd"}
    [] op = "rawd_push_th" -> {"rawd_push"}
    [] OTHER -> {}

\* The objects a thread uses once it runs, data_rx and a request to send apart.
CleanNeeds == {"data_mutex"}
HeartbeatNeeds == {"blinks"}
HttpdNeeds == {"tcpip", "blinks", "data_mutex"}
RawdNeeds == {"tcpip", "rawd_mutex"}
RawdPushNeeds == {"rawd_mutex"}
Needs ==
  [data_clean |-> CleanNeeds, heartbeat |-> HeartbeatNeeds, httpd |-> HttpdNeeds,
   rawd |-> RawdNeeds, rawd_push |-> RawdPushNeeds]

RX_DR == "RX_DR"
TX_DS == "TX_DS"

AtReset ==
  /\ at = 1 /\ ready = {} /\ threads = {} /\ halted = FALSE
  /\ radio = "none" /\ air = "rx" /\ saw = {} /\ missed = FALSE
  /\ tx = FALSE /\ kick = FALSE /\ inbox = FALSE

\* A reset of the micro-controller leaves the chip's flags as they were.
Init == AtReset /\ early = {} /\ flags \in SUBSET {RX_DR, TX_DS}

Use(t, objects) == early' = early \cup {<<t, o>> : o \in objects \ ready}
-----------------------------------------------------------------------------
\* nrf_radio runs as soon as it exists, until its first transfer: only then
\* does nrf_init go on.
Main ==
  /\ ~halted /\ at < Len(Order)
  /\ Op = "nrf_th" => radio # "created"
  /\ at' = at + 1
  /\ ready' = ready \cup Held(Op) /\ threads' = threads \cup Created(Op)
  /\ radio' = IF Op = "nrf_init" THEN "created" ELSE radio
  /\ UNCHANGED <<early, chipVars, saw, eventVars, halted>>

\* nrf_radio: the registers are written and the FIFOs flushed, CE being low;
\* then STATUS is cleared, which releases the pin.
RadioSetup ==
  /\ ~halted /\ radio = "created"
  /\ Use("nrf_radio", {"spi"}) /\ radio' = "setup"
  /\ UNCHANGED <<bootVars, chipVars, saw, eventVars>>

Cleared == {}

RadioClear ==
  /\ ~halted /\ radio = "setup"
  /\ flags' = Cleared /\ radio' = "standby"
  /\ UNCHANGED <<bootVars, early, air, missed, saw, eventVars>>

\* nrf_standby sleeps 5 ms, and nothing but that keeps the radio from listening
\* before main has gone on to extStart.
RadioListen ==
  /\ ~halted /\ radio = "standby"
  /\ radio' = "wait"
  /\ UNCHANGED <<bootVars, early, chipVars, saw, eventVars>>

\* The event loop.  nrf_irq reads STATUS and, if a message was sent and there
\* is no other, listens again ...
RadioStatus ==
  /\ ~halted /\ radio = "wait" /\ kick
  /\ Use("nrf_radio", {"spi", "blinks"})
  /\ kick' = FALSE /\ saw' = flags
  /\ air' = IF TX_DS \in flags /\ ~tx THEN "rx" ELSE air
  /\ radio' = "irq"
  /\ UNCHANGED <<bootVars, flags, missed, tx, inbox>>

\* ... posts the frame, and clears the flags it has seen.  Another that has
\* come up meanwhile keeps the pin low: there is no edge for it.
RadioAck ==
  /\ ~halted /\ radio = "irq"
  /\ Use("nrf_radio", {"mailboxes"})
  /\ inbox' = (inbox \/ RX_DR \in saw)
  /\ flags' = flags \ saw
  /\ missed' = IF saw = {} THEN missed ELSE flags' # {}
  /\ saw' = {} /\ radio' = "check"
  /\ UNCHANGED <<bootVars, air, tx, kick>>

\* nrf_check_tx.  A transmission under way ends while nrf_standby sleeps.
RadioCheck ==
  /\ ~halted /\ radio = "check" /\ (tx => air # "tx")
  /\ air' = IF tx THEN "tx" ELSE air
  /\ tx' = FALSE /\ radio' = "wait"
  /\ UNCHANGED <<bootVars, early, flags, missed, saw, kick, inbox>>

\* A flag comes up.  It is the pin's edge that counts, and extStart has armed
\* the interrupt for it, or the edge is not seen.
Armed == Past("extStart")

Raise(f) ==
  /\ ~halted /\ radio \in {"wait", "irq", "check"} /\ f \notin flags
  /\ flags' = flags \cup {f}
  /\ IF flags = {} /\ Armed THEN Use("nrf_ext_irq", {"nrf.th"}) ELSE UNCHANGED early
  /\ kick' = (kick \/ (flags = {} /\ Armed /\ "nrf.th" \in ready))
  /\ missed' = (missed \/ (flags = {} /\ ~Armed))
  /\ UNCHANGED <<bootVars, radio, saw, tx, inbox>>

ChipReceive == air = "rx" /\ Raise(RX_DR) /\ UNCHANGED air
ChipSent == air = "tx" /\ Raise(TX_DS) /\ air' = "sent"

\* data_rx: nrf_recv, update_table, rawd_push.  A mutex and a thread pointer
\* that are still zero: the fault, or nothing.
DataRx ==
  /\ ~halted /\ "data_rx" \in threads /\ inbox
  /\ LET objects == {"mailboxes", "data_mutex", "rawd_mutex", "rawd_push_th"}
     IN  /\ Use("data_rx", objects)
         /\ halted' \in IF objects \subseteq ready THEN {FALSE} ELSE BOOLEAN
  /\ inbox' = FALSE
  /\ UNCHANGED <<at, ready, threads, radio, chipVars, saw, tx, kick>>

\* A thread of main's priority or below runs while main sleeps.
Thread(t) ==
  /\ ~halted /\ t \in threads /\ Asleep
  /\ Use(t, Needs[t])
  /\ UNCHANGED <<bootVars, radio, chipVars, saw, eventVars>>

\* A request makes httpd call nrf_send, which kicks the radio thread.
HttpdSend ==
  /\ ~halted /\ "httpd" \in threads /\ Asleep /\ ~tx
  /\ Use("httpd", {"mailboxes", "nrf.th"})
  /\ tx' = TRUE /\ kick' = TRUE
  /\ UNCHANGED <<bootVars, radio, chipVars, saw, inbox>>

\* request_hook: a vendor request of the USB host resets the processor, once
\* the bus is connected.  The chip goes on until nrf_radio stops it.
\* The power switch resets both, at any time.
Restarted ==
  /\ at' = 1 /\ ready' = {} /\ threads' = {} /\ halted' = FALSE
  /\ radio' = "none" /\ air' = "rx" /\ saw' = {} /\ missed' = FALSE
  /\ tx' = FALSE /\ kick' = FALSE /\ inbox' = FALSE
  /\ UNCHANGED early
request_hook ==
  /\ ~halted /\ Past("usb_up")
  /\ Restarted /\ flags' \in {flags \cup new : new \in SUBSET {RX_DR, TX_DS}}
PowerCycle == Restarted /\ flags' = {}

Running ==
  \/ Main
  \/ RadioSetup \/ RadioClear \/ RadioListen
  \/ RadioStatus \/ RadioAck \/ RadioCheck
  \/ ChipReceive \/ ChipSent \/ DataRx \/ HttpdSend
  \/ \E t \in DOMAIN Needs : Thread(t)

Next == Running \/ request_hook \/ PowerCycle

Spec == Init /\ [][Next]_vars
-----------------------------------------------------------------------------
\* No thread and no interrupt uses an object before its initialisation, with
\* one exception: data_rx may hand a frame heard during hello to rawd_push,
\* whose mutex and thread do not exist yet.
InitBeforeUse == early \subseteq {"data_rx"} \X {"rawd_mutex", "rawd_push_th"}

\* The radio waits with its pin low and no event on the way in two cases only:
\* the pin fell before extStart had armed the interrupt, or a flag came up
\* between the reading of STATUS and the clearing of another.  No reset of the
\* micro-controller leaves it so, whatever the chip was about, and no kick by
\* nrf_send or by the interrupt is lost on the way to the thread.
NoLostEdge == radio = "wait" /\ flags # {} => kick \/ missed
=============================================================================
