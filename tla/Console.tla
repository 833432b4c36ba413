------------------------------ MODULE Console ------------------------------
(***************************************************************************)
(* The console on USB: firmware/usb_device.c, its call-outs to the USB     *)
(* driver, and the shell thread of firmware/console.c, on the board that   *)
(* starts up in module Startup.  Host, driver and shell loop are external, *)
(* and the descriptors are constants that nothing here depends on.         *)
(*                                                                         *)
(* usb_init connects the bus.  Once main polls, console_poll makes the     *)
(* shell thread, on the heap; it ends when the user says so or its read    *)
(* from the bus fails, and console_poll makes another.                     *)
(***************************************************************************)
EXTENDS Startup

CONSTANT Heap  \* working areas of the shell's size that the heap has room for

ASSUME HeapAssumption == Heap \in Nat \ {0}

VARIABLES
  bus,      \* the driver: "ready", "selected", or "active" once configured
  th,       \* the shell thread: "none", "reading", a command, or "ended"
  console_th,  \* console_poll's pointer to it is set
  used      \* working areas taken from the heap

shellVars == <<th, console_th, used>>
consoleVars == <<bus, shellVars>>
boardVars == <<vars, consoleVars>>

Commands == {"mem", "ps", "dd", "net"}

ConsoleInit ==
  /\ Init
  /\ bus = "ready"
  /\ th = "none" /\ console_th = FALSE /\ used = 0
-----------------------------------------------------------------------------
(* Faulty variants of the definitions below.  Nothing uses them: each shows*)
(* that some property notices when the code is wrong in that way.          *)

FaultyRelease == UNCHANGED used
-----------------------------------------------------------------------------
(* The bus: the host resets it, gives it an address and configures it, once*)
(* usb_init has connected it.  The driver works in interrupts.             *)

Connected == ~halted /\ Past("usb_up")

\* USB_EVENT_RESET and USB_EVENT_ADDRESS do nothing more.
BusReset == bus' = "ready" /\ UNCHANGED <<shellVars, early>>
SetAddress ==
  /\ bus = "ready" /\ bus' = "selected"
  /\ UNCHANGED <<shellVars, early>>

\* USB_EVENT_CONFIGURED enables the endpoints and resets the serial driver,
\* which sends a waiting reader away.
SetConfiguration ==
  /\ bus = "selected" /\ bus' = "active"
  /\ th' \in IF th = "reading" THEN {"reading", "ended"} ELSE {th}
  /\ Use("usb", {"SDU1"})
  /\ UNCHANGED <<console_th, used>>

Bus == Connected /\ (BusReset \/ SetAddress \/ SetConfiguration)
-----------------------------------------------------------------------------
(* console_poll, twice a second, and the thread.                           *)

Polling == ~halted /\ Op = "poll"

\* shellCreate: the thread, or NULL if the heap is full.
PollCreate ==
  /\ Polling /\ ~console_th
  /\ IF used < Heap
       THEN th' = "reading" /\ console_th' = TRUE /\ used' = used + 1
       ELSE UNCHANGED shellVars
  /\ Use("shell", {"shell_cfg", "SDU1"})
  /\ UNCHANGED bus

\* chThdRelease gives the working area back.
Release == used' = used - 1

PollRelease ==
  /\ Polling /\ console_th /\ th = "ended"
  /\ Release
  /\ th' = "none" /\ console_th' = FALSE
  /\ UNCHANGED <<bus, early>>

console_poll == PollCreate \/ PollRelease

\* The user types a command; it prints, and returns when its output is gone.
\* A host that does not read, or is not there, holds it up.
CommandNeeds(c) ==
  CASE c = "dd" -> {"data_mutex"} [] c = "net" -> {"tcpip"} [] OTHER -> {}
Command(c) ==
  /\ bus = "active" /\ th = "reading" /\ th' = c
  /\ Use("shell", CommandNeeds(c))
  /\ UNCHANGED <<bus, console_th, used>>
Return ==
  /\ th \in Commands /\ th' = "reading"
  /\ UNCHANGED <<bus, console_th, used, early>>

\* The user's exit, or a read that fails on a bus that is not active.
Exit ==
  /\ th = "reading" /\ th' = "ended"
  /\ UNCHANGED <<bus, console_th, used, early>>

Shell == ~halted /\ (Return \/ Exit \/ \E c \in Commands : Command(c))
-----------------------------------------------------------------------------
\* The rest of the board goes on, or is reset and the console with it.
Others == <<bootVars, radio, chipVars, saw, eventVars>>

ConsoleReset ==
  /\ bus' = "ready" /\ th' = "none" /\ console_th' = FALSE /\ used' = 0

ConsoleNext ==
  \/ (Bus \/ console_poll \/ Shell) /\ UNCHANGED Others
  \/ Running /\ UNCHANGED consoleVars
  \/ (request_hook \/ PowerCycle) /\ ConsoleReset

ConsoleSpec == ConsoleInit /\ [][ConsoleNext]_boardVars

\* main gets on and polls for ever, and the host takes what a command prints.
FairSpec ==
  /\ ConsoleSpec
  /\ WF_boardVars((Main \/ RadioSetup) /\ UNCHANGED consoleVars)
  /\ WF_boardVars(console_poll /\ UNCHANGED Others)
  /\ WF_boardVars(bus = "active" /\ ~halted /\ Return /\ UNCHANGED Others)
-----------------------------------------------------------------------------
\* On a bus that stays active the user always gets a shell again, however
\* often one is ended, unless the processor has stopped.
ShellReturns == <>[](bus = "active" /\ ~halted) => []<>(th = "reading")
=============================================================================
