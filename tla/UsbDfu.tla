------------------------------ MODULE UsbDfu -------------------------------
(***************************************************************************)
(* The boot loader, bootloader/usbdfu.c: a DFU state machine driven by the *)
(* control requests of any USB host, which erases and programs the flash,  *)
(* and a timer that starts the application when nobody wants a download.   *)
(*                                                                         *)
(* The boot loader is one loop that polls: requests, the completion of a   *)
(* control transfer and the timer never overlap.  Only a loss of power can *)
(* come between two half words it programs.                                *)
(*                                                                         *)
(* Addresses are in pages of wTransferSize bytes, and a page is WORDS      *)
(* words; a word stands for the half words between two points at which a   *)
(* loss of power makes a difference.  The flash is external: a word is     *)
(* programmed only if it is erased, else the hardware refuses.             *)
(***************************************************************************)
EXTENDS Integers, Sequences

CONSTANTS
  PAGES,     \* pages of flash
  WORDS,     \* words of a page
  ADDRS,     \* page addresses, those without flash included (2 ^ 21)
  APP,       \* the page at APP_ADDRESS
  Blocks,    \* values of wBlockNum
  Contents,  \* what a word can hold, besides Erased
  Erased,
  StackTops, \* the contents that pass for an initial stack pointer
  LIMIT      \* ticks of the timer (13)

ASSUME DfuAssumption ==
  /\ PAGES \in Nat /\ WORDS \in Nat \ {0} /\ ADDRS \in Nat
  /\ APP \in 0 .. PAGES - 1 /\ PAGES <= ADDRS
  /\ Blocks \in SUBSET Nat /\ 0 \in Blocks
  /\ Erased \notin Contents /\ StackTops \subseteq Contents
  /\ LIMIT \in Nat

VARIABLES
  usbdfu_state,
  prog,      \* the transfer downloaded last: prog.blocknum, buf and len
  addr,      \* prog.addr
  complete,  \* usbdfu_getstatus_complete is to run at the status stage
  at,        \* the next word to program, or Idle
  timeout,   \* ticks the loader has been idle
  running,   \* "loader" or "app"
  flash,
  ran,       \* history: the download in prog was carried out
  open       \* history: a download came since the start or the last ABORT

vars == <<usbdfu_state, prog, addr, complete, at, timeout, running, flash, ran, open>>

States == {"IDLE", "DNLOAD_SYNC", "DNBUSY", "DNLOAD_IDLE", "MANIFEST_SYNC", "MANIFEST"}
FlashPages == 0 .. PAGES - 1
PageAddrs == 0 .. ADDRS - 1
Page == [1 .. WORDS -> Contents \union {Erased}]
Idle == 0

\* The data of a transfer, as a block 0 is read (a command and its argument)
\* and as any other is (words).
Commands == {"CMD_ERASE", "CMD_SETADDR", "other"}
Transfer == [blocknum : Blocks, cmd : Commands, arg : PageAddrs, buf : Seq(Contents)]
Command(c, p) == [blocknum |-> 0, cmd |-> c, arg |-> p, buf |-> << >>]
Data(b, w) == [blocknum |-> b, cmd |-> "other", arg |-> 0, buf |-> w]

TypeOK ==
  /\ usbdfu_state \in States
  /\ prog \in Transfer /\ Len(prog.buf) <= WORDS /\ addr \in PageAddrs
  /\ complete \in BOOLEAN
  /\ at \in {Idle} \union 1 .. WORDS + 1
  /\ timeout \in 0 .. LIMIT + 1
  /\ running \in {"loader", "app"}
  /\ flash \in [FlashPages -> Page]
  /\ ran \in BOOLEAN /\ open \in BOOLEAN

\* The static data of the loader at power-on.
Fresh ==
  /\ usbdfu_state = "IDLE"
  /\ prog = Command("other", 0) /\ addr = 0
  /\ complete = FALSE /\ at = Idle /\ timeout = 0 /\ running = "loader"
  /\ ran = FALSE /\ open = FALSE
-----------------------------------------------------------------------------
(* Faulty variants of the definitions below.  Nothing uses them: each shows*)
(* that some property notices when the code is wrong in that way.          *)

FaultyProgramEnd ==
  /\ at = Len(prog.buf) + 1
  /\ at' = Idle
  /\ ran' = TRUE
  /\ UNCHANGED <<usbdfu_state, prog, addr, complete, timeout, running, flash, open>>
FaultyWaiting == flash[APP][1] \in StackTops
FaultyBase == (addr + prog.blocknum - 1) % ADDRS
FaultyDownloaded == "DNBUSY"
-----------------------------------------------------------------------------
(* usbdfu_control_request.  A new request cancels the completion of the    *)
(* transfer before it.                                                     *)

Request == running = "loader" /\ at = Idle /\ complete' = FALSE

\* DFU_DNLOAD with data.
Dnload(t) ==
  /\ Request
  /\ prog' = t
  /\ usbdfu_state' = "DNLOAD_SYNC"
  /\ ran' = FALSE /\ open' = TRUE
  /\ UNCHANGED <<addr, at, timeout, running, flash>>

\* DFU_DNLOAD without data ends the download.
DnloadEnd ==
  /\ Request
  /\ usbdfu_state' = "MANIFEST_SYNC"
  /\ UNCHANGED <<prog, addr, at, timeout, running, flash, ran, open>>

Abort ==
  /\ Request
  /\ usbdfu_state' = "IDLE"
  /\ open' = FALSE
  /\ UNCHANGED <<prog, addr, at, timeout, running, flash, ran>>

\* DFU_UPLOAD, DFU_GETSTATE, and DFU_CLRSTATUS too: the error state it clears
\* is never entered.
OtherRequest ==
  /\ Request
  /\ UNCHANGED <<usbdfu_state, prog, addr, at, timeout, running, flash, ran, open>>

\* usbdfu_getstatus: the state it moves to, which is also the one it reports.
StatusOf(s) == CASE s = "DNLOAD_SYNC" -> "DNBUSY"
                 [] s = "MANIFEST_SYNC" -> "MANIFEST"
                 [] OTHER -> s

GetStatus ==
  /\ running = "loader" /\ at = Idle
  /\ usbdfu_state' = StatusOf(usbdfu_state)
  /\ complete' = TRUE
  /\ UNCHANGED <<prog, addr, at, timeout, running, flash, ran, open>>
-----------------------------------------------------------------------------
(* usbdfu_getstatus_complete, at the status stage of DFU_GETSTATUS.        *)

StatusStage == running = "loader" /\ at = Idle /\ complete /\ complete' = FALSE

\* The page a data block goes to; the arithmetic wraps around.
Base == (addr + prog.blocknum - 2) % ADDRS

Downloaded == "DNLOAD_IDLE"

\* Block 0.  CMD_ERASE falls through to CMD_SETADDR.
RunCommand ==
  /\ StatusStage /\ usbdfu_state = "DNBUSY" /\ prog.blocknum = 0
  /\ flash' = IF prog.cmd = "CMD_ERASE" /\ prog.arg \in FlashPages
                THEN [flash EXCEPT ![prog.arg] = [i \in 1 .. WORDS |-> Erased]]
                ELSE flash
  /\ addr' = IF prog.cmd = "other" THEN addr ELSE prog.arg
  /\ usbdfu_state' = Downloaded
  /\ ran' = TRUE
  /\ UNCHANGED <<prog, at, timeout, running, open>>

\* Any other block is programmed word by word.
ProgramStart ==
  /\ StatusStage /\ usbdfu_state = "DNBUSY" /\ prog.blocknum # 0
  /\ at' = 1
  /\ UNCHANGED <<usbdfu_state, prog, addr, timeout, running, flash, ran, open>>

Programmed(w, old) == IF old = Erased THEN w ELSE old

ProgramWord ==
  /\ at \in 1 .. Len(prog.buf)
  /\ flash' = IF Base \in FlashPages
                THEN [flash EXCEPT ![Base][at] = Programmed(prog.buf[at], @)]
                ELSE flash
  /\ at' = at + 1
  /\ UNCHANGED <<usbdfu_state, prog, addr, complete, timeout, running, ran, open>>

ProgramEnd ==
  /\ at = Len(prog.buf) + 1
  /\ at' = Idle
  /\ usbdfu_state' = Downloaded
  /\ ran' = TRUE
  /\ UNCHANGED <<prog, addr, complete, timeout, running, flash, open>>

\* leave_bootloader, without any look at what was downloaded.
Manifest ==
  /\ StatusStage /\ usbdfu_state = "MANIFEST"
  /\ running' = "app"
  /\ UNCHANGED <<usbdfu_state, prog, addr, at, timeout, flash, ran, open>>

\* In the other states there is nothing to complete.
StatusOnly ==
  /\ StatusStage /\ usbdfu_state \notin {"DNBUSY", "MANIFEST"}
  /\ UNCHANGED <<usbdfu_state, prog, addr, at, timeout, running, flash, ran, open>>

Complete == RunCommand \/ ProgramStart \/ Manifest \/ StatusOnly
Program == ProgramWord \/ ProgramEnd
-----------------------------------------------------------------------------
(* The loop of main.                                                       *)

\* Nothing is being downloaded and the first word, the application's stack
\* pointer, looks right.
Waiting == usbdfu_state = "IDLE" /\ flash[APP][1] \in StackTops
Expired == timeout > LIMIT
Older == timeout + 1

Tick ==
  /\ running = "loader" /\ at = Idle
  /\ \/ /\ Waiting /\ Expired
        /\ running' = "app" /\ UNCHANGED timeout
     \/ /\ Waiting /\ ~Expired
        /\ timeout' = Older /\ UNCHANGED running
     \/ /\ ~Waiting
        /\ timeout' = 0 /\ UNCHANGED running
  /\ UNCHANGED <<usbdfu_state, prog, addr, complete, at, flash, ran, open>>

\* The power fails, in the loader or later in the application.
PowerLoss ==
  /\ usbdfu_state' = "IDLE"
  /\ prog' = Command("other", 0) /\ addr' = 0
  /\ complete' = FALSE /\ at' = Idle /\ timeout' = 0 /\ running' = "loader"
  /\ ran' = FALSE /\ open' = FALSE
  /\ UNCHANGED flash
-----------------------------------------------------------------------------
(* A host that sends what it likes, except that it does not erase the      *)
(* loader: that would be the end of the program modelled here.             *)

Words == UNION {[1 .. n -> Contents] : n \in 1 .. WORDS}
AnyTransfer ==
  {Command(c, p) : c \in Commands, p \in APP .. ADDRS - 1}
    \union {Data(b, w) : b \in Blocks \ {0}, w \in Words}

AnyRequest ==
  (\E t \in AnyTransfer : Dnload(t)) \/ DnloadEnd \/ Abort \/ OtherRequest \/ GetStatus

\* The loader is in place; the pages of the application hold whatever earlier
\* downloads left there.
LoaderInPlace == \A p \in 0 .. APP - 1, i \in 1 .. WORDS : flash[p][i] # Erased

Init == Fresh /\ flash \in [FlashPages -> Page] /\ LoaderInPlace

Next == AnyRequest \/ Complete \/ Program \/ Tick \/ PowerLoss

Spec == Init /\ [][Next]_vars
-----------------------------------------------------------------------------
(* What holds whatever the host sends.                                     *)

\* A download is carried out at most once, however often the host asks for
\* the status: until the next one nothing is programmed or erased again.
CarriedOutOnce == [][ran => flash' = flash /\ at' = Idle]_vars

\* The application starts because the host ended its download, or by the
\* timer; never by the timer while the host's download is open.
TimerSparesDownload ==
  [][running = "loader" /\ running' = "app" => usbdfu_state = "MANIFEST" \/ ~open]_vars
=============================================================================
