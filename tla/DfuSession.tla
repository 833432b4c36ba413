---------------------------- MODULE DfuSession -----------------------------
(***************************************************************************)
(* A whole firmware update: the boot loader of UsbDfu, a host that follows *)
(* the DfuSe protocol the loader is written for, a USB link that loses     *)
(* transfers, and a power supply that may fail.                            *)
(*                                                                         *)
(* The host is external.  It erases the pages of the application, sets the *)
(* address, downloads the image as blocks 2, 3, ..., polls the status      *)
(* after each transfer until the loader is in dfuDNLOAD-IDLE, and repeats  *)
(* whatever is not answered.  It may give up and start again with an       *)
(* ABORT, and it does so after a loss of power.                            *)
(***************************************************************************)
EXTENDS UsbDfu

CONSTANTS
  OldImage,  \* the application in flash at first, page by page
  Image      \* the application to download

AppPages == APP .. PAGES - 1

ASSUME ImageAssumption ==
  /\ OldImage \in [AppPages -> [1 .. WORDS -> Contents]]
  /\ Image \in [AppPages -> [1 .. WORDS -> Contents]]
  /\ \A p \in AppPages : p + 2 - APP \in Blocks

VARIABLES
  step,        \* the host's next, or current, transfer
  phase,       \* "send", "poll", "gone" after a loss of power, "done"
  interrupted  \* history: an update under way was cut off

hostVars == <<step, phase, interrupted>>
sessionVars == <<vars, hostVars>>

N == PAGES - APP
LastStep == 2 * N + 2  \* the download without data

\* The transfers with data, in order.
Script ==
  [i \in 1 .. LastStep - 1 |->
    IF i <= N THEN Command("CMD_ERASE", APP + i - 1)
    ELSE IF i = N + 1 THEN Command("CMD_SETADDR", APP)
    ELSE Data(i - N, Image[APP + i - N - 2])]

SessionTypeOK ==
  /\ TypeOK
  /\ step \in 1 .. LastStep
  /\ phase \in {"send", "poll", "gone", "done"}
  /\ interrupted \in BOOLEAN

InFlash == [p \in AppPages |-> flash[p]]
Whole == InFlash \in {OldImage, Image}

\* What the loader itself consists of does not matter.
LoaderPage == [i \in 1 .. WORDS |-> CHOOSE c \in Contents : TRUE]

SessionInit ==
  /\ Fresh
  /\ flash = [p \in FlashPages |-> IF p \in AppPages THEN OldImage[p] ELSE LoaderPage]
  /\ step = 1 /\ phase = "send" /\ interrupted = FALSE
-----------------------------------------------------------------------------
\* The loader gets a transfer, whose answer the host may miss: then it sends
\* it again.
Send ==
  /\ phase = "send"
  /\ IF step < LastStep THEN Dnload(Script[step]) ELSE DnloadEnd
  /\ phase' \in {"send", "poll"}
  /\ UNCHANGED <<step, interrupted>>

\* The host asks for the status, and goes on when it gets the answer it waits
\* for; any other answer, or none, makes it ask again.
Answered ==
  IF step < LastStep
    THEN usbdfu_state' = "DNLOAD_IDLE" /\ step' = step + 1 /\ phase' = "send"
    ELSE usbdfu_state' = "MANIFEST" /\ step' = step /\ phase' = "done"

Poll ==
  /\ phase = "poll"
  /\ GetStatus
  /\ Answered \/ UNCHANGED <<step, phase>>
  /\ UNCHANGED interrupted

\* A tool may look at the state, or try to read the flash, before the last
\* request for the status is on its way.
Look == phase # "done" /\ OtherRequest /\ UNCHANGED hostVars

Restart ==
  /\ Abort
  /\ step' = 1 /\ phase' = "send"
  /\ interrupted' = (interrupted \/ ~Whole)

PowerFails ==
  /\ PowerLoss
  /\ step' = 1 /\ phase' = "gone"
  /\ interrupted' = (interrupted \/ ~Whole)

Loader == (Complete \/ Program \/ Tick) /\ UNCHANGED hostVars

SessionNext == Send \/ Poll \/ Look \/ Restart \/ PowerFails \/ Loader

SessionSpec == SessionInit /\ [][SessionNext]_sessionVars

(***************************************************************************)
(* Fairness.  The loader's loop goes on, and the host's transfers and      *)
(* their status stages get through again and again.                        *)
(***************************************************************************)
FairSession ==
  /\ SessionSpec
  /\ WF_sessionVars(Tick /\ UNCHANGED hostVars)
  /\ WF_sessionVars(Program /\ UNCHANGED hostVars)
  /\ SF_sessionVars(Complete /\ UNCHANGED hostVars)
  /\ SF_sessionVars(Send /\ phase' = "poll")
  /\ WF_sessionVars(Poll)
  /\ SF_sessionVars(Poll /\ Answered)
-----------------------------------------------------------------------------
\* After a download that was ended by the host, what runs is the image, though
\* transfers were repeated and earlier attempts cut off anywhere.
ManifestRunsImage == running = "app" /\ usbdfu_state = "MANIFEST" => InFlash = Image

\* The flash never refuses a word: each block goes to the page meant for it,
\* finds it erased, and is programmed once.
ProgramsErased ==
  at \in DOMAIN prog.buf =>
    Base \in AppPages /\ flash[Base][at] = Erased /\ prog.buf = Image[Base]

\* The loader starts a half written application only after an update was cut
\* off: the timer alone never does it while the host is at work.
TornOnlyIfInterrupted == running = "app" /\ ~Whole => interrupted

\* Unless it is cut off for ever, an update ends with an application running.
Undisturbed == <>[][~(Restart \/ PowerFails)]_sessionVars
UpdateEnds ==
  Undisturbed => (running = "loader" /\ phase # "gone" ~> running = "app" \/ phase = "gone")
=============================================================================
