----------------------------- MODULE DfuProofs -----------------------------
(***************************************************************************)
(* Safety of the boot loader.  The first part is about the loader alone,   *)
(* against a host that sends anything, for every size of flash, page and   *)
(* address space; it uses no assumption on an image.  The second is about  *)
(* a firmware update, for any image, page size and number of pages, over a *)
(* link that loses what it likes and with any cuts of power.               *)
(***************************************************************************)
EXTENDS DfuSession, SequenceTheorems, TLAPS

(* The loader.                                                             *)

\* A download that was carried out has left the states that carry it out.
RanInv == ran => at = Idle /\ usbdfu_state \notin {"DNLOAD_SYNC", "DNBUSY"}

\* The idle state is entered only at the start and by an ABORT.
OpenInv == usbdfu_state = "IDLE" => ~open

\* The loader programs in the busy state, and within the transfer.
BusyInv ==
  at # Idle => usbdfu_state = "DNBUSY" /\ running = "loader" /\ at <= Len(prog.buf) + 1

IInv == TypeOK /\ RanInv /\ OpenInv /\ BusyInv

\* The transfers the host sends are of the type the loader keeps.
LEMMA TransferType ==
  ASSUME NEW t \in AnyTransfer
  PROVE  t \in Transfer /\ Len(t.buf) <= WORDS
<1>1. CASE \E c \in Commands, p \in APP .. ADDRS - 1 : t = Command(c, p)
  <2>1. PICK c \in Commands, p \in APP .. ADDRS - 1 : t = Command(c, p)
    BY <1>1
  <2>2. p \in PageAddrs /\ 0 \in Blocks /\ << >> \in Seq(Contents) /\ Len(<< >>) = 0
    BY <2>1, DfuAssumption, EmptySeq DEF PageAddrs
  <2> QED BY <2>1, <2>2, DfuAssumption DEF Command, Transfer
<1>2. CASE \E b \in Blocks \ {0}, w \in Words : t = Data(b, w)
  <2>1. PICK b \in Blocks \ {0}, w \in Words : t = Data(b, w)
    BY <1>2
  <2>2. PICK n \in 1 .. WORDS : w \in [1 .. n -> Contents]
    BY DEF Words
  <2>3. w \in Seq(Contents) /\ Len(w) <= WORDS
    BY <2>2, DfuAssumption, LenProperties
  <2>4. 0 \in PageAddrs
    BY DfuAssumption DEF PageAddrs
  <2> QED BY <2>1, <2>3, <2>4 DEF Data, Transfer, Commands
<1> QED BY <1>1, <1>2 DEF AnyTransfer

\* The loader starts in the invariant.
LEMMA InitInv == Init => IInv
<1> SUFFICES ASSUME Init PROVE IInv
  OBVIOUS
<1>1. 0 \in PageAddrs /\ 0 \in Blocks /\ << >> \in Seq(Contents) /\ Len(<< >>) = 0
  BY DfuAssumption, EmptySeq DEF PageAddrs
<1>2. Command("other", 0) \in Transfer /\ Len(Command("other", 0).buf) <= WORDS
  BY <1>1, DfuAssumption DEF Command, Transfer, Commands
<1>3. at = Idle /\ timeout \in 0 .. LIMIT + 1 /\ prog = Command("other", 0)
  BY DfuAssumption DEF Init, Fresh
<1>4. TypeOK
  <2>1. prog \in Transfer /\ Len(prog.buf) <= WORDS
    BY <1>2, <1>3
  <2> QED BY <1>1, <1>3, <2>1 DEF Init, Fresh, TypeOK, States
<1> QED BY <1>4 DEF IInv, RanInv, OpenInv, BusyInv, Init, Fresh

\* A request of any host keeps the invariant.
LEMMA RequestStep ==
  ASSUME IInv, AnyRequest
  PROVE  IInv'
<1> USE DEF IInv, TypeOK, RanInv, OpenInv, BusyInv, States
<1>1. ASSUME NEW t \in AnyTransfer, Dnload(t) PROVE IInv'
  BY <1>1, TransferType DEF Dnload, Request
<1>2. CASE DnloadEnd
  BY <1>2 DEF DnloadEnd, Request
<1>3. CASE Abort
  BY <1>3 DEF Abort, Request
<1>4. CASE OtherRequest
  BY <1>4 DEF OtherRequest, Request
<1>5. CASE GetStatus
  BY <1>5 DEF GetStatus, StatusOf
<1> QED BY <1>1, <1>2, <1>3, <1>4, <1>5 DEF AnyRequest

\* So does the completion of a status request.
LEMMA CompleteStep ==
  ASSUME IInv, Complete
  PROVE  IInv'
<1> USE DEF IInv, TypeOK, RanInv, OpenInv, BusyInv, States
<1>1. CASE RunCommand
  <2>1. [i \in 1 .. WORDS |-> Erased] \in Page
    BY DEF Page
  <2>2. flash' \in [FlashPages -> Page]
    BY <1>1, <2>1 DEF RunCommand
  <2>3. addr' \in PageAddrs
    BY <1>1 DEF RunCommand, Transfer
  <2> QED BY <1>1, <2>2, <2>3 DEF RunCommand, StatusStage, Downloaded
<1>2. CASE ProgramStart
  <2>1. Len(prog.buf) \in Nat
    BY LenProperties DEF Transfer
  <2>2. 1 \in 1 .. WORDS + 1 /\ 1 <= Len(prog.buf) + 1
    BY <2>1, DfuAssumption
  <2>3. at' = 1 /\ usbdfu_state' = "DNBUSY" /\ running' = "loader" /\ ~ran
    BY <1>2 DEF ProgramStart, StatusStage
  <2> QED BY <1>2, <2>2, <2>3 DEF ProgramStart, StatusStage
<1>3. CASE Manifest
  BY <1>3 DEF Manifest, StatusStage
<1>4. CASE StatusOnly
  BY <1>4 DEF StatusOnly, StatusStage
<1> QED BY <1>1, <1>2, <1>3, <1>4 DEF Complete

\* So does programming.
LEMMA ProgramStep ==
  ASSUME IInv, Program
  PROVE  IInv'
<1> USE DEF IInv, TypeOK, RanInv, OpenInv, BusyInv, States
<1>0. Len(prog.buf) \in Nat /\ prog.buf \in Seq(Contents)
  BY LenProperties DEF Transfer
<1>1. CASE ProgramWord
  <2>1. at \in 1 .. WORDS /\ at + 1 \in 1 .. WORDS + 1 /\ at + 1 <= Len(prog.buf) + 1
    BY <1>0, <1>1, DfuAssumption DEF ProgramWord
  <2>2. prog.buf[at] \in Contents
    BY <1>0, <1>1, ElementOfSeq DEF ProgramWord
  <2>3. flash' \in [FlashPages -> Page]
    BY <1>1, <2>1, <2>2 DEF ProgramWord, Programmed, Page
  <2>4. at # Idle /\ at + 1 # Idle
    BY <2>1 DEF Idle
  <2> QED BY <1>1, <2>1, <2>3, <2>4 DEF ProgramWord
<1>2. CASE ProgramEnd
  <2>1. at # Idle
    BY <1>0, <1>2 DEF ProgramEnd, Idle
  <2> QED BY <1>2, <2>1 DEF ProgramEnd, Downloaded
<1> QED BY <1>1, <1>2 DEF Program

\* Every step of the loader, its host and its power supply keeps the invariant.
LEMMA Step == IInv /\ [Next]_vars => IInv'
<1> SUFFICES ASSUME IInv, [Next]_vars PROVE IInv'
  OBVIOUS
<1>1. CASE Tick
  <2>1. timeout' \in 0 .. LIMIT + 1
    BY <1>1, DfuAssumption DEF Tick, Expired, Older, IInv, TypeOK
  <2> QED BY <1>1, <2>1 DEF Tick, IInv, TypeOK, RanInv, OpenInv, BusyInv
<1>2. CASE PowerLoss
  <2>1. 0 \in PageAddrs /\ 0 \in Blocks /\ << >> \in Seq(Contents) /\ Len(<< >>) = 0
    BY DfuAssumption, EmptySeq DEF PageAddrs
  <2>2. Command("other", 0) \in Transfer /\ Len(Command("other", 0).buf) <= WORDS
    BY <2>1, DfuAssumption DEF Command, Transfer, Commands
  <2>3. at' = Idle /\ timeout' \in 0 .. LIMIT + 1 /\ prog' = Command("other", 0)
    BY <1>2, DfuAssumption DEF PowerLoss
  <2>4. prog' \in Transfer /\ Len(prog'.buf) <= WORDS
    BY <2>2, <2>3
  <2>5. TypeOK'
    BY <1>2, <2>1, <2>3, <2>4 DEF PowerLoss, IInv, TypeOK, States
  <2> QED BY <1>2, <2>5 DEF PowerLoss, IInv, RanInv, OpenInv, BusyInv
<1>3. CASE UNCHANGED vars
  BY <1>3 DEF vars, IInv, TypeOK, RanInv, OpenInv, BusyInv
<1> QED BY <1>1, <1>2, <1>3, RequestStep, CompleteStep, ProgramStep DEF Next

\* The types and the three facts about the state machine.
THEOREM Inductive == Spec => []IInv
BY InitInv, Step, PTL DEF Spec

\* Every variable keeps its type.
THEOREM TypeCorrect == Spec => []TypeOK
<1>1. IInv => TypeOK
  BY DEF IInv
<1> QED BY Inductive, <1>1, PTL

\* A download is carried out at most once, however often the host asks for
\* the status.
THEOREM Once == Spec => CarriedOutOnce
<1>1. IInv /\ [Next]_vars => [ran => flash' = flash /\ at' = Idle]_vars
  <2> SUFFICES ASSUME IInv, Next \/ UNCHANGED vars, ran
               PROVE  flash' = flash /\ at' = Idle
    OBVIOUS
  <2>0. at = Idle
    BY DEF IInv, RanInv
  <2>1. CASE AnyRequest
    BY <2>1, <2>0 DEF AnyRequest, Dnload, DnloadEnd, Abort, OtherRequest, GetStatus
  <2>2. CASE Complete
    BY <2>2, <2>0 DEF Complete, RunCommand, ProgramStart, Manifest, StatusOnly, IInv, RanInv
  <2>3. CASE Program
    <3>1. Len(prog.buf) \in Nat
      BY LenProperties DEF IInv, TypeOK, Transfer
    <3> QED BY <2>3, <2>0, <3>1 DEF Idle, Program, ProgramWord, ProgramEnd
  <2>4. CASE Tick
    BY <2>4, <2>0 DEF Tick
  <2>5. CASE PowerLoss
    BY <2>5 DEF PowerLoss
  <2>6. CASE UNCHANGED vars
    BY <2>6, <2>0 DEF vars
  <2> QED BY <2>1, <2>2, <2>3, <2>4, <2>5, <2>6 DEF Next
<1> QED BY Inductive, <1>1, PTL DEF Spec, CarriedOutOnce

\* The timer never starts the application while a download is open.
THEOREM Spared == Spec => TimerSparesDownload
<1>1. IInv /\ [Next]_vars =>
        [running = "loader" /\ running' = "app" => usbdfu_state = "MANIFEST" \/ ~open]_vars
  <2> SUFFICES ASSUME IInv, Next, running = "loader", running' = "app"
               PROVE  usbdfu_state = "MANIFEST" \/ ~open
    BY DEF vars
  <2>1. CASE Tick
    BY <2>1 DEF Tick, Waiting, IInv, OpenInv
  <2>2. CASE Complete
    BY <2>2 DEF Complete, RunCommand, ProgramStart, Manifest, StatusOnly
  <2>3. CASE AnyRequest
    BY <2>3 DEF AnyRequest, Dnload, DnloadEnd, Abort, OtherRequest, GetStatus
  <2>4. CASE Program
    BY <2>4 DEF Program, ProgramWord, ProgramEnd
  <2>5. CASE PowerLoss
    BY <2>5 DEF PowerLoss
  <2> QED BY <2>1, <2>2, <2>3, <2>4, <2>5 DEF Next
<1> QED BY Inductive, <1>1, PTL DEF Spec, TimerSparesDownload
-----------------------------------------------------------------------------
(* A firmware update.                                                      *)

\* The loader is where the host's transfer can have taken it.
Before ==
  /\ phase = "send" /\ at = Idle
  /\ \/ usbdfu_state = "IDLE" /\ step = 1
     \/ usbdfu_state = "DNLOAD_IDLE" /\ step > 1
     \/ usbdfu_state = "DNLOAD_SYNC" /\ step < LastStep /\ prog = Script[step]
     \/ usbdfu_state = "MANIFEST_SYNC" /\ step = LastStep

During ==
  /\ phase = "poll" /\ step < LastStep /\ prog = Script[step]
  /\ usbdfu_state \in {"DNLOAD_SYNC", "DNBUSY", "DNLOAD_IDLE"}
  /\ at # Idle => prog.blocknum # 0

Ending ==
  /\ phase \in {"poll", "done"} /\ step = LastStep /\ at = Idle
  /\ usbdfu_state \in {"MANIFEST_SYNC", "MANIFEST"}

Gone == phase = "gone" /\ usbdfu_state = "IDLE" /\ at = Idle

HostInv ==
  /\ Before \/ During \/ Ending \/ Gone
  /\ running = "app" => usbdfu_state \in {"IDLE", "MANIFEST"}

\* The transfers of this attempt that were carried out.
Carried == IF phase = "poll" /\ usbdfu_state = "DNLOAD_IDLE" THEN step ELSE step - 1

\* Of the pages of the application the first ones are erased, then all of
\* them, then the first ones hold the image.
ErasedTo(n) == \A p \in AppPages : p < APP + n => flash[p] = [i \in 1 .. WORDS |-> Erased]
ImageTo(n) ==
  \A p \in AppPages :
    /\ p < APP + n => flash[p] = Image[p]
    /\ p >= APP + n => \A i \in 1 .. WORDS :
         flash[p][i] = IF at # Idle /\ p = APP + n /\ i < at THEN Image[p][i] ELSE Erased

FlashInv ==
  phase # "gone" =>
    /\ Carried <= N => ErasedTo(Carried)
    /\ Carried > N => addr = APP /\ ImageTo(Carried - (N + 1))

\* The idle loader, and an application, have what an attempt that was not cut
\* off has left.
TornInv == usbdfu_state = "IDLE" \/ running = "app" => Whole \/ interrupted

SessionInv == IInv /\ SessionTypeOK /\ HostInv /\ FlashInv /\ TornInv
-----------------------------------------------------------------------------
(* The script.                                                             *)

LEMMA Sizes ==
  /\ PAGES \in Nat /\ APP \in Nat /\ N \in Nat \ {0} /\ LastStep = 2 * N + 2 /\ PAGES = APP + N
  /\ WORDS \in Nat \ {0} /\ APP < PAGES /\ PAGES <= ADDRS /\ ADDRS \in Nat
  /\ AppPages \subseteq FlashPages /\ \A p \in AppPages : p \in Nat
BY DfuAssumption DEF N, LastStep, AppPages, FlashPages

\* What each transfer is.
LEMMA ScriptMeaning ==
  ASSUME NEW s \in 1 .. LastStep - 1
  PROVE  /\ s <= N => Script[s] = Command("CMD_ERASE", APP + s - 1) /\ APP + s - 1 \in AppPages
         /\ s = N + 1 => Script[s] = Command("CMD_SETADDR", APP)
         /\ s > N + 1 => Script[s] = Data(s - N, Image[APP + s - N - 2])
                         /\ APP + s - N - 2 \in AppPages /\ s - N \in Blocks \ {0}
         /\ Script[s].blocknum = 0 <=> s <= N + 1
<1>1. s \in Nat /\ s >= 1 /\ s <= 2 * N + 1
  BY Sizes
<1>2. CASE s <= N
  <2>1. Script[s] = Command("CMD_ERASE", APP + s - 1)
    BY <1>2 DEF Script
  <2>2. APP + s - 1 \in AppPages /\ ~(s > N + 1) /\ s # N + 1 /\ s <= N + 1
    BY <1>1, <1>2, Sizes DEF AppPages
  <2> QED BY <2>1, <2>2 DEF Command
<1>3. CASE s = N + 1
  <2>1. Script[s] = Command("CMD_SETADDR", APP)
    BY <1>3, Sizes DEF Script
  <2>2. ~(s > N + 1) /\ ~(s <= N) /\ s <= N + 1
    BY <1>1, <1>3, Sizes
  <2> QED BY <2>1, <2>2 DEF Command
<1>4. CASE s > N + 1
  <2>1. Script[s] = Data(s - N, Image[APP + s - N - 2])
    BY <1>4, Sizes DEF Script
  <2>2. APP + s - N - 2 \in AppPages /\ s - N # 0 /\ ~(s <= N) /\ ~(s <= N + 1) /\ s # N + 1
    BY <1>1, <1>4, Sizes DEF AppPages
  <2>3. (APP + s - N - 2) + 2 - APP = s - N
    BY <1>1, Sizes
  <2>4. s - N \in Blocks
    BY <2>2, <2>3, ImageAssumption
  <2>5. Script[s].blocknum # 0
    BY <2>1, <2>2 DEF Data
  <2> QED BY <2>1, <2>2, <2>4, <2>5
<1> QED BY <1>1, <1>2, <1>3, <1>4, Sizes

\* The image is in words, page by page.
LEMMA ImagePage ==
  ASSUME NEW p \in AppPages
  PROVE  /\ Image[p] \in [1 .. WORDS -> Contents] /\ Image[p] \in Words
         /\ Len(Image[p]) = WORDS /\ DOMAIN Image[p] = 1 .. WORDS
<1>1. Image[p] \in [1 .. WORDS -> Contents]
  BY ImageAssumption
<1>2. WORDS \in 1 .. WORDS
  BY Sizes
<1>3. Image[p] \in Words
  BY <1>1, <1>2 DEF Words
<1>4. Image[p] \in Seq(Contents) /\ Len(Image[p]) = WORDS
  <2>1. WORDS \in Nat
    BY Sizes
  <2> QED BY <1>1, <2>1
<1> QED BY <1>1, <1>3, <1>4

\* The host sends nothing that the loader is not modelled for.
LEMMA ScriptSent ==
  ASSUME NEW s \in 1 .. LastStep - 1
  PROVE  Script[s] \in AnyTransfer
<1>1. \A p \in AppPages : p \in APP .. ADDRS - 1
  BY Sizes DEF AppPages
<1>2. APP \in APP .. ADDRS - 1
  BY Sizes
<1>3. CASE s <= N
  <2>1. Script[s] = Command("CMD_ERASE", APP + s - 1) /\ APP + s - 1 \in AppPages
    BY <1>3, ScriptMeaning
  <2> QED BY <1>1, <2>1 DEF AnyTransfer, Commands
<1>4. CASE s = N + 1
  BY <1>2, <1>4, ScriptMeaning DEF AnyTransfer, Commands
<1>5. CASE s > N + 1
  <2>1. /\ Script[s] = Data(s - N, Image[APP + s - N - 2]) /\ s - N \in Blocks \ {0}
        /\ Image[APP + s - N - 2] \in Words
    BY <1>5, ScriptMeaning, ImagePage
  <2> QED BY <2>1 DEF AnyTransfer
<1> QED BY <1>3, <1>4, <1>5, Sizes
-----------------------------------------------------------------------------
(* A session is a behaviour of the loader.                                 *)

LEMMA SessionStart == SessionInit => Init
<1> SUFFICES ASSUME SessionInit PROVE Init
  OBVIOUS
<1>1. APP \in AppPages /\ 1 \in 1 .. WORDS
  BY Sizes DEF AppPages
<1>2. OldImage[APP][1] \in Contents
  BY <1>1, ImageAssumption
<1>3. \A i \in 1 .. WORDS : LoaderPage[i] \in Contents /\ LoaderPage[i] # Erased
  <2>1. (CHOOSE c \in Contents : TRUE) \in Contents
    BY <1>2
  <2> QED BY <2>1, DfuAssumption DEF LoaderPage
<1>4. LoaderPage \in Page
  BY <1>3 DEF LoaderPage, Page
<1>5. \A p \in AppPages : OldImage[p] \in Page
  BY ImageAssumption DEF Page
<1>6. flash \in [FlashPages -> Page]
  BY <1>4, <1>5 DEF SessionInit
<1>7. \A p \in 0 .. APP - 1 : p \in FlashPages /\ p \notin AppPages
  BY Sizes DEF FlashPages, AppPages
<1>8. LoaderInPlace
  BY <1>3, <1>7 DEF SessionInit, LoaderInPlace
<1> QED BY <1>6, <1>8 DEF SessionInit, Init

LEMMA SessionStep == SessionTypeOK /\ [SessionNext]_sessionVars => [Next]_vars
<1> SUFFICES ASSUME SessionTypeOK, [SessionNext]_sessionVars PROVE [Next]_vars
  OBVIOUS
<1>1. CASE Send
  <2>1. step < LastStep => step \in 1 .. LastStep - 1
    BY Sizes DEF SessionTypeOK
  <2>2. step < LastStep => Script[step] \in AnyTransfer
    BY <2>1, ScriptSent
  <2>3. AnyRequest
    BY <1>1, <2>2 DEF Send, AnyRequest
  <2> QED BY <2>3 DEF Next
<1>2. CASE Poll
  BY <1>2 DEF Poll, Next, AnyRequest
<1>3. CASE Look \/ Restart
  BY <1>3 DEF Look, Restart, Next, AnyRequest
<1>4. CASE PowerFails
  BY <1>4 DEF PowerFails, Next
<1>5. CASE Loader
  BY <1>5 DEF Loader, Next
<1>6. CASE UNCHANGED sessionVars
  BY <1>6 DEF sessionVars
<1> QED BY <1>1, <1>2, <1>3, <1>4, <1>5, <1>6 DEF SessionNext
-----------------------------------------------------------------------------
(* The host and the loader agree.                                          *)

LEMMA HostStep ==
  ASSUME SessionInv, SessionNext
  PROVE  SessionTypeOK' /\ HostInv'
<1>1. /\ IInv' /\ TypeOK' /\ step \in 1 .. LastStep /\ phase \in {"send", "poll", "gone", "done"}
      /\ interrupted \in BOOLEAN /\ at \in {Idle} \union 1 .. WORDS + 1
      /\ usbdfu_state \in States /\ HostInv
  BY SessionStep, Step DEF SessionInv, SessionTypeOK, TypeOK, IInv
<1>2. 1 \in 1 .. LastStep /\ LastStep \in Nat /\ (step < LastStep => step + 1 \in 1 .. LastStep)
  BY <1>1, Sizes
<1>3. interrupted' \in BOOLEAN
  BY <1>1 DEF SessionNext, Send, Poll, Look, Restart, PowerFails, Loader, hostVars
<1>4. /\ step' \in 1 .. LastStep /\ phase' \in {"send", "poll", "gone", "done"}
  BY <1>1, <1>2 DEF SessionNext, Send, Poll, Answered, Look, Restart, PowerFails, Loader, hostVars
<1>5. SessionTypeOK'
  BY <1>1, <1>3, <1>4 DEF SessionTypeOK
<1>6. CASE Send
  <2>1. /\ phase = "send" /\ at = Idle /\ running = "loader" /\ UNCHANGED <<at, running, step>>
        /\ phase' \in {"send", "poll"}
        /\ \/ step < LastStep /\ prog' = Script[step] /\ usbdfu_state' = "DNLOAD_SYNC"
           \/ ~(step < LastStep) /\ usbdfu_state' = "MANIFEST_SYNC"
    BY <1>6 DEF Send, Dnload, DnloadEnd, Request
  <2>2. ~(step < LastStep) => step = LastStep
    BY <1>1, <1>2
  <2>3. Before' \/ During' \/ Ending'
    BY <2>1, <2>2 DEF Before, During, Ending, LastStep, Script, N, Command, Data
  <2> QED BY <1>5, <2>1, <2>3 DEF HostInv
<1>7. CASE Poll
  <2>1. /\ phase = "poll" /\ running = "loader" /\ at = Idle
        /\ usbdfu_state' = StatusOf(usbdfu_state)
        /\ UNCHANGED <<prog, at, running>>
        /\ \/ UNCHANGED <<step, phase>>
           \/ /\ step < LastStep /\ usbdfu_state' = "DNLOAD_IDLE"
              /\ step' = step + 1 /\ phase' = "send"
           \/ /\ ~(step < LastStep) /\ usbdfu_state' = "MANIFEST"
              /\ step' = step /\ phase' = "done"
    BY <1>7 DEF Poll, GetStatus, Answered
  <2>2. During \/ Ending
    BY <1>1, <2>1 DEF HostInv, Before, Gone
  <2>3. Before' \/ During' \/ Ending'
    BY <1>1, <1>2, <2>1, <2>2 DEF StatusOf, Before, During, Ending, LastStep, N, Script, Command, Data
  <2> QED BY <1>5, <2>1, <2>3 DEF HostInv
<1>8. CASE Look \/ (Tick /\ UNCHANGED hostVars)
  <2>1. UNCHANGED <<usbdfu_state, prog, at, step, phase>>
    BY <1>8 DEF Look, OtherRequest, Tick, hostVars
  <2>2. running' = "app" => usbdfu_state' \in {"IDLE", "MANIFEST"}
    BY <1>1, <1>8 DEF Look, OtherRequest, Tick, Waiting, HostInv
  <2>3. (Before \/ During \/ Ending \/ Gone)'
    BY <1>1, <2>1 DEF HostInv, Before, During, Ending, Gone, Script, LastStep, N, Command, Data
  <2> QED BY <1>5, <2>2, <2>3 DEF HostInv
<1>9. CASE Restart
  BY <1>5, <1>9 DEF Restart, Abort, Request, HostInv, Before
<1>10. CASE PowerFails
  BY <1>5, <1>10 DEF PowerFails, PowerLoss, HostInv, Gone
<1>11. CASE Complete /\ UNCHANGED hostVars
  <2>1. UNCHANGED <<prog, step, phase>>
    BY <1>11 DEF Complete, RunCommand, ProgramStart, Manifest, StatusOnly, hostVars
  <2>2. CASE RunCommand \/ ProgramStart
    <3>1. During
      BY <1>1, <2>2 DEF RunCommand, ProgramStart, HostInv, Before, Ending, Gone
    <3>2. /\ usbdfu_state' \in {"DNBUSY", "DNLOAD_IDLE"}
          /\ at' # Idle => prog.blocknum # 0
      BY <2>2 DEF RunCommand, ProgramStart, StatusStage, Downloaded
    <3>3. running' = "loader"
      BY <2>2 DEF RunCommand, ProgramStart, StatusStage
    <3>4. During'
      BY <2>1, <3>1, <3>2 DEF During, Script, LastStep, N, Command, Data
    <3> QED BY <1>5, <3>3, <3>4 DEF HostInv
  <2>3. CASE Manifest \/ StatusOnly
    <3>1. UNCHANGED <<usbdfu_state, at>>
      BY <2>3 DEF Manifest, StatusOnly
    <3>2. running' = "app" => usbdfu_state' \in {"IDLE", "MANIFEST"}
      BY <1>1, <2>3 DEF Manifest, StatusOnly, HostInv
    <3>3. (Before \/ During \/ Ending \/ Gone)'
      BY <1>1, <2>1, <3>1 DEF HostInv, Before, During, Ending, Gone, Script, LastStep, N, Command, Data
    <3> QED BY <1>5, <3>2, <3>3 DEF HostInv
  <2> QED BY <1>11, <2>2, <2>3 DEF Complete
<1>12. CASE Program /\ UNCHANGED hostVars
  <2>1. /\ UNCHANGED <<prog, step, phase, running>> /\ at # Idle
        /\ usbdfu_state' = usbdfu_state \/ (usbdfu_state' = "DNLOAD_IDLE" /\ at' = Idle)
    <3>1. at # Idle
      <4>1. Len(prog.buf) \in Nat
        BY LenProperties DEF SessionInv, IInv, TypeOK, Transfer
      <4> QED BY <4>1, <1>12 DEF Program, ProgramWord, ProgramEnd, Idle
    <3> QED BY <1>12, <3>1 DEF Program, ProgramWord, ProgramEnd, Downloaded, hostVars
  <2>2. During
    BY <1>1, <2>1 DEF HostInv, Before, Ending, Gone
  <2>3. running = "loader"
    BY <2>1 DEF SessionInv, IInv, BusyInv
  <2>4. During'
    BY <2>1, <2>2 DEF During, Script, LastStep, N, Command, Data
  <2> QED BY <1>5, <2>1, <2>3, <2>4 DEF HostInv
<1> QED BY <1>6, <1>7, <1>8, <1>9, <1>10, <1>11, <1>12 DEF SessionNext, Loader
-----------------------------------------------------------------------------
(* What is in the flash.                                                   *)

\* No more was carried out, and the flash is as it was.
LEMMA FlashKept ==
  ASSUME FlashInv, UNCHANGED <<flash, addr, at>>,
         phase' # "gone" => phase # "gone" /\ Carried' = Carried
  PROVE  FlashInv'
<1>1. ASSUME phase' # "gone"
      PROVE  /\ Carried' <= N => ErasedTo(Carried)'
             /\ Carried' > N => addr' = APP /\ ImageTo(Carried - (N + 1))'
  <2>1. Carried' = Carried /\ phase # "gone"
    BY <1>1
  <2>2. ErasedTo(Carried)' <=> ErasedTo(Carried)
    BY <2>1 DEF ErasedTo, AppPages
  <2>3. ImageTo(Carried - (N + 1))' <=> ImageTo(Carried - (N + 1))
    BY <2>1 DEF ImageTo, AppPages, N
  <2> QED BY <2>1, <2>2, <2>3 DEF FlashInv
<1> QED BY <1>1 DEF FlashInv, N

\* A command is carried out: a page is erased or the address set.
LEMMA CommandFlash ==
  ASSUME SessionInv, RunCommand, UNCHANGED hostVars
  PROVE  FlashInv'
<1>1. /\ usbdfu_state = "DNBUSY" /\ prog.blocknum = 0 /\ at = Idle /\ at' = at
      /\ usbdfu_state' = "DNLOAD_IDLE" /\ UNCHANGED <<step, phase>>
  BY DEF RunCommand, StatusStage, Downloaded, hostVars
<1>2. phase = "poll" /\ step < LastStep /\ prog = Script[step] /\ step \in 1 .. LastStep - 1
  BY <1>1, Sizes DEF SessionInv, HostInv, Before, During, Ending, Gone, SessionTypeOK
<1>3. Carried = step - 1 /\ Carried' = step /\ step \in Nat
  BY <1>1, <1>2, Sizes DEF Carried
<1>4. step <= N + 1
  BY <1>1, <1>2, ScriptMeaning
<1>5. ErasedTo(step - 1)
  BY <1>2, <1>3, <1>4, Sizes DEF SessionInv, FlashInv
<1>6. CASE step <= N
  <2> DEFINE q == APP + step - 1
  <2>1. prog.cmd = "CMD_ERASE" /\ prog.arg = q /\ q \in AppPages /\ q \in FlashPages
    <3>1. prog = Command("CMD_ERASE", q) /\ q \in AppPages
      BY <1>2, <1>6, ScriptMeaning
    <3> QED BY <3>1, Sizes DEF Command
  <2>2. flash' = [flash EXCEPT ![q] = [i \in 1 .. WORDS |-> Erased]]
    BY <2>1 DEF RunCommand
  <2>3. \A p \in AppPages : flash'[p] = IF p = q THEN [i \in 1 .. WORDS |-> Erased] ELSE flash[p]
    BY <2>2, Sizes DEF SessionInv, IInv, TypeOK
  <2>4. \A p \in AppPages : p < APP + step => p = q \/ p < APP + (step - 1)
    BY <1>3, Sizes
  <2>5. ErasedTo(step)'
    BY <1>1, <1>5, <2>3, <2>4 DEF ErasedTo
  <2>6. ErasedTo(Carried)'
    BY <1>1, <1>3, <2>5 DEF ErasedTo
  <2>7. ~(step > N)
    BY <1>3, <1>6, Sizes
  <2> QED BY <1>3, <2>6, <2>7 DEF FlashInv, N
<1>7. CASE step = N + 1
  <2>1. prog.cmd = "CMD_SETADDR" /\ prog.arg = APP
    <3>1. prog = Command("CMD_SETADDR", APP)
      BY <1>2, <1>7, ScriptMeaning
    <3> QED BY <3>1 DEF Command
  <2>2. flash' = flash /\ addr' = APP
    BY <2>1 DEF RunCommand
  <2>3. \A p \in AppPages : p < APP + N /\ ~(p < APP + 0) /\ p >= APP + 0
    BY Sizes DEF AppPages
  <2>4. \A p \in AppPages : flash[p] = [i \in 1 .. WORDS |-> Erased]
    BY <1>5, <1>7, <2>3, Sizes DEF ErasedTo
  <2>5. \A p \in AppPages, i \in 1 .. WORDS : flash[p][i] = Erased
    BY <2>4
  <2>6. ImageTo(0)'
    BY <1>1, <2>2, <2>3, <2>5 DEF ImageTo
  <2>7. Carried' - (N + 1) = 0 /\ Carried' > N /\ ~(Carried' <= N)
    BY <1>3, <1>7, Sizes
  <2>8. ImageTo(Carried - (N + 1))'
    BY <2>6, <2>7 DEF ImageTo, N
  <2> QED BY <2>2, <2>7, <2>8 DEF FlashInv, N
<1> QED BY <1>3, <1>4, <1>6, <1>7, Sizes

\* The loader programs the page after those that hold the image.
LEMMA ProgramPage ==
  ASSUME SessionInv, usbdfu_state = "DNBUSY", prog.blocknum # 0
  PROVE  /\ phase = "poll" /\ step \in N + 2 .. LastStep - 1
         /\ Carried = step - 1 /\ Carried > N
         /\ Base = APP + (Carried - (N + 1)) /\ Base \in AppPages
         /\ prog.buf = Image[Base] /\ Len(prog.buf) = WORDS /\ DOMAIN prog.buf = 1 .. WORDS
         /\ addr = APP /\ ImageTo(Carried - (N + 1))
<1>1. phase = "poll" /\ step < LastStep /\ prog = Script[step] /\ step \in 1 .. LastStep - 1
  BY Sizes DEF SessionInv, HostInv, Before, During, Ending, Gone, SessionTypeOK
<1>2. Carried = step - 1 /\ step \in Nat
  BY <1>1, Sizes DEF Carried
<1>3. step > N + 1
  BY <1>1, <1>2, ScriptMeaning, Sizes
<1>4. Carried > N /\ step \in N + 2 .. LastStep - 1
  BY <1>1, <1>2, <1>3, Sizes
<1>5. addr = APP /\ ImageTo(Carried - (N + 1))
  BY <1>1, <1>4 DEF SessionInv, FlashInv
<1>6. /\ prog = Data(step - N, Image[APP + step - N - 2])
      /\ APP + step - N - 2 \in AppPages
  BY <1>1, <1>3, ScriptMeaning
<1>7. prog.blocknum = step - N /\ prog.buf = Image[APP + step - N - 2]
  BY <1>6 DEF Data
<1>8. Base = APP + step - N - 2
  <2>1. addr + prog.blocknum - 2 = APP + step - N - 2
    BY <1>2, <1>5, <1>7, Sizes
  <2>2. APP + step - N - 2 \in 0 .. ADDRS - 1
    BY <1>6, Sizes DEF AppPages
  <2>3. (APP + step - N - 2) % ADDRS = APP + step - N - 2
    BY <2>2, Sizes
  <2> QED BY <2>1, <2>3 DEF Base
<1>9. APP + step - N - 2 = APP + (Carried - (N + 1))
  BY <1>2, Sizes
<1> QED BY <1>1, <1>2, <1>4, <1>5, <1>6, <1>7, <1>8, <1>9, ImagePage

LEMMA ProgramFlash ==
  ASSUME SessionInv, Program, UNCHANGED hostVars
  PROVE  FlashInv'
<1> DEFINE n == Carried - (N + 1)
<1>1. /\ at # Idle /\ usbdfu_state = "DNBUSY" /\ prog.blocknum # 0
      /\ at \in 1 .. WORDS + 1 /\ at \in Nat
  <2>1. Len(prog.buf) \in Nat
    BY LenProperties DEF SessionInv, IInv, TypeOK, Transfer
  <2>2. at # Idle
    BY <2>1 DEF Program, ProgramWord, ProgramEnd, Idle
  <2> QED BY <2>2, Sizes DEF SessionInv, IInv, TypeOK, BusyInv, HostInv, Before, During, Ending, Gone
<1>2. /\ phase = "poll" /\ step \in N + 2 .. LastStep - 1
      /\ Carried = step - 1 /\ Carried > N
      /\ Base = APP + n /\ Base \in AppPages
      /\ prog.buf = Image[Base] /\ Len(prog.buf) = WORDS
      /\ addr = APP /\ ImageTo(n)
  BY <1>1, ProgramPage
<1>3. UNCHANGED <<step, phase, addr>>
  BY DEF Program, ProgramWord, ProgramEnd, hostVars
<1>4. step \in Nat /\ Carried \in Nat /\ n \in Nat
  <2>1. step \in N + 2 .. LastStep - 1 /\ Carried = step - 1
    BY <1>2
  <2>2. N \in Nat /\ LastStep \in Nat
    BY Sizes
  <2> HIDE DEF Carried, N, LastStep
  <2> QED BY <2>1, <2>2
<1> HIDE DEF n
<1>5. Base \in FlashPages /\ \A p \in AppPages : p \in Nat
  <2>1. Base \in AppPages
    BY <1>2
  <2>2. AppPages \subseteq FlashPages /\ \A p \in AppPages : p \in Nat
    BY Sizes
  <2> QED BY <2>1, <2>2, Zenon
<1>6. CASE ProgramWord
  <2>1. /\ at \in 1 .. WORDS /\ at' = at + 1 /\ usbdfu_state' = usbdfu_state /\ at' # Idle
        /\ flash' = [flash EXCEPT ![Base][at] = Programmed(prog.buf[at], flash[Base][at])]
    BY <1>1, <1>2, <1>5, <1>6 DEF ProgramWord, Idle
  <2>2. flash[Base][at] = Erased
    BY <1>2, <1>4, <1>5, <2>1 DEF ImageTo
  <2>3. /\ flash[Base] \in Page
        /\ \A p \in AppPages : p # Base => flash'[p] = flash[p]
        /\ \A i \in 1 .. WORDS : flash'[Base][i] = IF i = at THEN Image[Base][at] ELSE flash[Base][i]
    <3>1. flash \in [FlashPages -> Page] /\ AppPages \subseteq FlashPages
      BY Sizes DEF SessionInv, IInv, TypeOK
    <3>2. Programmed(prog.buf[at], flash[Base][at]) = Image[Base][at]
      BY <1>2, <2>2 DEF Programmed
    <3>3. flash'[Base] = [flash[Base] EXCEPT ![at] = Image[Base][at]]
      BY <1>5, <2>1, <3>1, <3>2
    <3> QED BY <1>5, <2>1, <3>1, <3>3 DEF Page
  <2>4. Carried' = Carried
    BY <1>1, <1>2, <1>3, <2>1 DEF Carried
  <2>5. \A p \in AppPages : p < APP + n => flash'[p] = Image[p]
    BY <1>2, <1>4, <1>5, <2>3, Sizes DEF ImageTo
  <2>6. ASSUME NEW p \in AppPages, p >= APP + n, NEW i \in 1 .. WORDS
        PROVE  flash'[p][i] = IF p = APP + n /\ i < at' THEN Image[p][i] ELSE Erased
    <3>1. flash[p][i] = IF p = APP + n /\ i < at THEN Image[p][i] ELSE Erased
      BY <1>1, <1>2, <2>6 DEF ImageTo
    <3>2. CASE p = Base
      BY <1>1, <1>2, <2>1, <2>3, <3>1, <3>2
    <3>3. CASE p # Base
      BY <1>2, <2>3, <3>1, <3>3
    <3> QED BY <3>2, <3>3
  <2>7. ImageTo(Carried - (N + 1))'
    BY <2>1, <2>4, <2>5, <2>6 DEF ImageTo, n, N, AppPages
  <2> QED BY <1>2, <1>3, <1>4, <2>4, <2>7, Sizes DEF FlashInv, N
<1>7. CASE ProgramEnd
  <2>1. /\ at = WORDS + 1 /\ at' = Idle /\ usbdfu_state' = "DNLOAD_IDLE" /\ flash' = flash
    BY <1>2, <1>7 DEF ProgramEnd, Downloaded
  <2>2. flash[Base] = Image[Base]
    <3>1. \A i \in 1 .. WORDS : flash[Base][i] = Image[Base][i]
      BY <1>1, <1>2, <1>4, <1>5, <2>1, Sizes DEF ImageTo
    <3>2. flash[Base] \in Page /\ Image[Base] \in [1 .. WORDS -> Contents]
      BY <1>2, <1>5, ImagePage DEF SessionInv, IInv, TypeOK
    <3>3. /\ flash[Base] = [i \in 1 .. WORDS |-> flash[Base][i]]
          /\ Image[Base] = [i \in 1 .. WORDS |-> Image[Base][i]]
      BY <3>2 DEF Page
    <3> QED BY <3>1, <3>3
  <2>3. Carried' = Carried + 1 /\ Carried' - (N + 1) = n + 1 /\ Carried' > N
    BY <1>2, <1>3, <1>4, <2>1, Sizes DEF Carried, n
  <2>4. \A p \in AppPages : p < APP + (n + 1) => flash[p] = Image[p]
    <3>1. \A p \in AppPages : p < APP + (n + 1) => p = Base \/ p < APP + n
      BY <1>2, <1>4, <1>5, Sizes
    <3> QED BY <1>2, <2>2, <3>1 DEF ImageTo
  <2>5. ASSUME NEW p \in AppPages, NEW i \in 1 .. WORDS, p >= APP + (n + 1)
        PROVE  flash[p][i] = Erased
    <3>1. p >= APP + n /\ p # APP + n
      BY <1>4, <1>5, <2>5, Sizes
    <3> QED BY <1>2, <3>1 DEF ImageTo
  <2>6. ImageTo(Carried - (N + 1))'
    BY <2>1, <2>3, <2>4, <2>5 DEF ImageTo, AppPages, N
  <2>7. ~(Carried' <= N)
    BY <1>4, <2>3, Sizes
  <2> QED BY <1>2, <1>3, <2>3, <2>6, <2>7 DEF FlashInv, N
<1> QED BY <1>6, <1>7 DEF Program

LEMMA FlashStep ==
  ASSUME SessionInv, SessionNext
  PROVE  FlashInv'
<1>1. /\ FlashInv /\ step \in 1 .. LastStep /\ step \in Nat /\ HostInv
      /\ SessionTypeOK' /\ HostInv'
  BY HostStep, Sizes DEF SessionInv, SessionTypeOK
<1>2. CASE Send
  <2>1. /\ phase = "send" /\ phase' \in {"send", "poll"} /\ step' = step
        /\ usbdfu_state' \in {"DNLOAD_SYNC", "MANIFEST_SYNC"}
        /\ UNCHANGED <<flash, addr, at>>
    BY <1>2 DEF Send, Dnload, DnloadEnd
  <2>2. Carried' = Carried
    BY <2>1 DEF Carried
  <2> QED BY <1>1, <2>1, <2>2, FlashKept
<1>3. CASE Poll
  <2>1. /\ phase = "poll" /\ UNCHANGED <<flash, addr, at>>
        /\ usbdfu_state' = StatusOf(usbdfu_state)
        /\ \/ UNCHANGED <<step, phase>>
           \/ usbdfu_state' = "DNLOAD_IDLE" /\ step' = step + 1 /\ phase' = "send"
           \/ usbdfu_state' = "MANIFEST" /\ step' = step /\ phase' = "done"
    BY <1>3 DEF Poll, GetStatus, Answered
  <2>2. usbdfu_state' = "DNLOAD_IDLE" <=> usbdfu_state = "DNLOAD_IDLE"
    BY <2>1 DEF StatusOf
  <2>3. Carried' = Carried
    BY <1>1, <2>1, <2>2 DEF Carried
  <2> QED BY <1>1, <2>1, <2>3, FlashKept
<1>4. CASE Look \/ (Tick /\ UNCHANGED hostVars)
  <2>1. UNCHANGED <<usbdfu_state, step, phase, flash, addr, at>>
    BY <1>4 DEF Look, OtherRequest, Tick, hostVars
  <2> QED BY <1>1, <2>1, FlashKept DEF Carried
<1>5. CASE Restart
  <2>1. step' = 1 /\ phase' = "send"
    BY <1>5 DEF Restart
  <2>2. Carried' = 0
    BY <2>1 DEF Carried
  <2>3. \A p \in AppPages : ~(p < APP + 0)
    BY Sizes DEF AppPages
  <2>4. ErasedTo(Carried)'
    BY <2>2, <2>3 DEF ErasedTo, AppPages
  <2>5. ~(Carried' > N)
    BY <2>2, Sizes
  <2> QED BY <2>4, <2>5 DEF FlashInv, N
<1>6. CASE PowerFails
  BY <1>6 DEF PowerFails, FlashInv
<1>7. CASE (ProgramStart \/ Manifest \/ StatusOnly) /\ UNCHANGED hostVars
  <2>1. UNCHANGED <<usbdfu_state, step, phase, flash, addr>>
    BY <1>7 DEF ProgramStart, Manifest, StatusOnly, hostVars
  <2>2. Carried' = Carried
    BY <2>1 DEF Carried
  <2>3. CASE at' = at
    BY <1>1, <2>1, <2>2, <2>3, FlashKept
  <2>4. CASE at' # at
    <3>1. ProgramStart /\ at = Idle /\ at' = 1 /\ usbdfu_state = "DNBUSY" /\ prog.blocknum # 0
      BY <1>7, <2>4 DEF ProgramStart, Manifest, StatusOnly, StatusStage
    <3>2. Carried > N /\ addr = APP /\ ImageTo(Carried - (N + 1)) /\ Carried = step - 1
      BY <3>1, ProgramPage
    <3>3. \A i \in 1 .. WORDS : ~(i < 1)
      OBVIOUS
    <3>4. ImageTo(Carried - (N + 1))'
      BY <2>1, <2>2, <3>1, <3>2, <3>3 DEF ImageTo, AppPages, N
    <3>5. Carried' > N /\ ~(Carried' <= N)
      BY <1>1, <2>2, <3>2, Sizes
    <3> QED BY <2>1, <3>2, <3>4, <3>5 DEF FlashInv, N
  <2> QED BY <2>3, <2>4
<1> QED BY <1>2, <1>3, <1>4, <1>5, <1>6, <1>7, CommandFlash, ProgramFlash
        DEF SessionNext, Loader, Complete
-----------------------------------------------------------------------------
(* What an application that runs is made of.                               *)

\* All transfers were carried out when the host ends its download.
LEMMA AllProgrammed ==
  ASSUME SessionInv, usbdfu_state \in {"MANIFEST_SYNC", "MANIFEST"}
  PROVE  InFlash = Image
<1>1. /\ step = LastStep /\ phase # "gone" /\ at = Idle
  BY DEF SessionInv, HostInv, Before, During, Ending, Gone
<1>2. Carried = 2 * N + 1 /\ Carried > N /\ Carried - (N + 1) = N
  BY <1>1, Sizes DEF Carried
<1>3. ImageTo(N)
  BY <1>1, <1>2 DEF SessionInv, FlashInv
<1>4. \A p \in AppPages : p < APP + N
  BY Sizes DEF AppPages
<1>5. \A p \in AppPages : flash[p] = Image[p]
  BY <1>3, <1>4 DEF ImageTo
<1>6. Image = [p \in AppPages |-> Image[p]]
  BY ImageAssumption
<1> QED BY <1>5, <1>6 DEF InFlash

LEMMA TornStep ==
  ASSUME SessionInv, SessionNext
  PROVE  TornInv'
<1>1. TornInv /\ interrupted \in BOOLEAN
  BY DEF SessionInv, SessionTypeOK
<1>2. flash' = flash => (Whole' <=> Whole)
  BY DEF Whole, InFlash, AppPages
<1>3. CASE Restart \/ PowerFails
  <2>1. flash' = flash /\ interrupted' = (interrupted \/ ~Whole)
    BY <1>3 DEF Restart, Abort, PowerFails, PowerLoss
  <2> QED BY <1>1, <1>2, <2>1 DEF TornInv
<1>4. CASE Send
  <2>1. usbdfu_state' # "IDLE" /\ running' # "app"
    BY <1>4 DEF Send, Dnload, DnloadEnd, Request
  <2> QED BY <2>1 DEF TornInv
<1>5. CASE Poll
  <2>1. /\ usbdfu_state' = StatusOf(usbdfu_state) /\ UNCHANGED <<running, flash, interrupted>>
    BY <1>5 DEF Poll, GetStatus
  <2>2. usbdfu_state' = "IDLE" => usbdfu_state = "IDLE"
    BY <2>1 DEF StatusOf
  <2> QED BY <1>1, <1>2, <2>1, <2>2 DEF TornInv
<1>6. CASE Look
  BY <1>1, <1>2, <1>6 DEF Look, OtherRequest, TornInv, hostVars
<1>7. CASE Tick /\ UNCHANGED hostVars
  <2>1. /\ UNCHANGED <<usbdfu_state, flash, interrupted>>
        /\ running' = "app" => running = "app" \/ usbdfu_state = "IDLE"
    BY <1>7 DEF Tick, Waiting, hostVars
  <2> QED BY <1>1, <1>2, <2>1 DEF TornInv
<1>8. CASE (StatusOnly \/ Manifest) /\ UNCHANGED hostVars
  <2>1. UNCHANGED <<usbdfu_state, flash, interrupted>>
    BY <1>8 DEF StatusOnly, Manifest, hostVars
  <2>2. CASE running' = "app" /\ running # "app"
    <3>1. usbdfu_state = "MANIFEST"
      BY <1>8, <2>2 DEF StatusOnly, Manifest
    <3>2. Whole
      BY <3>1, AllProgrammed DEF Whole
    <3> QED BY <1>2, <2>1, <3>2 DEF TornInv
  <2>3. CASE ~(running' = "app" /\ running # "app")
    BY <1>1, <1>2, <2>1, <2>3 DEF TornInv
  <2> QED BY <2>2, <2>3
<1>9. CASE RunCommand \/ ProgramStart \/ Program
  <2>1. running = "loader" /\ usbdfu_state = "DNBUSY"
    <3>1. CASE Program
      <4>1. Len(prog.buf) \in Nat
        BY LenProperties DEF SessionInv, IInv, TypeOK, Transfer
      <4>2. at # Idle
        BY <3>1, <4>1 DEF Program, ProgramWord, ProgramEnd, Idle
      <4> QED BY <4>2 DEF SessionInv, IInv, BusyInv
    <3> QED BY <1>9, <3>1 DEF RunCommand, ProgramStart, StatusStage
  <2>2. running' = "loader" /\ usbdfu_state' # "IDLE"
    BY <1>9, <2>1 DEF RunCommand, ProgramStart, Program, ProgramWord, ProgramEnd, Downloaded
  <2> QED BY <2>2 DEF TornInv
<1> QED BY <1>3, <1>4, <1>5, <1>6, <1>7, <1>8, <1>9 DEF SessionNext, Loader, Complete
-----------------------------------------------------------------------------
(* The theorems.                                                           *)

LEMMA SessionInitial == SessionInit => SessionInv
<1> SUFFICES ASSUME SessionInit PROVE SessionInv
  OBVIOUS
<1>1. IInv
  BY SessionStart, InitInv
<1>2. /\ usbdfu_state = "IDLE" /\ at = Idle /\ running = "loader" /\ step = 1
      /\ phase = "send" /\ interrupted = FALSE
  BY DEF SessionInit, Fresh
<1>3. SessionTypeOK
  <2>1. 1 \in 1 .. LastStep
    BY Sizes
  <2> QED BY <1>1, <1>2, <2>1 DEF SessionTypeOK, IInv
<1>4. HostInv
  BY <1>2 DEF HostInv, Before
<1>5. FlashInv
  <2>1. Carried = 0 /\ ~(Carried > N)
    BY <1>2, Sizes DEF Carried
  <2>2. \A p \in AppPages : ~(p < APP + 0)
    BY Sizes DEF AppPages
  <2> QED BY <2>1, <2>2 DEF FlashInv, ErasedTo
<1>6. InFlash = OldImage
  <2>1. \A p \in AppPages : flash[p] = OldImage[p]
    BY Sizes DEF SessionInit
  <2>2. OldImage = [p \in AppPages |-> OldImage[p]]
    BY ImageAssumption
  <2> QED BY <2>1, <2>2 DEF InFlash
<1> QED BY <1>1, <1>3, <1>4, <1>5, <1>6 DEF SessionInv, TornInv, Whole

\* The host's script, the loader's states and the flash agree.
THEOREM SessionInductive == SessionSpec => []SessionInv
<1>1. SessionInv /\ [SessionNext]_sessionVars => SessionInv'
  <2> SUFFICES ASSUME SessionInv, [SessionNext]_sessionVars PROVE SessionInv'
    OBVIOUS
  <2>1. IInv'
    BY SessionStep, Step DEF SessionInv
  <2>2. CASE SessionNext
    BY <2>1, <2>2, HostStep, FlashStep, TornStep DEF SessionInv
  <2>3. CASE UNCHANGED sessionVars
    <3>1. /\ UNCHANGED <<usbdfu_state, prog, addr, at, running, flash, step, phase, interrupted>>
      BY <2>3 DEF sessionVars, vars, hostVars
    <3>2. SessionTypeOK'
      BY <2>1, <3>1 DEF SessionInv, SessionTypeOK, IInv
    <3>3. HostInv'
      BY <3>1 DEF SessionInv, HostInv, Before, During, Ending, Gone, Script, LastStep, N, Command, Data
    <3>4. FlashInv'
      BY <3>1, FlashKept DEF SessionInv, Carried
    <3>5. TornInv'
      BY <3>1 DEF SessionInv, TornInv, Whole, InFlash, AppPages
    <3> QED BY <2>1, <3>2, <3>3, <3>4, <3>5 DEF SessionInv
  <2> QED BY <2>2, <2>3
<1> QED BY SessionInitial, <1>1, PTL DEF SessionSpec

\* An update is one of the things that can happen to the loader: whatever is
\* proved of the loader holds of updates.
THEOREM SessionIsLoader == SessionSpec => Spec
<1>1. SessionInv => SessionTypeOK
  BY DEF SessionInv
<1> QED BY <1>1, SessionStart, SessionStep, SessionInductive, PTL DEF SessionSpec, Spec

\* In an update too a transfer is carried out once, however often the link
\* makes the host ask.
THEOREM OnceInSession == SessionSpec => CarriedOutOnce
BY SessionIsLoader, Once, PTL

\* In an update too the timer never cuts off a download.
THEOREM SparedInSession == SessionSpec => TimerSparesDownload
BY SessionIsLoader, Spared, PTL

\* A completed download runs the image it downloaded.
THEOREM RunsImage == SessionSpec => []ManifestRunsImage
<1>1. SessionInv => ManifestRunsImage
  BY AllProgrammed DEF ManifestRunsImage
<1> QED BY SessionInductive, <1>1, PTL

\* Every word is programmed once, where it belongs, in a page that was erased.
THEOREM NothingRefused == SessionSpec => []ProgramsErased
<1>1. SessionInv => ProgramsErased
  <2> SUFFICES ASSUME SessionInv, at \in DOMAIN prog.buf
               PROVE  Base \in AppPages /\ flash[Base][at] = Erased /\ prog.buf = Image[Base]
    BY DEF ProgramsErased
  <2>1. at # Idle
    <3>1. prog.buf \in Seq(Contents)
      BY DEF SessionInv, IInv, TypeOK, Transfer
    <3>2. DOMAIN prog.buf = 1 .. Len(prog.buf) /\ Len(prog.buf) \in Nat
      BY <3>1, LenProperties
    <3> QED BY <3>2 DEF Idle
  <2>2. usbdfu_state = "DNBUSY" /\ prog.blocknum # 0
    BY <2>1 DEF SessionInv, IInv, BusyInv, HostInv, Before, During, Ending, Gone
  <2>3. /\ Base = APP + (Carried - (N + 1)) /\ Base \in AppPages
        /\ prog.buf = Image[Base] /\ DOMAIN prog.buf = 1 .. WORDS
        /\ ImageTo(Carried - (N + 1))
    BY <2>2, ProgramPage
  <2>4. at \in 1 .. WORDS /\ Base >= Base /\ ~(at < at)
    BY <2>3, Sizes
  <2>5. flash[Base][at] = Erased
    BY <2>3, <2>4 DEF ImageTo
  <2> QED BY <2>3, <2>5
<1> QED BY SessionInductive, <1>1, PTL

\* A half written application runs only after an update was cut off.
THEOREM TornByCutOnly == SessionSpec => []TornOnlyIfInterrupted
<1>1. SessionInv => TornOnlyIfInterrupted
  BY DEF SessionInv, TornInv, TornOnlyIfInterrupted
<1> QED BY SessionInductive, <1>1, PTL
=============================================================================
