------------------------------- MODULE Rawd --------------------------------
(***************************************************************************)
(* The raw feed, firmware/net/rawd.c: rawd_push, called by the data_rx     *)
(* thread, leaves the frame in buf_frame; the rawd_push thread writes it   *)
(* to every client; the rawd thread accepts clients into NC_COUNT slots.   *)
(* All three take rawd_mutex.                                              *)
(*                                                                         *)
(* data_rx outranks the other two: rawd_push is one action once it has the *)
(* mutex.  The other two run at the same priority, LOWPRIO + 2, and share  *)
(* the processor in slices.  The lwIP thread runs below them, at LOWPRIO + *)
(* 1 (lwipopts.h), whenever they are blocked: what the network did before  *)
(* a netconn call takes effect in it, ahead of the call itself.  The model *)
(* lets it take effect between any two steps, a superset of these orders.  *)
(*                                                                         *)
(* The lwIP calls are external.  A netconn_write copies from the caller's  *)
(* buffer when the send buffer has room, at once or later; meanwhile its   *)
(* caller is blocked and another write on the connection fails.  The state *)
(* of a dead connection is read through a null pcb; address 0 holds the    *)
(* bootloader's vectors, none of which reads as ESTABLISHED.               *)
(***************************************************************************)
EXTENDS Integers, Sequences, FiniteSets

CONSTANTS
  NC_COUNT,   \* slots for clients (3)
  Clients,    \* the connections that are made
  NoConn,     \* NULL
  MaxFrames   \* bound: frames pushed

ASSUME RawdAssumption ==
  /\ NC_COUNT \in Nat \ {0} /\ MaxFrames \in Nat
  /\ NoConn \notin Clients

VARIABLES
  tcp,        \* lwIP: the state of each connection
  backlog,    \* lwIP: connections netconn_accept has not returned yet
  stalled,    \* lwIP: connections whose send buffer is full
  pend,       \* lwIP: the thread whose write waits on the connection
  sent,       \* lwIP: what was written to each connection
  ncs,        \* the slots
  owner,      \* rawd_mutex
  buf_frame,  \* the frame to push, frames being numbered 1, 2, ...
  evt,        \* an event is pending for the rawd_push thread
  drx,        \* data_rx: "idle", or "push" while in rawd_push
  pushed,     \* frames passed to rawd_push so far
  ppc, pi,    \* the rawd_push thread and its loop index
  rpc, ri,    \* the rawd thread and its loop index
  free, nc,   \* rawd_new's locals; free = -1 for none
  room        \* history: there was a slot for nc when rawd_new got the mutex

tcpVars == <<tcp, backlog, stalled, pend, sent>>
pushVars == <<ppc, pi>>
rawdVars == <<rpc, ri, free, nc, room>>
vars == <<tcpVars, ncs, owner, buf_frame, evt, drx, pushed, pushVars, rawdVars>>

Nobody == "nobody"
Ready == -1  \* the greeting RAWD_READY, as a message beside the frames
Full == -2   \* RAWD_FULL
Slots == 0 .. NC_COUNT - 1
Messages == Full .. MaxFrames

TypeOK ==
  /\ tcp \in [Clients -> {"none", "est", "closing", "dead", "deleted"}]
  /\ backlog \in SUBSET Clients /\ stalled \in SUBSET Clients
  /\ pend \in [Clients -> {Nobody, "push", "rawd"}]
  /\ sent \in [Clients -> Seq(Messages)]
  /\ ncs \in [Slots -> Clients \union {NoConn}]
  /\ owner \in {Nobody, "push", "rawd"}
  /\ buf_frame \in 0 .. MaxFrames /\ evt \in BOOLEAN
  /\ drx \in {"idle", "push"} /\ pushed \in 0 .. MaxFrames
  /\ ppc \in {"wait", "lock", "scan", "write", "blocked"}
  /\ pi \in 0 .. NC_COUNT
  /\ rpc \in {"accept", "lock", "scan", "ready", "blocked"}
  /\ ri \in 0 .. NC_COUNT /\ free \in {-1} \union Slots
  /\ nc \in Clients \union {NoConn} /\ room \in BOOLEAN

\* rawd_init, with both threads at their first blocking call.
Init ==
  /\ tcp = [c \in Clients |-> "none"] /\ backlog = {} /\ stalled = {}
  /\ pend = [c \in Clients |-> Nobody] /\ sent = [c \in Clients |-> << >>]
  /\ ncs = [i \in Slots |-> NoConn] /\ owner = Nobody
  /\ buf_frame = 0 /\ evt = FALSE /\ drx = "idle" /\ pushed = 0
  /\ ppc = "wait" /\ pi = 0
  /\ rpc = "accept" /\ ri = 0 /\ free = -1 /\ nc = NoConn
  /\ room = FALSE
-----------------------------------------------------------------------------
(* lwIP and the clients.                                                   *)

Open(c) == tcp[c] \in {"est", "closing"}
Established(c) == tcp[c] = "est"

Connect(c) ==
  /\ tcp[c] = "none"
  /\ tcp' = [tcp EXCEPT ![c] = "est"]
  /\ backlog' = backlog \union {c}
  /\ UNCHANGED <<stalled, pend, sent>>

\* The client stops reading and the send buffer fills up.
Stall(c) ==
  /\ Open(c) /\ sent[c] # << >>
  /\ stalled' = stalled \union {c}
  /\ UNCHANGED <<tcp, backlog, pend, sent>>

\* The client reads: a write that waited copies its data and completes.
Read(c) ==
  /\ Open(c) /\ c \in stalled
  /\ stalled' = stalled \ {c}
  /\ pend' = [pend EXCEPT ![c] = Nobody]
  /\ sent' = CASE pend[c] = "push" -> [sent EXCEPT ![c] = Append(@, buf_frame)]
               [] pend[c] = "rawd" -> [sent EXCEPT ![c] = Append(@, Ready)]
               [] OTHER -> sent
  /\ UNCHANGED <<tcp, backlog>>

\* The client closes its half of the connection ...
HalfClose(c) ==
  /\ tcp[c] = "est"
  /\ tcp' = [tcp EXCEPT ![c] = "closing"]
  /\ UNCHANGED <<backlog, stalled, pend, sent>>

\* ... or is reset or lost: a write that waited fails.
Die(c) ==
  /\ Open(c)
  /\ tcp' = [tcp EXCEPT ![c] = "dead"]
  /\ stalled' = stalled \ {c}
  /\ pend' = [pend EXCEPT ![c] = Nobody]
  /\ UNCHANGED <<backlog, sent>>

Network ==
  /\ \E c \in Clients :
       Connect(c) \/ Stall(c) \/ Read(c) \/ HalfClose(c) \/ Die(c)
  /\ UNCHANGED <<ncs, owner, buf_frame, evt, drx, pushed, pushVars, rawdVars>>
-----------------------------------------------------------------------------
(* Faulty variants of the definitions below.  Nothing uses them: each shows*)
(* that some property notices when the code is wrong in that way.          *)

FaultyMutexFree == owner # "rawd"
FaultyTakeEvent == evt' = evt
FaultyFreed(i) == [ncs EXCEPT ![i] = ncs[i]]
FaultyStale(c) == tcp[c] = "dead"
FaultyPushTest ==
  /\ ppc = "scan" /\ pi < NC_COUNT
  /\ IF ncs[pi] # NoConn /\ tcp[ncs[pi]] = "est"
       THEN ppc' = "write" /\ pi' = pi
       ELSE ppc' = "scan" /\ pi' = NC_COUNT
  /\ UNCHANGED <<tcpVars, ncs, owner, buf_frame, evt, drx, pushed, rawdVars>>
-----------------------------------------------------------------------------
MutexFree == owner = Nobody

\* netconn_write of message m by thread t, up to the point it blocks or
\* returns; its result is ignored.
WriteBlocks(c) == Open(c) /\ pend[c] = Nobody /\ c \in stalled
WriteSends(c) == Open(c) /\ pend[c] = Nobody /\ c \notin stalled
Write(c, m, t) ==
  /\ pend' = IF WriteBlocks(c) THEN [pend EXCEPT ![c] = t] ELSE pend
  /\ sent' = IF WriteSends(c) THEN [sent EXCEPT ![c] = Append(@, m)] ELSE sent
  /\ UNCHANGED <<tcp, backlog, stalled>>
-----------------------------------------------------------------------------
(* rawd_push, in the data_rx thread.                                       *)

PushCall ==
  /\ drx = "idle" /\ pushed < MaxFrames
  /\ pushed' = pushed + 1
  /\ drx' = "push"
  /\ UNCHANGED <<tcpVars, ncs, owner, buf_frame, evt, pushVars, rawdVars>>

PushFrame ==
  /\ drx = "push" /\ MutexFree
  /\ buf_frame' = pushed
  /\ evt' = TRUE
  /\ drx' = "idle"
  /\ UNCHANGED <<tcpVars, ncs, owner, pushed, pushVars, rawdVars>>
-----------------------------------------------------------------------------
(* rawd_push_loop.                                                         *)

TakeEvent == evt' = FALSE

PushWake ==
  /\ ppc = "wait" /\ evt
  /\ TakeEvent
  /\ ppc' = "lock"
  /\ UNCHANGED <<tcpVars, ncs, owner, buf_frame, drx, pushed, pi, rawdVars>>

PushLock ==
  /\ ppc = "lock" /\ MutexFree
  /\ owner' = "push"
  /\ ppc' = "scan" /\ pi' = 0
  /\ UNCHANGED <<tcpVars, ncs, buf_frame, evt, drx, pushed, rawdVars>>

\* The tests before the write; a slot that fails one is skipped.
PushTest ==
  /\ ppc = "scan" /\ pi < NC_COUNT
  /\ IF ncs[pi] # NoConn /\ Established(ncs[pi])
       THEN ppc' = "write" /\ pi' = pi
       ELSE ppc' = "scan" /\ pi' = pi + 1
  /\ UNCHANGED <<tcpVars, ncs, owner, buf_frame, evt, drx, pushed, rawdVars>>

\* The connection may have gone since it was tested.
PushWrite ==
  /\ ppc = "write"
  /\ Write(ncs[pi], buf_frame, "push")
  /\ IF WriteBlocks(ncs[pi]) THEN ppc' = "blocked" /\ pi' = pi
                             ELSE ppc' = "scan" /\ pi' = pi + 1
  /\ UNCHANGED <<ncs, owner, buf_frame, evt, drx, pushed, rawdVars>>

PushWritten ==
  /\ ppc = "blocked" /\ pend[ncs[pi]] # "push"
  /\ ppc' = "scan" /\ pi' = pi + 1
  /\ UNCHANGED <<tcpVars, ncs, owner, buf_frame, evt, drx, pushed, rawdVars>>

PushUnlock == owner' = Nobody

PushDone ==
  /\ ppc = "scan" /\ pi = NC_COUNT
  /\ PushUnlock
  /\ ppc' = "wait" /\ pi' = 0
  /\ UNCHANGED <<tcpVars, ncs, buf_frame, evt, drx, pushed, rawdVars>>

PushThread ==
  PushWake \/ PushLock \/ PushTest \/ PushWrite \/ PushWritten \/ PushDone
-----------------------------------------------------------------------------
(* rawd_loop and rawd_new.                                                 *)

Stale(c) == ~Established(c)

Accept ==
  /\ rpc = "accept"
  /\ \E c \in backlog : nc' = c /\ backlog' = backlog \ {c}
  /\ rpc' = "lock"
  /\ UNCHANGED <<tcp, stalled, pend, sent, ncs, owner, buf_frame, evt, drx,
                 pushed, pushVars, ri, free, room>>

\* A slot that is free, or whose connection is no longer established, is room
\* for another client.
Room == \E i \in Slots : ncs[i] = NoConn \/ ~Established(ncs[i])

NewLock ==
  /\ rpc = "lock" /\ MutexFree
  /\ owner' = "rawd"
  /\ rpc' = "scan" /\ ri' = 0 /\ free' = -1
  /\ room' = Room
  /\ UNCHANGED <<tcpVars, ncs, buf_frame, evt, drx, pushed, pushVars, nc>>

\* A stale connection is closed and deleted, and leaves its slot.
Freed(i) == [ncs EXCEPT ![i] = NoConn]
Delete(c) ==
  /\ tcp' = [tcp EXCEPT ![c] = "deleted"]
  /\ stalled' = stalled \ {c}
  /\ UNCHANGED <<backlog, pend>>

\* The last free slot found is the one used.
Found(i) == free' = i

NewTest ==
  /\ rpc = "scan" /\ ri < NC_COUNT
  /\ ri' = ri + 1
  /\ \/ /\ ncs[ri] = NoConn
        /\ Found(ri)
        /\ UNCHANGED <<tcpVars, ncs>>
     \/ /\ ncs[ri] # NoConn /\ Stale(ncs[ri])
        /\ Delete(ncs[ri]) /\ UNCHANGED sent
        /\ ncs' = Freed(ri)
        /\ Found(ri)
     \/ /\ ncs[ri] # NoConn /\ ~Stale(ncs[ri])
        /\ UNCHANGED <<tcpVars, ncs, free>>
  /\ UNCHANGED <<owner, buf_frame, evt, drx, pushed, pushVars, rpc, nc, room>>

\* No slot is free: the client is told so, closed and deleted.
NewRefuse ==
  /\ rpc = "scan" /\ ri = NC_COUNT /\ free = -1
  /\ sent' = IF WriteSends(nc) THEN [sent EXCEPT ![nc] = Append(@, Full)] ELSE sent
  /\ Delete(nc)
  /\ owner' = Nobody
  /\ rpc' = "accept" /\ ri' = 0 /\ nc' = NoConn /\ room' = FALSE
  /\ UNCHANGED <<ncs, buf_frame, evt, drx, pushed, pushVars, free>>

Install == ncs' = [ncs EXCEPT ![free] = nc]

NewInstall ==
  /\ rpc = "scan" /\ ri = NC_COUNT /\ free # -1
  /\ Install
  /\ owner' = Nobody
  /\ rpc' = "ready" /\ ri' = 0 /\ free' = -1 /\ room' = FALSE
  /\ UNCHANGED <<tcpVars, buf_frame, evt, drx, pushed, pushVars, nc>>

\* The greeting is written without the mutex.
NewReady ==
  /\ rpc = "ready"
  /\ Write(nc, Ready, "rawd")
  /\ IF WriteBlocks(nc) THEN rpc' = "blocked" /\ nc' = nc
                        ELSE rpc' = "accept" /\ nc' = NoConn
  /\ UNCHANGED <<ncs, owner, buf_frame, evt, drx, pushed, pushVars, ri, free, room>>

NewGreeted ==
  /\ rpc = "blocked" /\ pend[nc] # "rawd"
  /\ rpc' = "accept" /\ nc' = NoConn
  /\ UNCHANGED <<tcpVars, ncs, owner, buf_frame, evt, drx, pushed, pushVars,
                 ri, free, room>>

RawdThread ==
  Accept \/ NewLock \/ NewTest \/ NewRefuse \/ NewInstall \/ NewReady \/ NewGreeted
-----------------------------------------------------------------------------
Next == Network \/ PushCall \/ PushFrame \/ PushThread \/ RawdThread

Spec == Init /\ [][Next]_vars

(***************************************************************************)
(* Fairness.  The threads run when they can.  A ChibiOS mutex is handed to *)
(* a waiting thread when it is unlocked, so a thread that waits gets it    *)
(* although the others keep coming back.  Nothing makes a client read.     *)
(***************************************************************************)
Fairness ==
  /\ SF_vars(PushFrame) /\ SF_vars(PushLock) /\ SF_vars(NewLock)
  /\ WF_vars(PushThread) /\ WF_vars(RawdThread)

FairSpec == Spec /\ Fairness
-----------------------------------------------------------------------------
(* Safety.                                                                 *)

\* Every connection accepted and not deleted is in exactly one slot, or in
\* the hands of rawd_new: none leaks and none is used after its deletion.
Held == {c \in Clients : Open(c) \/ tcp[c] = "dead"} \ backlog
InSlots == {ncs[i] : i \in Slots} \ {NoConn}
InHand == IF rpc \in {"lock", "scan"} THEN {nc} ELSE {}
SlotConservation ==
  /\ Held = InSlots \union InHand
  /\ InSlots \intersect InHand = {}
  /\ \A i, j \in Slots : ncs[i] = ncs[j] /\ ncs[i] # NoConn => i = j

\* The connection rawd_push_loop has tested stays in its slot, undeleted,
\* until the write is over, whatever the clients and rawd_new do.
WriteTargetLives ==
  ppc \in {"write", "blocked"} => pi \in Slots /\ ncs[pi] \in Held

\* A client is not refused for the sake of a dead one: if a slot was free, or its
\* connection no longer established, when rawd_new got the mutex, the client gets
\* a slot, whatever the connections do while rawd_new looks at them.
SeatForTheLiving ==
  room /\ rpc = "scan" /\ ri = NC_COUNT => free \in Slots /\ ncs[free] = NoConn

\* A client gets frames in order, and each at most twice: once more only when
\* the frame overtook the event of the one before it.
AtMostTwice ==
  \A c \in Clients : LET s == sent[c] IN
    /\ \A i, j \in DOMAIN s : i < j /\ s[i] >= 0 /\ s[j] >= 0 => s[i] <= s[j]
    /\ \A f \in 1 .. MaxFrames : Cardinality({i \in DOMAIN s : s[i] = f}) <= 2
-----------------------------------------------------------------------------
(* Liveness.  The clients are assumed to read again and again.             *)

ClientsRead == \A c \in Clients : []<>(c \notin stalled)

\* A client that is connected when a frame is pushed gets the frame or a
\* later one, unless it goes away or its greeting is still being written.
FramesOf(c) == SelectSeq(sent[c], LAMBDA m : m >= 0)
Latest(c) == LET s == FramesOf(c) IN s # << >> /\ s[Len(s)] = buf_frame
LastFrameArrives ==
  ClientsRead =>
    \A c \in Clients :
      evt /\ c \in InSlots ~> Latest(c) \/ ~Established(c) \/ pend[c] = "rawd"
=============================================================================
