---------------------------- MODULE RawdProofs -----------------------------
(***************************************************************************)
(* Safety of the raw feed for any number of slots, clients and frames.     *)
(***************************************************************************)
EXTENDS Rawd, SequenceTheorems, FiniteSetTheorems, TLAPS

PushHolds == {"scan", "write", "blocked"}

\* rawd_mutex is held at these places of the two threads, and nowhere else.
MutexInv ==
  /\ owner = "push" <=> ppc \in PushHolds
  /\ owner = "rawd" <=> rpc = "scan"

\* rawd_new has a connection from accept on, and a slot once it has found one.
NewInv ==
  /\ rpc = "accept" <=> nc = NoConn
  /\ rpc = "scan" /\ free # -1 => free < ri /\ ncs[free] = NoConn

\* A slot, or rawd_new, holds every connection that is not in the mailbox and
\* has been neither deleted nor not yet made, and no connection twice.
Taken(c) == \E i \in Slots : ncs[i] = c
Live(c) == tcp[c] \in {"est", "closing", "dead"}
SlotInv ==
  /\ \A c \in backlog : Live(c)
  /\ \A c \in Clients : Live(c) /\ c \notin backlog <=> Taken(c) \/ c \in InHand
  /\ \A c \in Clients : ~(Taken(c) /\ c \in InHand)
  /\ \A i, j \in Slots : ncs[i] = ncs[j] /\ ncs[i] # NoConn => i = j

\* The write of the push thread waits on the connection in its slot.
WriteInv ==
  /\ ppc \in {"write", "blocked"} => pi \in Slots /\ ncs[pi] # NoConn
  /\ \A c \in Clients : pend[c] = "push" => ppc = "blocked" /\ ncs[pi] = c

HeldInv == TypeOK /\ MutexInv /\ NewInv /\ SlotInv /\ WriteInv

\* Room that was there when rawd_new got the mutex it has found already, or has
\* before it.
RoomInv ==
  rpc = "scan" /\ room /\ free = -1 =>
    \E i \in Slots : i >= ri /\ (ncs[i] = NoConn \/ ~Established(ncs[i]))
-----------------------------------------------------------------------------
(* How often a frame is sent.                                              *)

\* The push thread has yet to write to c in this round ...
Due(c) ==
  \/ ppc = "lock"
  \/ ppc \in {"scan", "write"} /\ \E i \in Slots : i >= pi /\ ncs[i] = c
  \/ ppc = "blocked" /\ (pend[c] = "push" \/ \E i \in Slots : i > pi /\ ncs[i] = c)

\* ... and will go round once more for an event it has not taken.
Coming(c) == (IF evt THEN 1 ELSE 0) + (IF Due(c) THEN 1 ELSE 0)

Places(c, f) == {i \in DOMAIN sent[c] : sent[c][i] = f}

\* What c has been given: frames in order, none more than twice, and none will
\* be by what is still coming.
Given(c) ==
  /\ \A i \in DOMAIN sent[c] : sent[c][i] <= buf_frame
  /\ \A i, j \in DOMAIN sent[c] :
       i < j /\ sent[c][i] >= 0 /\ sent[c][j] >= 0 => sent[c][i] <= sent[c][j]
  /\ \A f \in 1 .. MaxFrames : Cardinality(Places(c, f)) \in 0 .. 2
  /\ buf_frame > 0 => Cardinality(Places(c, buf_frame)) + Coming(c) <= 2

\* Every rawd_push that is over has left its frame in buf_frame.
FrameInv ==
  /\ pushed = IF drx = "push" THEN buf_frame + 1 ELSE buf_frame
  /\ \A c \in Clients : Given(c)

IInv == HeldInv /\ RoomInv /\ FrameInv
-----------------------------------------------------------------------------
(* Who holds what: the steps.                                              *)

\* What TypeOK says of a write: only its connection's output and wait change.
LEMMA WriteType ==
  ASSUME TypeOK, NEW c \in Clients, NEW m \in Messages, NEW t \in {"push", "rawd"},
         Write(c, m, t)
  PROVE  /\ UNCHANGED <<tcp, backlog, stalled>>
         /\ sent' \in [Clients -> Seq(Messages)]
         /\ pend' \in [Clients -> {Nobody, "push", "rawd"}]
         /\ \A d \in Clients :
              /\ pend'[d] = IF d = c /\ WriteBlocks(c) THEN t ELSE pend[d]
              /\ sent'[d] = IF d = c /\ WriteSends(c) THEN Append(sent[d], m) ELSE sent[d]
<1>1. Append(sent[c], m) \in Seq(Messages)
  BY AppendProperties DEF TypeOK
<1> QED BY <1>1 DEF Write, TypeOK

\* The messages: the frames, and the greetings.
LEMMA MessageType ==
  /\ Ready \in Messages /\ Full \in Messages
  /\ \A f \in 0 .. MaxFrames : f \in Messages
BY RawdAssumption DEF Messages, Ready, Full

\* Nothing of this happened to the slots and to the connections in them.
LEMMA SlotKept ==
  ASSUME SlotInv, UNCHANGED <<ncs, rpc, nc>>,
         \A c \in Clients : (Live(c) /\ c \notin backlog)' <=> Live(c) /\ c \notin backlog,
         \A c \in backlog' : Live(c)'
  PROVE  SlotInv'
BY DEF SlotInv, Taken, InHand

LEMMA NetworkHeld ==
  ASSUME HeldInv, Network
  PROVE  HeldInv'
<1>1. /\ UNCHANGED <<ncs, owner, buf_frame, evt, drx, pushed, ppc, pi, rpc, ri, free, nc, room>>
      /\ TypeOK
  BY DEF Network, HeldInv, pushVars, rawdVars
<1>2. PICK c \in Clients : Connect(c) \/ Stall(c) \/ Read(c) \/ HalfClose(c) \/ Die(c)
  BY DEF Network
<1>3. /\ tcp' \in [Clients -> {"none", "est", "closing", "dead", "deleted"}]
      /\ backlog' \in SUBSET Clients /\ stalled' \in SUBSET Clients
      /\ pend' \in [Clients -> {Nobody, "push", "rawd"}]
      /\ \A d \in Clients : pend'[d] \in {pend[d], Nobody}
  BY <1>1, <1>2 DEF Connect, Stall, Read, HalfClose, Die, TypeOK
<1>4. sent' \in [Clients -> Seq(Messages)]
  <2>1. /\ Append(sent[c], buf_frame) \in Seq(Messages)
        /\ Append(sent[c], Ready) \in Seq(Messages)
    BY <1>1, MessageType, AppendProperties DEF TypeOK
  <2> QED BY <1>1, <1>2, <2>1 DEF Connect, Stall, Read, HalfClose, Die, TypeOK
<1>5. TypeOK'
  BY <1>1, <1>3, <1>4 DEF TypeOK
<1>6. /\ \A d \in Clients : (Live(d) /\ d \notin backlog)' <=> Live(d) /\ d \notin backlog
      /\ \A d \in backlog' : Live(d)'
  <2>1. CASE Connect(c)
    <3>1. /\ ~Live(c) /\ c \notin backlog /\ backlog' = backlog \union {c}
          /\ \A d \in Clients : tcp'[d] = IF d = c THEN "est" ELSE tcp[d]
      BY <1>1, <2>1 DEF Connect, Live, TypeOK, HeldInv, SlotInv
    <3>2. \A d \in Clients : Live(d)' <=> Live(d) \/ d = c
      BY <3>1 DEF Live
    <3> QED BY <1>1, <3>1, <3>2 DEF HeldInv, SlotInv, TypeOK
  <2>2. CASE ~Connect(c)
    <3>1. backlog' = backlog
      BY <1>2, <2>2 DEF Stall, Read, HalfClose, Die
    <3>2. \A d \in Clients : Live(d)' <=> Live(d)
      <4>1. CASE Stall(c) \/ Read(c)
        BY <4>1 DEF Stall, Read, Live
      <4>2. CASE HalfClose(c) \/ Die(c)
        BY <1>1, <4>2 DEF HalfClose, Die, Open, Live, TypeOK
      <4> QED BY <1>2, <2>2, <4>1, <4>2
    <3> QED BY <1>1, <3>1, <3>2 DEF HeldInv, SlotInv, TypeOK
  <2> QED BY <2>1, <2>2
<1>7. SlotInv'
  BY <1>1, <1>6, SlotKept DEF HeldInv
<1>8. MutexInv' /\ NewInv'
  BY <1>1 DEF HeldInv, MutexInv, NewInv
<1>9. WriteInv'
  BY <1>1, <1>3 DEF HeldInv, WriteInv, Nobody
<1> QED BY <1>5, <1>7, <1>8, <1>9 DEF HeldInv

LEMMA PushHeld ==
  ASSUME HeldInv, PushCall \/ PushFrame \/ PushThread
  PROVE  HeldInv'
<1>1. TypeOK /\ NC_COUNT \in Nat
  BY RawdAssumption DEF HeldInv
<1>2. UNCHANGED <<tcp, backlog, stalled, ncs, rpc, ri, free, nc, room>>
  BY DEF PushCall, PushFrame, PushThread, PushWake, PushLock, PushTest, PushWrite, PushWritten,
     PushDone, Write, tcpVars, rawdVars
<1>3. /\ owner' \in {Nobody, "push", "rawd"} /\ buf_frame' \in 0 .. MaxFrames
      /\ drx' \in {"idle", "push"} /\ pushed' \in 0 .. MaxFrames
      /\ ppc' \in {"wait", "lock", "scan", "write", "blocked"}
  <2>1. pushed \in 0 .. MaxFrames /\ (pushed < MaxFrames => pushed + 1 \in 0 .. MaxFrames)
    BY <1>1, RawdAssumption DEF TypeOK
  <2> QED BY <1>1, <2>1 DEF PushCall, PushFrame, PushThread, PushWake, PushLock, PushTest,
       PushWrite, PushWritten, PushDone, PushUnlock, TypeOK, pushVars
<1>4. evt' \in BOOLEAN
  BY <1>1 DEF PushCall, PushFrame, PushThread, PushWake, PushLock, PushTest, PushWrite,
     PushWritten, PushDone, TakeEvent, TypeOK
<1>5. pi' \in 0 .. NC_COUNT
  BY <1>1 DEF PushCall, PushFrame, PushThread, PushWake, PushLock, PushTest, PushWrite,
     PushWritten, PushDone, TypeOK, HeldInv, WriteInv, Slots, pushVars
<1>6. MutexInv'
  BY <1>2 DEF PushCall, PushFrame, PushThread, PushWake, PushLock, PushTest, PushWrite,
     PushWritten, PushDone, PushUnlock, MutexFree, HeldInv, MutexInv, PushHolds, pushVars, Nobody
<1>7. NewInv'
  BY <1>2 DEF HeldInv, NewInv
<1>8. SlotInv'
  BY <1>2, SlotKept DEF HeldInv, SlotInv, Live
<1>9. CASE PushWrite
  <2>1. ppc = "write" /\ pi \in Slots /\ ncs[pi] \in Clients /\ UNCHANGED <<ncs, buf_frame>>
    BY <1>1, <1>9 DEF PushWrite, HeldInv, WriteInv, TypeOK
  <2>2. buf_frame \in Messages
    BY <1>1, MessageType DEF TypeOK
  <2>3. /\ sent' \in [Clients -> Seq(Messages)]
        /\ pend' \in [Clients -> {Nobody, "push", "rawd"}]
        /\ \A d \in Clients :
             pend'[d] = IF d = ncs[pi] /\ WriteBlocks(ncs[pi]) THEN "push" ELSE pend[d]
    BY <1>1, <1>9, <2>1, <2>2, WriteType DEF PushWrite
  <2>4. TypeOK'
    BY <1>1, <1>2, <1>3, <1>4, <1>5, <2>3 DEF TypeOK
  <2>5. /\ WriteBlocks(ncs[pi]) => ppc' = "blocked" /\ pi' = pi
        /\ ~WriteBlocks(ncs[pi]) => ppc' = "scan"
    BY <1>9 DEF PushWrite
  <2>6. WriteInv'
    BY <2>1, <2>3, <2>5 DEF HeldInv, WriteInv
  <2> QED BY <2>4, <2>6, <1>6, <1>7, <1>8 DEF HeldInv
<1>10. CASE ~PushWrite
  <2>1. UNCHANGED <<sent, pend>>
    BY <1>10 DEF PushCall, PushFrame, PushThread, PushWake, PushLock, PushTest, PushWritten,
       PushDone, tcpVars
  <2>2. TypeOK'
    BY <1>1, <1>2, <1>3, <1>4, <1>5, <2>1 DEF TypeOK
  <2>3. WriteInv'
    BY <1>1, <1>2, <1>10, <2>1 DEF PushCall, PushFrame, PushThread, PushWake, PushLock, PushTest,
       PushWritten, PushDone, HeldInv, WriteInv, TypeOK, Slots, pushVars
  <2> QED BY <2>2, <2>3, <1>6, <1>7, <1>8 DEF HeldInv
<1> QED BY <1>9, <1>10

\* The slots do not change while the push thread has the mutex.
LEMMA RawdMutex ==
  ASSUME HeldInv, RawdThread
  PROVE  /\ UNCHANGED <<buf_frame, evt, drx, pushed, ppc, pi>>
         /\ NewTest \/ NewInstall => owner = "rawd" /\ ppc \notin PushHolds
         /\ ~(NewTest \/ NewInstall) => ncs' = ncs
BY DEF RawdThread, Accept, NewLock, NewTest, NewRefuse, NewInstall, NewReady, NewGreeted,
   HeldInv, MutexInv, pushVars

LEMMA RawdHeld ==
  ASSUME HeldInv, RawdThread
  PROVE  HeldInv'
<1>1. /\ TypeOK /\ NC_COUNT \in Nat /\ NoConn \notin Clients
      /\ SlotInv /\ MutexInv /\ NewInv /\ WriteInv
  BY RawdAssumption DEF HeldInv
<1>2. UNCHANGED <<buf_frame, evt, drx, pushed, ppc, pi>> /\ room' \in BOOLEAN
  <2>1. UNCHANGED <<buf_frame, evt, drx, pushed, ppc, pi>>
    BY RawdMutex
  <2>2. room' = Room \/ room' = FALSE \/ room' = room
    BY DEF RawdThread, Accept, NewLock, NewTest, NewRefuse, NewInstall, NewReady, NewGreeted
  <2>3. Room \in BOOLEAN /\ room \in BOOLEAN
    BY <1>1 DEF Room, TypeOK
  <2> QED BY <2>1, <2>2, <2>3
<1>3. rpc # "accept" => nc \in Clients
  BY <1>1 DEF TypeOK, NewInv
<1>4. CASE Accept
  <2>1. /\ rpc = "accept" /\ rpc' = "lock"
        /\ UNCHANGED <<tcp, stalled, pend, sent, ncs, owner, ri, free>>
    BY <1>4 DEF Accept
  <2>2. PICK c \in backlog : nc' = c /\ backlog' = backlog \ {c}
    BY <1>4 DEF Accept
  <2>3. c \in Clients /\ Live(c) /\ ~Taken(c)
    BY <1>1, <2>1, <2>2 DEF SlotInv, TypeOK
  <2>4. TypeOK'
    BY <1>1, <1>2, <2>1, <2>2, <2>3 DEF TypeOK
  <2>5. SlotInv'
    BY <1>1, <2>1, <2>2, <2>3 DEF SlotInv, Live, Taken, InHand
  <2>6. MutexInv' /\ NewInv' /\ WriteInv'
    BY <1>1, <1>2, <2>1, <2>2, <2>3 DEF MutexInv, NewInv, WriteInv
  <2> QED BY <2>4, <2>5, <2>6 DEF HeldInv
<1>5. CASE NewLock
  <2>1. /\ rpc = "lock" /\ rpc' = "scan" /\ owner = Nobody /\ owner' = "rawd"
        /\ ri' = 0 /\ free' = -1
        /\ UNCHANGED <<tcp, backlog, stalled, pend, sent, ncs, nc>>
    BY <1>5 DEF NewLock, MutexFree, tcpVars
  <2>2. TypeOK'
    BY <1>1, <1>2, <2>1 DEF TypeOK
  <2>3. SlotInv'
    BY <1>1, <2>1 DEF SlotInv, Live, Taken, InHand
  <2>4. MutexInv' /\ NewInv' /\ WriteInv'
    BY <1>1, <1>2, <2>1 DEF MutexInv, NewInv, WriteInv, PushHolds, Nobody
  <2> QED BY <2>2, <2>3, <2>4 DEF HeldInv
<1>6. CASE NewTest
  <2>1. /\ rpc = "scan" /\ ri \in Slots /\ ri' = ri + 1
        /\ UNCHANGED <<backlog, pend, sent, owner, rpc, nc>>
    BY <1>1, <1>6 DEF NewTest, Delete, TypeOK, Slots, tcpVars
  <2>2. \/ ncs[ri] = NoConn /\ free' = ri /\ UNCHANGED <<tcp, stalled, ncs>>
        \/ /\ ncs[ri] # NoConn /\ free' = ri /\ ncs' = [ncs EXCEPT ![ri] = NoConn]
           /\ tcp' = [tcp EXCEPT ![ncs[ri]] = "deleted"] /\ stalled' = stalled \ {ncs[ri]}
        \/ ncs[ri] # NoConn /\ UNCHANGED <<tcp, stalled, ncs, free>>
    BY <1>6 DEF NewTest, Found, Freed, Delete, tcpVars
  <2>3. TypeOK'
    <3>1. ri + 1 \in 0 .. NC_COUNT /\ ri \in {-1} \union Slots
      BY <1>1, <2>1 DEF Slots
    <3>2. /\ ncs' \in [Slots -> Clients \union {NoConn}] /\ stalled' \in SUBSET Clients
          /\ tcp' \in [Clients -> {"none", "est", "closing", "dead", "deleted"}]
      BY <1>1, <2>1, <2>2 DEF TypeOK
    <3>3. free' \in {-1} \union Slots
      BY <1>1, <2>2, <3>1 DEF TypeOK
    <3> QED BY <1>1, <1>2, <2>1, <3>1, <3>2, <3>3 DEF TypeOK
  <2>4. NewInv'
    BY <1>1, <2>1, <2>2 DEF NewInv, TypeOK, Slots
  <2>5. SlotInv'
    <3>1. CASE UNCHANGED <<tcp, ncs>>
      BY <1>1, <2>1, <3>1 DEF SlotInv, Live, Taken, InHand
    <3>2. CASE ~UNCHANGED <<tcp, ncs>>
      <4> DEFINE d == ncs[ri]
      <4>1. /\ d \in Clients /\ ncs' = [ncs EXCEPT ![ri] = NoConn]
            /\ tcp' = [tcp EXCEPT ![d] = "deleted"]
        BY <1>1, <2>1, <2>2, <3>2 DEF TypeOK
      <4>2. /\ \A i \in Slots : ncs'[i] = IF i = ri THEN NoConn ELSE ncs[i]
            /\ \A c \in Clients : tcp'[c] = IF c = d THEN "deleted" ELSE tcp[c]
        BY <1>1, <4>1 DEF TypeOK
      <4>3. d \notin backlog /\ d \notin InHand /\ Taken(d)
        BY <1>1, <2>1, <4>1 DEF SlotInv, Taken
      <4>4. \A c \in Clients : Live(c)' <=> Live(c) /\ c # d
        BY <4>2 DEF Live
      <4>5. \A c \in Clients : Taken(c)' <=> Taken(c) /\ c # d
        BY <1>1, <2>1, <4>1, <4>2 DEF SlotInv, Taken
      <4>6. \A i, j \in Slots : ncs'[i] = ncs'[j] /\ ncs'[i] # NoConn => i = j
        BY <1>1, <4>2 DEF SlotInv
      <4>7. InHand' = InHand /\ \A c \in backlog : c \in Clients
        BY <1>1, <2>1 DEF InHand, TypeOK
      <4> QED BY <1>1, <2>1, <4>3, <4>4, <4>5, <4>6, <4>7 DEF SlotInv
    <3> QED BY <3>1, <3>2
  <2>6. MutexInv'
    BY <1>1, <1>2, <2>1 DEF MutexInv
  <2>7. WriteInv'
    BY <1>1, <1>2, <1>6, <2>1, RawdMutex DEF WriteInv, PushHolds
  <2> QED BY <2>3, <2>4, <2>5, <2>6, <2>7 DEF HeldInv
<1>7. CASE NewRefuse
  <2>1. /\ rpc = "scan" /\ rpc' = "accept" /\ nc' = NoConn /\ owner' = Nobody /\ ri' = 0
        /\ sent' = IF WriteSends(nc) THEN [sent EXCEPT ![nc] = Append(@, Full)] ELSE sent
        /\ tcp' = [tcp EXCEPT ![nc] = "deleted"] /\ stalled' = stalled \ {nc}
        /\ UNCHANGED <<backlog, pend, ncs, free>>
    BY <1>7 DEF NewRefuse, Delete
  <2>2. nc \in Clients /\ ppc \notin PushHolds /\ owner = "rawd"
    BY <1>1, <1>3, <2>1 DEF MutexInv
  <2>3. sent' \in [Clients -> Seq(Messages)]
    <3>1. Append(sent[nc], Full) \in Seq(Messages)
      BY <1>1, <2>2, MessageType, AppendProperties DEF TypeOK
    <3> QED BY <1>1, <2>1, <2>2, <3>1 DEF TypeOK
  <2>4. TypeOK'
    <3>1. tcp' \in [Clients -> {"none", "est", "closing", "dead", "deleted"}]
      BY <1>1, <2>1, <2>2 DEF TypeOK
    <3>2. stalled' \in SUBSET Clients /\ 0 \in 0 .. NC_COUNT
      BY <1>1, <2>1 DEF TypeOK
    <3> QED BY <1>1, <1>2, <2>1, <2>3, <3>1, <3>2 DEF TypeOK
  <2>5. SlotInv'
    <3>1. \A c \in Clients : tcp'[c] = IF c = nc THEN "deleted" ELSE tcp[c]
      BY <1>1, <2>1 DEF TypeOK
    <3>2. nc \notin backlog /\ ~Taken(nc)
      BY <1>1, <2>1, <2>2 DEF SlotInv, InHand
    <3> QED BY <1>1, <2>1, <2>2, <3>1, <3>2 DEF SlotInv, Live, Taken, InHand, TypeOK
  <2>6. MutexInv' /\ NewInv' /\ WriteInv'
    BY <1>1, <1>2, <2>1, <2>2 DEF MutexInv, NewInv, WriteInv, PushHolds, Nobody
  <2> QED BY <2>4, <2>5, <2>6 DEF HeldInv
<1>8. CASE NewInstall
  <2>1. /\ rpc = "scan" /\ rpc' = "ready" /\ owner' = Nobody /\ ri' = 0 /\ free' = -1
        /\ free # -1 /\ ncs' = [ncs EXCEPT ![free] = nc]
        /\ UNCHANGED <<tcp, backlog, stalled, pend, sent, nc>>
    BY <1>8 DEF NewInstall, Install, tcpVars
  <2>2. /\ nc \in Clients /\ ppc \notin PushHolds /\ owner = "rawd"
        /\ free \in Slots /\ ncs[free] = NoConn
    BY <1>1, <1>3, <2>1 DEF MutexInv, NewInv, TypeOK
  <2>3. TypeOK'
    BY <1>1, <1>2, <2>1, <2>2 DEF TypeOK
  <2>4. SlotInv'
    <3>1. \A i \in Slots : ncs'[i] = IF i = free THEN nc ELSE ncs[i]
      BY <1>1, <2>1 DEF TypeOK
    <3>2. nc \notin backlog /\ ~Taken(nc) /\ Live(nc)
      BY <1>1, <2>1, <2>2 DEF SlotInv, InHand
    <3>3. \A c \in Clients : Taken(c)' <=> Taken(c) \/ c = nc
      BY <1>1, <2>2, <3>1 DEF Taken
    <3>4. \A i, j \in Slots : ncs'[i] = ncs'[j] /\ ncs'[i] # NoConn => i = j
      BY <1>1, <3>1, <3>2 DEF SlotInv, Taken
    <3>5. InHand = {nc} /\ InHand' = {}
      BY <2>1 DEF InHand
    <3> QED BY <1>1, <2>1, <3>2, <3>3, <3>4, <3>5 DEF SlotInv, Live
  <2>5. MutexInv' /\ NewInv' /\ WriteInv'
    BY <1>1, <1>2, <2>1, <2>2 DEF MutexInv, NewInv, WriteInv, PushHolds, Nobody
  <2> QED BY <2>3, <2>4, <2>5 DEF HeldInv
<1>9. CASE NewReady
  <2>1. /\ rpc = "ready" /\ nc \in Clients /\ Write(nc, Ready, "rawd")
        /\ rpc' \in {"blocked", "accept"}
        /\ nc' = IF rpc' = "blocked" THEN nc ELSE NoConn
        /\ UNCHANGED <<ncs, owner, ri, free>>
    BY <1>3, <1>9 DEF NewReady
  <2>2. /\ UNCHANGED <<tcp, backlog, stalled>>
        /\ sent' \in [Clients -> Seq(Messages)]
        /\ pend' \in [Clients -> {Nobody, "push", "rawd"}]
        /\ \A d \in Clients : pend'[d] \in {pend[d], "rawd"}
    BY <1>1, <2>1, MessageType, WriteType
  <2>3. TypeOK'
    BY <1>1, <1>2, <2>1, <2>2 DEF TypeOK
  <2>4. SlotInv'
    BY <1>1, <2>1, <2>2 DEF SlotInv, Live, Taken, InHand
  <2>5. MutexInv' /\ NewInv' /\ WriteInv'
    BY <1>1, <1>2, <2>1, <2>2 DEF MutexInv, NewInv, WriteInv
  <2> QED BY <2>3, <2>4, <2>5 DEF HeldInv
<1>10. CASE NewGreeted
  <2>1. /\ rpc = "blocked" /\ rpc' = "accept" /\ nc' = NoConn
        /\ UNCHANGED <<tcp, backlog, stalled, pend, sent, ncs, owner, ri, free>>
    BY <1>10 DEF NewGreeted, tcpVars
  <2>2. TypeOK'
    BY <1>1, <1>2, <2>1 DEF TypeOK
  <2>3. SlotInv'
    BY <1>1, <2>1 DEF SlotInv, Live, Taken, InHand
  <2>4. MutexInv' /\ NewInv' /\ WriteInv'
    BY <1>1, <1>2, <2>1 DEF MutexInv, NewInv, WriteInv
  <2> QED BY <2>2, <2>3, <2>4 DEF HeldInv
<1> QED BY <1>4, <1>5, <1>6, <1>7, <1>8, <1>9, <1>10 DEF RawdThread

LEMMA HeldStep == HeldInv /\ [Next]_vars => HeldInv'
<1>1. HeldInv /\ UNCHANGED vars => HeldInv'
  BY DEF vars, tcpVars, pushVars, rawdVars, HeldInv, TypeOK, MutexInv, NewInv, SlotInv, WriteInv,
     Live, Taken, InHand
<1> QED BY <1>1, NetworkHeld, PushHeld, RawdHeld DEF Next
-----------------------------------------------------------------------------
(* Who gets a slot.                                                        *)

\* A connection that is not established will not be again.
LEMMA StaleStays ==
  ASSUME HeldInv, Network, NEW i \in Slots, ncs[i] # NoConn, ~Established(ncs[i])
  PROVE  ~Established(ncs[i])'
<1>1. ncs[i] \in Clients /\ tcp[ncs[i]] \notin {"none", "est"} /\ UNCHANGED ncs
  BY DEF HeldInv, SlotInv, Taken, Live, TypeOK, Established, Network
<1>2. PICK c \in Clients : Connect(c) \/ Stall(c) \/ Read(c) \/ HalfClose(c) \/ Die(c)
  BY DEF Network
<1> QED BY <1>1, <1>2 DEF Connect, Stall, Read, HalfClose, Die, Established, HeldInv, TypeOK

LEMMA RoomStep == HeldInv /\ RoomInv /\ [Next]_vars => RoomInv'
<1> SUFFICES ASSUME HeldInv, RoomInv, [Next]_vars PROVE RoomInv'
  OBVIOUS
<1>1. CASE Network
  <2>1. UNCHANGED <<ncs, rpc, ri, free, room>>
    BY <1>1 DEF Network, rawdVars
  <2> QED BY <1>1, <2>1, StaleStays DEF RoomInv
<1>2. CASE PushCall \/ PushFrame \/ PushThread \/ UNCHANGED vars
  <2>1. UNCHANGED <<tcp, ncs, rpc, ri, free, room>>
    BY <1>2 DEF PushCall, PushFrame, PushThread, PushWake, PushLock, PushTest, PushWrite,
       PushWritten, PushDone, Write, vars, tcpVars, rawdVars
  <2> QED BY <2>1 DEF RoomInv, Established
<1>3. CASE RawdThread
  <2>1. CASE NewLock
    <3>1. room' = Room /\ ri' = 0 /\ UNCHANGED <<tcp, ncs>>
      BY <2>1 DEF NewLock, tcpVars
    <3>2. \A i \in Slots : i >= 0
      BY DEF Slots
    <3> QED BY <3>1, <3>2 DEF RoomInv, Room, Established
  <2>2. CASE NewTest
    <3>1. /\ rpc = "scan" /\ ri \in Slots /\ ri' = ri + 1 /\ room' = room /\ ri # -1
          /\ free' = ri \/ (ncs[ri] # NoConn /\ Established(ncs[ri])
                            /\ UNCHANGED <<tcp, ncs, free>>)
      BY <2>2, RawdAssumption DEF NewTest, Found, Stale, HeldInv, TypeOK, Slots, tcpVars
    <3>2. \A i \in Slots : i >= ri => i = ri \/ i >= ri + 1
      BY <3>1 DEF Slots
    <3> QED BY <3>1, <3>2 DEF RoomInv, Established
  <2>3. CASE ~(NewLock \/ NewTest)
    <3>1. rpc' # "scan"
      BY <1>3, <2>3 DEF RawdThread, Accept, NewRefuse, NewInstall, NewReady, NewGreeted
    <3> QED BY <3>1 DEF RoomInv
  <2> QED BY <2>1, <2>2, <2>3
<1> QED BY <1>1, <1>2, <1>3 DEF Next
-----------------------------------------------------------------------------
(* How often a frame is sent: the steps.                                   *)

\* A message more has one place more.
LEMMA OneMore ==
  ASSUME NEW c \in Clients, sent[c] \in Seq(Messages), NEW m \in Messages,
         sent'[c] = Append(sent[c], m), NEW f
  PROVE  /\ Cardinality(Places(c, f)) \in Nat
         /\ Cardinality(Places(c, f)') = Cardinality(Places(c, f)) + (IF m = f THEN 1 ELSE 0)
<1> DEFINE n == Len(sent[c])  S == Places(c, f)
<1>1. n \in Nat /\ DOMAIN sent[c] = 1 .. n
  BY LenProperties
<1>2. S \subseteq 1 .. n /\ n + 1 \notin S
  BY <1>1 DEF Places
<1>3. IsFiniteSet(S) /\ Cardinality(S) \in Nat
  <2>1. IsFiniteSet(1 .. n)
    BY <1>1, FS_Interval
  <2>2. IsFiniteSet(S)
    BY <1>2, <2>1, FS_Subset
  <2> QED BY <2>2, FS_CardinalityType
<1>4. /\ DOMAIN sent'[c] = 1 .. n + 1 /\ sent'[c][n + 1] = m
      /\ \A i \in 1 .. n : sent'[c][i] = sent[c][i]
  <2>1. /\ Append(sent[c], m) \in Seq(Messages) /\ Len(Append(sent[c], m)) = n + 1
        /\ \A i \in 1 .. n : Append(sent[c], m)[i] = sent[c][i]
        /\ Append(sent[c], m)[n + 1] = m
    BY AppendProperties
  <2>2. DOMAIN Append(sent[c], m) = 1 .. n + 1
    BY <2>1, LenProperties
  <2> QED BY <2>1, <2>2
<1>5. S' = IF m = f THEN S \union {n + 1} ELSE S
  <2>1. \A i : i \in 1 .. n + 1 <=> i \in 1 .. n \/ i = n + 1
    BY <1>1
  <2>2. \A i : i \in S' <=> i \in 1 .. n + 1 /\ sent'[c][i] = f
    BY <1>4 DEF Places
  <2>3. \A i : i \in S <=> i \in 1 .. n /\ sent[c][i] = f
    BY <1>1 DEF Places
  <2> HIDE DEF S
  <2>4. ASSUME NEW i PROVE i \in S' <=> i \in S \/ (i = n + 1 /\ m = f)
    BY <1>2, <1>4, <2>1, <2>2, <2>3
  <2> QED BY <2>4
<1>6. Cardinality(S \union {n + 1}) = Cardinality(S) + 1
  BY <1>2, <1>3, FS_AddElement
<1> QED BY <1>3, <1>5, <1>6

\* Nothing was sent to the client, and no more is coming to it than was.
LEMMA GivenKept ==
  ASSUME NEW c \in Clients, Given(c), sent'[c] = sent[c], buf_frame' = buf_frame,
         buf_frame \in 0 .. MaxFrames, evt' => evt, Due(c)' => Due(c)
  PROVE  Given(c)'
<1>1. \A f : Places(c, f)' = Places(c, f)
  BY DEF Places
<1>2. Coming(c)' \in {0, 1, 2} /\ Coming(c) \in {0, 1, 2} /\ Coming(c)' <= Coming(c)
  BY DEF Coming
<1>3. ASSUME buf_frame > 0
      PROVE  Cardinality(Places(c, buf_frame)') + Coming(c)' <= 2
  BY <1>1, <1>2, <1>3 DEF Given
<1> QED BY <1>1, <1>3 DEF Given

\* The frame was sent to the client: one that was coming to it.
LEMMA GivenFrame ==
  ASSUME NEW c \in Clients, Given(c), sent[c] \in Seq(Messages),
         sent'[c] = Append(sent[c], buf_frame), buf_frame' = buf_frame,
         buf_frame \in 0 .. MaxFrames, evt' = evt, Due(c), ~Due(c)'
  PROVE  Given(c)'
<1> DEFINE n == Len(sent[c])
<1>1. buf_frame \in Messages /\ buf_frame \in Int
  BY MessageType
<1>2. \A f : /\ Cardinality(Places(c, f)) \in Nat
             /\ Cardinality(Places(c, f)') =
                  Cardinality(Places(c, f)) + (IF buf_frame = f THEN 1 ELSE 0)
  BY <1>1, OneMore
<1>3. Coming(c) \in {1, 2} /\ Coming(c)' = Coming(c) - 1
  BY DEF Coming
<1>4. /\ n \in Nat /\ DOMAIN sent[c] = 1 .. n /\ DOMAIN sent'[c] = 1 .. n + 1
      /\ sent'[c][n + 1] = buf_frame /\ \A i \in 1 .. n : sent'[c][i] = sent[c][i]
      /\ \A i \in 1 .. n : sent[c][i] \in Int
  <2>1. /\ Append(sent[c], buf_frame) \in Seq(Messages)
        /\ Len(Append(sent[c], buf_frame)) = n + 1
        /\ \A i \in 1 .. n : Append(sent[c], buf_frame)[i] = sent[c][i]
        /\ Append(sent[c], buf_frame)[n + 1] = buf_frame
    BY <1>1, AppendProperties
  <2>2. \A i \in 1 .. n : sent[c][i] \in Messages
    BY ElementOfSeq
  <2> QED BY <2>1, <2>2, LenProperties DEF Messages
<1>5. \A i \in DOMAIN sent'[c] : i \in 1 .. n \/ i = n + 1
  BY <1>4
<1>6. \A i \in DOMAIN sent'[c] : sent'[c][i] <= buf_frame
  BY <1>1, <1>4, <1>5 DEF Given
<1>7. \A i, j \in DOMAIN sent'[c] :
        i < j /\ sent'[c][i] >= 0 /\ sent'[c][j] >= 0 => sent'[c][i] <= sent'[c][j]
  BY <1>1, <1>4, <1>5, <1>6 DEF Given
<1>8. \A f \in 1 .. MaxFrames : Cardinality(Places(c, f)') \in 0 .. 2
  BY <1>2, <1>3 DEF Given
<1>9. buf_frame > 0 => Cardinality(Places(c, buf_frame)') + Coming(c)' <= 2
  <2>1. ASSUME buf_frame > 0
        PROVE  Cardinality(Places(c, buf_frame)') + Coming(c)' <= 2
    <3>1. /\ Cardinality(Places(c, buf_frame)) \in Nat
          /\ Cardinality(Places(c, buf_frame)') = Cardinality(Places(c, buf_frame)) + 1
      BY <1>2
    <3>2. Cardinality(Places(c, buf_frame)) + Coming(c) <= 2
      BY <2>1 DEF Given
    <3> QED BY <1>3, <3>1, <3>2
  <2> QED BY <2>1
<1>10. \A f : Places(c, f)' = {i \in DOMAIN sent'[c] : sent'[c][i] = f}
  BY DEF Places
<1> QED BY <1>6, <1>7, <1>8, <1>9, <1>10 DEF Given, Places

\* The client was greeted: that is no frame.
LEMMA GivenGreeting ==
  ASSUME NEW c \in Clients, Given(c), sent[c] \in Seq(Messages), NEW m \in {Ready, Full},
         sent'[c] = Append(sent[c], m), buf_frame' = buf_frame,
         buf_frame \in 0 .. MaxFrames, evt' = evt, Due(c)' => Due(c)
  PROVE  Given(c)'
<1> DEFINE n == Len(sent[c])
<1>1. m \in Messages /\ m < 0 /\ m \in Int /\ buf_frame \in Int /\ m <= buf_frame
  BY MessageType DEF Ready, Full
<1>2. \A f \in Nat : /\ Cardinality(Places(c, f)) \in Nat
                     /\ Cardinality(Places(c, f)') = Cardinality(Places(c, f))
  <2> TAKE f \in Nat
  <2>1. m # f
    BY <1>1
  <2> QED BY <1>1, <2>1, OneMore
<1>3. Coming(c)' \in {0, 1, 2} /\ Coming(c) \in {0, 1, 2} /\ Coming(c)' <= Coming(c)
  BY DEF Coming
<1>4. /\ n \in Nat /\ DOMAIN sent[c] = 1 .. n /\ DOMAIN sent'[c] = 1 .. n + 1
      /\ sent'[c][n + 1] = m /\ \A i \in 1 .. n : sent'[c][i] = sent[c][i]
  <2>1. /\ Append(sent[c], m) \in Seq(Messages) /\ Len(Append(sent[c], m)) = n + 1
        /\ \A i \in 1 .. n : Append(sent[c], m)[i] = sent[c][i]
        /\ Append(sent[c], m)[n + 1] = m
    BY <1>1, AppendProperties
  <2> QED BY <2>1, LenProperties
<1>5. \A i \in DOMAIN sent'[c] : i \in 1 .. n \/ i = n + 1
  BY <1>4
<1>6. \A i \in DOMAIN sent'[c] : sent'[c][i] <= buf_frame
  BY <1>1, <1>4, <1>5 DEF Given
<1>7. \A i, j \in DOMAIN sent'[c] :
        i < j /\ sent'[c][i] >= 0 /\ sent'[c][j] >= 0 => sent'[c][i] <= sent'[c][j]
  BY <1>1, <1>4, <1>5 DEF Given
<1>8. \A f \in 1 .. MaxFrames : Cardinality(Places(c, f)') \in 0 .. 2
  BY <1>2 DEF Given
<1>9. ASSUME buf_frame > 0
      PROVE  Cardinality(Places(c, buf_frame)') + Coming(c)' <= 2
  <2>1. buf_frame \in Nat /\ Cardinality(Places(c, buf_frame)) + Coming(c) <= 2
    BY <1>1, <1>9 DEF Given
  <2>2. /\ Cardinality(Places(c, buf_frame)) \in Nat
        /\ Cardinality(Places(c, buf_frame)') = Cardinality(Places(c, buf_frame))
    BY <1>2, <2>1
  <2> QED BY <1>3, <2>1, <2>2
<1>10. \A f : Places(c, f)' = {i \in DOMAIN sent'[c] : sent'[c][i] = f}
  BY DEF Places
<1> QED BY <1>6, <1>7, <1>8, <1>9, <1>10 DEF Given, Places

\* A new frame has been given to nobody, and two rounds are coming at most.
LEMMA GivenNew ==
  ASSUME HeldInv, FrameInv, PushFrame, NEW c \in Clients
  PROVE  Given(c)'
<1>1. /\ buf_frame \in 0 .. MaxFrames /\ buf_frame' = buf_frame + 1 /\ sent' = sent
      /\ sent[c] \in Seq(Messages)
  BY DEF PushFrame, FrameInv, HeldInv, TypeOK, tcpVars
<1>2. Given(c)
  BY DEF FrameInv
<1>3. \A i \in DOMAIN sent[c] : sent[c][i] \in Int /\ sent[c][i] <= buf_frame
  <2>1. DOMAIN sent[c] = 1 .. Len(sent[c])
    BY <1>1, LenProperties
  <2>2. \A i \in 1 .. Len(sent[c]) : sent[c][i] \in Messages
    BY <1>1, ElementOfSeq
  <2> QED BY <1>2, <2>1, <2>2 DEF Given, Messages
<1>4. Places(c, buf_frame + 1) = {}
  BY <1>1, <1>3 DEF Places
<1>5. Cardinality(Places(c, buf_frame + 1)) = 0
  BY <1>4, FS_EmptySet
<1>6. Coming(c)' \in 0 .. 2
  BY DEF Coming
<1>7. /\ \A f : Places(c, f)' = Places(c, f)
      /\ Places(c, buf_frame)' = Places(c, buf_frame + 1)
  BY <1>1 DEF Places
<1>8. \A i \in DOMAIN sent'[c] : sent'[c][i] <= buf_frame'
  BY <1>1, <1>3
<1>9. /\ \A i, j \in DOMAIN sent'[c] :
           i < j /\ sent'[c][i] >= 0 /\ sent'[c][j] >= 0 => sent'[c][i] <= sent'[c][j]
      /\ \A f \in 1 .. MaxFrames : Cardinality(Places(c, f)) \in 0 .. 2
  BY <1>1, <1>2 DEF Given
<1>10. Cardinality(Places(c, buf_frame)') + Coming(c)' <= 2
  BY <1>5, <1>6, <1>7
<1> QED BY <1>7, <1>8, <1>9, <1>10 DEF Given

LEMMA NetworkGiven ==
  ASSUME HeldInv, FrameInv, Network, NEW c \in Clients
  PROVE  Given(c)'
<1>1. /\ UNCHANGED <<ncs, buf_frame, evt, ppc, pi>>
      /\ buf_frame \in 0 .. MaxFrames /\ Given(c)
  BY DEF Network, HeldInv, TypeOK, FrameInv, pushVars
<1>2. PICK d \in Clients : Connect(d) \/ Stall(d) \/ Read(d) \/ HalfClose(d) \/ Die(d)
  BY DEF Network
<1>3. \A e \in Clients : pend'[e] \in {pend[e], Nobody}
  BY <1>2 DEF Connect, Stall, Read, HalfClose, Die, HeldInv, TypeOK
<1>4. Due(c)' => Due(c)
  BY <1>1, <1>3 DEF Due, Nobody
<1>5. CASE c = d /\ Read(c) /\ pend[c] = "push"
  <2>1. sent'[c] = Append(sent[c], buf_frame) /\ pend'[c] = Nobody
    BY <1>5 DEF Read, HeldInv, TypeOK
  <2>2. ppc = "blocked" /\ pi \in Slots /\ ncs[pi] = c /\ c # NoConn
    BY <1>5, RawdAssumption DEF HeldInv, WriteInv
  <2>3. \A i \in Slots : ncs[i] = c => i = pi
    BY <2>2 DEF HeldInv, SlotInv
  <2>4. Due(c) /\ ~Due(c)'
    BY <1>1, <1>5, <2>1, <2>2, <2>3 DEF Due, Nobody, Slots
  <2> QED BY <1>1, <2>1, <2>4, GivenFrame DEF HeldInv, TypeOK
<1>6. CASE c = d /\ Read(c) /\ pend[c] = "rawd"
  <2>1. sent'[c] = Append(sent[c], Ready)
    BY <1>6 DEF Read, HeldInv, TypeOK
  <2> QED BY <1>1, <1>4, <2>1, GivenGreeting DEF HeldInv, TypeOK
<1>7. CASE ~(c = d /\ Read(c) /\ pend[c] \in {"push", "rawd"})
  <2>1. sent'[c] = sent[c]
    BY <1>2, <1>7 DEF Connect, Stall, Read, HalfClose, Die, HeldInv, TypeOK
  <2> QED BY <1>1, <1>4, <2>1, GivenKept
<1> QED BY <1>5, <1>6, <1>7

LEMMA PushGiven ==
  ASSUME HeldInv, FrameInv, PushThread, NEW c \in Clients
  PROVE  Given(c)'
<1>1. /\ UNCHANGED <<ncs, buf_frame>> /\ evt' \in {evt, FALSE}
      /\ buf_frame \in 0 .. MaxFrames /\ Given(c) /\ sent[c] \in Seq(Messages)
      /\ pi \in 0 .. NC_COUNT /\ NC_COUNT \in Nat
  <2>1. UNCHANGED <<ncs, buf_frame>> /\ (evt' = evt \/ evt' = FALSE)
    BY DEF PushThread, PushWake, PushLock, PushTest, PushWrite, PushWritten, PushDone, TakeEvent
  <2> QED BY <2>1, RawdAssumption DEF HeldInv, TypeOK, FrameInv
<1>2. CASE PushWake
  <2>1. /\ ppc = "wait" /\ ppc' = "lock" /\ evt /\ evt' = FALSE /\ sent' = sent
    BY <1>2 DEF PushWake, TakeEvent, tcpVars
  <2>2. Coming(c)' = Coming(c) /\ Coming(c) \in {0, 1, 2}
    BY <2>1 DEF Coming, Due
  <2>3. \A f : Places(c, f)' = Places(c, f)
    BY <2>1 DEF Places
  <2> QED BY <1>1, <2>1, <2>2, <2>3 DEF Given
<1>3. CASE PushWrite
  <2>1. /\ ppc = "write" /\ pi \in Slots /\ ncs[pi] \in Clients /\ evt' = evt
        /\ Write(ncs[pi], buf_frame, "push")
        /\ IF WriteBlocks(ncs[pi]) THEN ppc' = "blocked" /\ pi' = pi
                                   ELSE ppc' = "scan" /\ pi' = pi + 1
    BY <1>3 DEF PushWrite, HeldInv, WriteInv, TypeOK
  <2>2. /\ pend'[c] = IF c = ncs[pi] /\ WriteBlocks(c) THEN "push" ELSE pend[c]
        /\ sent'[c] = IF c = ncs[pi] /\ WriteSends(c) THEN Append(sent[c], buf_frame)
                                                      ELSE sent[c]
    <3>1. buf_frame \in Messages
      BY <1>1, MessageType
    <3> QED BY <2>1, <3>1, WriteType DEF HeldInv
  <2>3. ncs[pi] = c => \A i \in Slots : ncs[i] = c => i = pi
    BY <2>1, RawdAssumption DEF HeldInv, SlotInv
  <2>4. \A i \in Slots : i > pi => i >= pi /\ i >= pi + 1
    BY <1>1 DEF Slots
  <2>5. \A i \in Slots : i >= pi + 1 => i >= pi
    BY <1>1 DEF Slots
  <2>6. pend[c] = "push" => FALSE
    BY <2>1 DEF HeldInv, WriteInv
  <2>7. Due(c)' => Due(c)
    BY <2>1, <2>2, <2>4, <2>5, <2>6, <1>1 DEF Due, Slots
  <2>8. CASE c = ncs[pi] /\ WriteSends(c)
    <3>1. ~WriteBlocks(c) /\ pi + 1 > pi
      BY <1>1, <2>8 DEF WriteSends, WriteBlocks
    <3>2. ~(pi >= pi + 1)
      BY <1>1
    <3>3. ~Due(c)'
      BY <1>1, <2>1, <2>3, <2>8, <3>1, <3>2 DEF Due
    <3>4. Due(c)
      BY <2>1, <2>8 DEF Due, Slots
    <3> QED BY <1>1, <2>1, <2>2, <2>8, <3>3, <3>4, GivenFrame
  <2>9. CASE ~(c = ncs[pi] /\ WriteSends(c))
    BY <1>1, <2>1, <2>2, <2>7, <2>9, GivenKept
  <2> QED BY <2>8, <2>9
<1>4. CASE PushLock \/ PushTest \/ PushWritten \/ PushDone
  <2>1. UNCHANGED <<sent, pend, evt>>
    BY <1>4 DEF PushLock, PushTest, PushWritten, PushDone, tcpVars
  <2>2. \A i \in Slots : /\ i >= pi + 1 => i >= pi /\ i > pi
                         /\ ~(i >= NC_COUNT)
    BY <1>1 DEF Slots
  <2>3. Due(c)' => Due(c)
    BY <1>1, <1>4, <2>1, <2>2 DEF Due, PushLock, PushTest, PushWritten, PushDone
  <2> QED BY <1>1, <2>1, <2>3, GivenKept
<1> QED BY <1>2, <1>3, <1>4 DEF PushThread

LEMMA RawdGiven ==
  ASSUME HeldInv, FrameInv, RawdThread, NEW c \in Clients
  PROVE  Given(c)'
<1>1. /\ UNCHANGED <<buf_frame, evt, ppc, pi>>
      /\ buf_frame \in 0 .. MaxFrames /\ Given(c) /\ sent[c] \in Seq(Messages)
      /\ TypeOK /\ WriteInv
  BY RawdMutex DEF HeldInv, TypeOK, FrameInv
<1>2. rpc # "accept" => nc \in Clients
  BY DEF HeldInv, TypeOK, NewInv
<1>3. CASE NewReady
  <2>1. nc \in Clients /\ Write(nc, Ready, "rawd") /\ ncs' = ncs
    BY <1>2, <1>3 DEF NewReady
  <2>2. /\ pend'[c] \in {pend[c], "rawd"}
        /\ sent'[c] \in {sent[c], Append(sent[c], Ready)}
    BY <1>1, <2>1, MessageType, WriteType
  <2>3. Due(c)' => Due(c)
    BY <1>1, <2>1, <2>2 DEF Due
  <2> QED BY <1>1, <2>2, <2>3, GivenKept, GivenGreeting
<1>4. CASE ~NewReady
  <2>1. pend' = pend /\ sent'[c] \in {sent[c], Append(sent[c], Full)}
    BY <1>1, <1>2, <1>4 DEF RawdThread, Accept, NewLock, NewTest, NewRefuse, NewInstall,
       NewGreeted, Delete, TypeOK, tcpVars
  <2>2. ncs' = ncs \/ ppc \notin PushHolds
    BY RawdMutex
  <2>3. Due(c)' => Due(c)
    BY <1>1, <2>1, <2>2 DEF Due, PushHolds
  <2> QED BY <1>1, <2>1, <2>3, GivenKept, GivenGreeting
<1> QED BY <1>3, <1>4

LEMMA FrameStep == IInv /\ [Next]_vars => FrameInv'
<1> SUFFICES ASSUME HeldInv, FrameInv, [Next]_vars PROVE FrameInv'
  BY DEF IInv
<1>1. pushed' = IF drx' = "push" THEN buf_frame' + 1 ELSE buf_frame'
  <2>1. CASE PushCall
    BY <2>1 DEF PushCall, FrameInv
  <2>2. CASE PushFrame
    BY <2>2 DEF PushFrame, FrameInv
  <2>3. CASE Network \/ PushThread \/ RawdThread \/ UNCHANGED vars
    <3>1. UNCHANGED <<pushed, drx, buf_frame>>
      BY <2>3, RawdMutex DEF Network, PushThread, PushWake, PushLock, PushTest, PushWrite,
         PushWritten, PushDone, vars
    <3> QED BY <3>1 DEF FrameInv
  <2> QED BY <2>1, <2>2, <2>3 DEF Next
<1>2. ASSUME NEW c \in Clients
      PROVE  Given(c)'
  <2>1. CASE PushCall \/ UNCHANGED vars
    <3>1. UNCHANGED <<sent, pend, buf_frame, evt, ppc, pi, ncs>>
      BY <2>1 DEF PushCall, vars, tcpVars, pushVars
    <3>2. Due(c)' => Due(c)
      BY <3>1 DEF Due
    <3> QED BY <3>1, <3>2, GivenKept DEF HeldInv, TypeOK, FrameInv
  <2> QED BY <2>1, NetworkGiven, PushGiven, RawdGiven, GivenNew DEF Next
<1> QED BY <1>1, <1>2 DEF FrameInv
-----------------------------------------------------------------------------
(* The theorems.                                                           *)

LEMMA Initial == Init => IInv
<1> SUFFICES ASSUME Init PROVE IInv
  OBVIOUS
<1>1. TypeOK
  <2>1. 0 \in 0 .. MaxFrames /\ 0 \in 0 .. NC_COUNT
    BY RawdAssumption
  <2>2. sent \in [Clients -> Seq(Messages)]
    BY DEF Init
  <2>3. evt \in BOOLEAN
    BY DEF Init
  <2>4. ncs \in [Slots -> Clients \union {NoConn}]
    BY DEF Init
  <2>5. /\ tcp \in [Clients -> {"none", "est", "closing", "dead", "deleted"}]
        /\ pend \in [Clients -> {Nobody, "push", "rawd"}]
    BY DEF Init
  <2> QED BY <2>1, <2>2, <2>3, <2>4, <2>5 DEF Init, TypeOK
<1>2. MutexInv /\ NewInv /\ WriteInv
  BY RawdAssumption DEF Init, MutexInv, NewInv, WriteInv, PushHolds, Nobody
<1>3. SlotInv
  BY RawdAssumption DEF Init, SlotInv, Live, Taken, InHand, Slots
<1>4. FrameInv
  <2>1. ASSUME NEW c \in Clients
        PROVE  Given(c)
    <3>1. sent[c] = << >> /\ buf_frame = 0
      BY DEF Init
    <3>2. DOMAIN sent[c] = {}
      BY <3>1
    <3>3. \A f : Places(c, f) = {}
      BY <3>2 DEF Places
    <3> QED BY <3>1, <3>2, <3>3, FS_EmptySet DEF Given
  <2> QED BY <2>1 DEF Init, FrameInv
<1>5. RoomInv
  BY DEF Init, RoomInv
<1> QED BY <1>1, <1>2, <1>3, <1>4, <1>5 DEF IInv, HeldInv

\* The slots, the mutex, the two threads and what each client was given agree.
THEOREM Inductive == Spec => []IInv
<1>1. IInv /\ [Next]_vars => IInv'
  BY HeldStep, RoomStep, FrameStep DEF IInv
<1> QED BY Initial, <1>1, PTL DEF Spec

\* No connection leaks, none is in two slots and none is used after rawd_new
\* has deleted it, for any number of slots and clients.
THEOREM NoConnectionLost == Spec => []SlotConservation
<1>1. IInv => SlotConservation
  <2> SUFFICES ASSUME TypeOK, NewInv, SlotInv PROVE SlotConservation
    BY DEF IInv, HeldInv
  <2>1. InSlots \subseteq Clients /\ InHand \subseteq Clients /\ NoConn \notin Clients
    BY RawdAssumption DEF TypeOK, NewInv, InSlots, InHand
  <2>2. \A c \in Clients : /\ c \in Held <=> Live(c) /\ c \notin backlog
                           /\ c \in InSlots <=> Taken(c)
    BY <2>1 DEF Held, Live, Open, InSlots, Taken
  <2>3. Held \subseteq Clients
    BY DEF Held
  <2> QED BY <2>1, <2>2, <2>3 DEF SlotInv, SlotConservation
<1> QED BY Inductive, <1>1, PTL

\* rawd_push_loop writes to no connection that rawd_new has deleted.
THEOREM TargetLives == Spec => []WriteTargetLives
<1>1. IInv => WriteTargetLives
  <2> SUFFICES ASSUME TypeOK, SlotInv, WriteInv, ppc \in {"write", "blocked"}
               PROVE  pi \in Slots /\ ncs[pi] \in Held
    BY DEF IInv, HeldInv, WriteTargetLives
  <2>1. pi \in Slots /\ ncs[pi] \in Clients /\ Taken(ncs[pi])
    BY DEF TypeOK, WriteInv, Taken
  <2>2. Live(ncs[pi]) /\ ncs[pi] \notin backlog
    BY <2>1 DEF SlotInv
  <2> QED BY <2>1, <2>2 DEF Live, Held, Open
<1> QED BY Inductive, <1>1, PTL

\* rawd_new refuses no client if a slot was free, or its connection dead, when
\* it got the mutex: rawd_new of rawd.c, for any number of slots and clients.
THEOREM Seated == Spec => []SeatForTheLiving
<1>1. IInv => SeatForTheLiving
  <2> SUFFICES ASSUME TypeOK, NewInv, RoomInv, room, rpc = "scan", ri = NC_COUNT
               PROVE  free \in Slots /\ ncs[free] = NoConn
    BY DEF IInv, HeldInv, SeatForTheLiving
  <2>1. ~\E i \in Slots : i >= ri
    BY RawdAssumption DEF Slots
  <2>2. free # -1
    BY <2>1 DEF RoomInv
  <2> QED BY <2>2 DEF TypeOK, NewInv
<1> QED BY Inductive, <1>1, PTL

\* No client gets a frame out of order or a third time, however many frames
\* are pushed and whichever way the events and the rounds of writing overlap.
THEOREM TwiceAtMost == Spec => []AtMostTwice
<1>1. IInv => AtMostTwice
  <2> SUFFICES ASSUME FrameInv, NEW c \in Clients
               PROVE  /\ \A i, j \in DOMAIN sent[c] :
                           i < j /\ sent[c][i] >= 0 /\ sent[c][j] >= 0
                             => sent[c][i] <= sent[c][j]
                      /\ \A f \in 1 .. MaxFrames :
                           Cardinality({i \in DOMAIN sent[c] : sent[c][i] = f}) <= 2
    BY DEF IInv, AtMostTwice
  <2>1. Given(c)
    BY DEF FrameInv
  <2> QED BY <2>1 DEF Given, Places
<1> QED BY Inductive, <1>1, PTL
=============================================================================
