------------------------------ MODULE Gateway ------------------------------
(***************************************************************************)
(* The way of a packet through the gateway, from the radio driver to the   *)
(* sensor table and the raw feed, past everything that can block it: the   *)
(* web server (module Httpd) and the console list the table with           *)
(* data_mutex held, and the raw feed writes with rawd_mutex held, each to a*)
(* stream whose other end may stop reading.  Here every such write is one  *)
(* step that may take any time; that the other ends read is a fairness     *)
(* assumption, EndsRead.                                                   *)
(*                                                                         *)
(* The components appear by what they promise: the receive mailbox is a    *)
(* queue that loses its oldest packet (LossyQueue, which module NrfRadio   *)
(* implements), and of modules SensorTable and Rawd only the locks, the    *)
(* waits and the number of the packet remain.                              *)
(***************************************************************************)
EXTENDS Httpd

CONSTANTS
  RxSlots,    \* MBSZ of the radio driver
  MaxPackets  \* bound: packets heard

ASSUME GatewayAssumption == RxSlots \in Nat \ {0} /\ MaxPackets \in Nat

VARIABLES
  heard,      \* the packets heard, numbered 1, 2, ...
  rxMb,       \* the receive mailbox
  drx, pkt,   \* data_rx: "recv", "table" or "push", and the packet it has
  stored,     \* the last packet update_table was given
  buf_frame,  \* the last packet rawd_push was given
  evt,        \* an event is pending for the rawd_push thread
  feed,       \* the rawd_push thread: "wait", "lock" or "write"
  rawd_mutex,
  shell       \* the console: "prompt", "lock" or "dump"

rxVars == <<heard, rxMb, drx, pkt, stored, buf_frame>>
feedVars == <<evt, feed, rawd_mutex>>
gatewayVars == <<httpVars, rxVars, feedVars, shell>>

GatewayInit ==
  /\ Init
  /\ heard = 0 /\ rxMb = << >> /\ drx = "recv" /\ pkt = 0 /\ stored = 0 /\ buf_frame = 0
  /\ evt = FALSE /\ feed = "wait" /\ rawd_mutex = Nobody
  /\ shell = "prompt"
-----------------------------------------------------------------------------
(* Faulty variants of the definitions below.  Nothing uses them: each shows*)
(* that some property notices when the code is wrong in that way.          *)

FaultyFeedWrite ==
  /\ feed = "write"
  /\ feed' = "wait"
  /\ UNCHANGED <<httpVars, rxVars, evt, rawd_mutex, shell>>
FaultyDumpDone ==
  /\ shell = "dump"
  /\ shell' = "prompt"
  /\ UNCHANGED <<netVars, threadVars, sharedVars, rxVars, feedVars>>
FaultyDrxTable ==
  /\ drx = "table"
  /\ stored' = pkt
  /\ drx' = "push"
  /\ UNCHANGED <<httpVars, heard, rxMb, pkt, buf_frame, feedVars, shell>>
-----------------------------------------------------------------------------
(* The radio thread never waits for a receiver: nrf_irq takes the oldest   *)
(* buffer out of a full mailbox before it posts the new one.               *)
Hear ==
  /\ heard < MaxPackets
  /\ heard' = heard + 1
  /\ rxMb' = Append(IF Len(rxMb) = RxSlots THEN Tail(rxMb) ELSE rxMb, heard + 1)
  /\ UNCHANGED <<httpVars, drx, pkt, stored, buf_frame, feedVars, shell>>
-----------------------------------------------------------------------------
(* data_rx.                                                                *)

DrxRecv ==
  /\ drx = "recv" /\ rxMb # << >>
  /\ pkt' = Head(rxMb) /\ rxMb' = Tail(rxMb)
  /\ drx' = "table"
  /\ UNCHANGED <<httpVars, heard, stored, buf_frame, feedVars, shell>>

\* update_table takes and leaves data_mutex without a wait in between.
DrxTable ==
  /\ drx = "table" /\ data_mutex = Nobody
  /\ stored' = pkt
  /\ drx' = "push"
  /\ UNCHANGED <<httpVars, heard, rxMb, pkt, buf_frame, feedVars, shell>>

\* So does rawd_push with rawd_mutex.
DrxPush ==
  /\ drx = "push" /\ rawd_mutex = Nobody
  /\ buf_frame' = pkt
  /\ evt' = TRUE
  /\ drx' = "recv"
  /\ UNCHANGED <<httpVars, heard, rxMb, pkt, stored, feed, rawd_mutex, shell>>

DataRx == DrxRecv \/ DrxTable \/ DrxPush
-----------------------------------------------------------------------------
(* The rawd_push thread.                                                   *)

FeedWake ==
  /\ feed = "wait" /\ evt
  /\ evt' = FALSE
  /\ feed' = "lock"
  /\ UNCHANGED <<httpVars, rxVars, rawd_mutex, shell>>

FeedLock ==
  /\ feed = "lock" /\ rawd_mutex = Nobody
  /\ rawd_mutex' = "feed"
  /\ feed' = "write"
  /\ UNCHANGED <<httpVars, rxVars, evt, shell>>

FeedWrite ==
  /\ feed = "write"
  /\ rawd_mutex' = Nobody
  /\ feed' = "wait"
  /\ UNCHANGED <<httpVars, rxVars, evt, shell>>
-----------------------------------------------------------------------------
(* The console's command that dumps the table.  To httpd the console is one*)
(* of the others that take data_mutex.                                     *)

DumpCommand ==
  /\ shell = "prompt"
  /\ shell' = "lock"
  /\ UNCHANGED <<httpVars, rxVars, feedVars>>

DumpLock ==
  /\ shell = "lock" /\ data_mutex = Nobody
  /\ data_mutex' = "others"
  /\ shell' = "dump"
  /\ UNCHANGED <<netVars, threadVars, txMb, queued, rxVars, feedVars>>

DumpDone ==
  /\ shell = "dump"
  /\ data_mutex' = Nobody
  /\ shell' = "prompt"
  /\ UNCHANGED <<netVars, threadVars, txMb, queued, rxVars, feedVars>>
-----------------------------------------------------------------------------
\* The rest of the system does not see a step of the web server.
Others == <<rxVars, feedVars, shell>>
Customers == \E c \in Clients : Connect(c) \/ Ask(c) \/ Die(c)
Web ==
  /\ (Customers /\ UNCHANGED <<threadVars, sharedVars>>) \/ HttpdThread \/ RadioTake
  /\ UNCHANGED Others

GatewayNext ==
  \/ Web \/ Hear \/ DataRx
  \/ FeedWake \/ FeedLock \/ FeedWrite
  \/ DumpCommand \/ DumpLock \/ DumpDone

(***************************************************************************)
(* Fairness.  Threads run when they can.  A mutex is handed over to a      *)
(* waiting thread when it is left, so a thread that waits for data_mutex   *)
(* gets it although others keep coming back.  (rawd_mutex is never taken   *)
(* twice while another thread waits for it.)  The web server runs unless it*)
(* writes to its client, which is the client's affair.                     *)
(***************************************************************************)
Scheduling ==
  /\ WF_gatewayVars(DataRx) /\ SF_gatewayVars(DrxTable)
  /\ WF_gatewayVars(FeedWake \/ FeedLock)
  /\ SF_gatewayVars(DumpLock)
  /\ WF_gatewayVars(pc \notin {"write", "finalize"} /\ HttpdThread /\ UNCHANGED Others)
  /\ WF_gatewayVars(RadioTake /\ UNCHANGED Others)
  /\ SF_gatewayVars(DataLock /\ UNCHANGED Others)

\* The clients of the feed and of the web server and the USB host read: a
\* write to them ends.
EndsRead ==
  /\ WF_gatewayVars(FeedWrite) /\ WF_gatewayVars(DumpDone)
  /\ WF_gatewayVars((NetFlush \/ Finalize) /\ UNCHANGED Others)

\* A client that has connected sends a request or goes away.
ClientsAsk ==
  \A c \in Clients :
    WF_gatewayVars((Ask(c) \/ Die(c)) /\ UNCHANGED <<threadVars, sharedVars, Others>>)

GatewaySpec ==
  GatewayInit /\ [][GatewayNext]_gatewayVars /\ Scheduling /\ EndsRead /\ ClientsAsk
-----------------------------------------------------------------------------
(* Safety.                                                                 *)

\* The web server of the composition is that of module Httpd: what the others
\* do with data_mutex is what Httpd lets them do, so it keeps its promises.
WebServer == Spec

\* The table does not change while the web server or the console is writing it
\* to a client that reads slowly, and the two do not write it at once.
TableStill ==
  /\ [](~(Listing /\ shell = "dump"))
  /\ [][stored' # stored => ~Listing /\ shell # "dump"]_gatewayVars

\* The table and the feed are given packets in the order they were heard, none
\* twice, whatever the mailbox lost; and the feed none the table has not had.
PacketsInOrder ==
  /\ [](buf_frame <= stored /\ stored <= heard)
  /\ [][DrxTable => stored' > stored]_gatewayVars
  /\ [][DrxPush => buf_frame' > buf_frame]_gatewayVars
-----------------------------------------------------------------------------
(* Liveness.                                                               *)

\* Every packet the radio hears reaches the sensor table and the raw feed, or
\* a later one does: no reader of the table or of the feed holds data_rx up
\* for ever, as long as the other ends read.
PacketsFlow ==
  \A n \in 1 .. MaxPackets : heard >= n ~> stored >= n /\ buf_frame >= n

\* Every client that connects is served and its connection deleted, whatever
\* the radio, the feed and the console do, as long as each client sends a
\* request or goes away, and reads.
Served == \A c \in Clients : server[c] # "none" ~> server[c] = "deleted"
=============================================================================
