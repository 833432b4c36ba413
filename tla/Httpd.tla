------------------------------- MODULE Httpd -------------------------------
(***************************************************************************)
(* The web server, firmware/net/httpd.c: one thread takes one connection   *)
(* at a time, reads one request from it, answers through the static stream *)
(* net and closes it.                                                      *)
(*                                                                         *)
(* What a request asks is abstracted to its outcome after parsing (module  *)
(* HttpRequest); output is abstracted to pieces, of which the buffer of    *)
(* net holds BufSize.  A handler is the list of the steps it takes.        *)
(*                                                                         *)
(* The lwIP calls are external: netconn_recv waits for data or for the end *)
(* of the connection, there being no receive timeout (lwipopts.h), and     *)
(* netconn_write waits for room in the send buffer, there being no send    *)
(* timeout either; on a dead connection it fails, which httpd ignores.     *)
(***************************************************************************)
EXTENDS Integers, Sequences, Functions

CONSTANTS
  MaxClients,   \* bound: connections made
  Requests,     \* the kinds of request the clients send, among Kinds
  BufSize,      \* pieces the buffer of net holds (512 bytes)
  Rows,         \* pieces in a listing of the sensor table
  TxSlots,      \* MBSZ of the radio driver
  AcceptSlots   \* DEFAULT_ACCEPTMBOX_SIZE (4)

Kinds == {"root", "raw", "json", "message", "badmessage", "nopath", "junk"}

ASSUME HttpdAssumption ==
  /\ MaxClients \in Nat /\ Requests \subseteq Kinds
  /\ BufSize \in Nat \ {0} /\ Rows \in Nat
  /\ TxSlots \in Nat \ {0} /\ AcceptSlots \in Nat \ {0}

\* Connections are numbered in the order they are made; 0 is no connection
\* and no netbuf.
Clients == 1 .. MaxClients
NoConn == 0

VARIABLES
  tcp,      \* each connection: "none", "est" or "dead"
  backlog,  \* the accept mailbox
  server,   \* each connection, to the server: "none", "waiting", "held", ...
  asked,    \* what each client has sent: "nothing" or a kind of request
  sent,     \* what was written to each connection
  netbuf,   \* the netbuf of each connection: "none", "held", "freed", "corrupt"
  pc,       \* the httpd thread
  nc,       \* its connection
  nb,       \* its netbuf, named by the connection it came from
  todo,     \* what the handler has left to do
  buf,      \* the first count pieces of the buffer of net
  data_mutex,  \* its owner
  txMb,     \* messages queued for the radio, each named by its sender
  queued    \* history: how often each client's message was queued

clientVars == <<tcp, asked>>
netVars == <<clientVars, backlog, server, sent, netbuf>>
threadVars == <<pc, nc, nb, todo, buf>>
sharedVars == <<data_mutex, txMb, queued>>
httpVars == <<netVars, threadVars, sharedVars>>

Nobody == "nobody"
Header(n) == <<"header", n>>
Row(i) == <<"row", i>>
Ok == <<"text", 1>>
Err == <<"text", 0>>
Page == <<"page", 0>>

Init ==
  /\ tcp = [c \in Clients |-> "none"] /\ server = [c \in Clients |-> "none"]
  /\ asked = [c \in Clients |-> "nothing"] /\ sent = [c \in Clients |-> << >>]
  /\ netbuf = [c \in Clients |-> "none"] /\ backlog = << >>
  /\ pc = "accept" /\ nc = NoConn /\ nb = NoConn /\ todo = << >> /\ buf = << >>
  /\ data_mutex = Nobody
  /\ txMb = << >> /\ queued = [c \in Clients |-> 0]
-----------------------------------------------------------------------------
(* The clients.                                                            *)

\* A connection the accept mailbox has no slot for is reset.
Connect(c) ==
  /\ tcp[c] = "none" /\ \A b \in 1 .. c - 1 : tcp[b] # "none"
  /\ IF Len(backlog) < AcceptSlots
       THEN /\ tcp' = [tcp EXCEPT ![c] = "est"]
            /\ server' = [server EXCEPT ![c] = "waiting"]
            /\ backlog' = Append(backlog, c)
       ELSE tcp' = [tcp EXCEPT ![c] = "dead"] /\ UNCHANGED <<server, backlog>>
  /\ UNCHANGED <<asked, sent, netbuf>>

Ask(c) ==
  /\ tcp[c] = "est" /\ asked[c] = "nothing"
  /\ \E r \in Requests : asked' = [asked EXCEPT ![c] = r]
  /\ UNCHANGED <<tcp, backlog, server, sent, netbuf>>

\* The client closes the connection without a request, or it is lost.
Die(c) ==
  /\ tcp[c] = "est"
  /\ tcp' = [tcp EXCEPT ![c] = "dead"]
  /\ UNCHANGED <<backlog, server, asked, sent, netbuf>>

Network ==
  /\ \E c \in Clients : Connect(c) \/ Ask(c) \/ Die(c)
  /\ UNCHANGED <<threadVars, sharedVars>>
-----------------------------------------------------------------------------
(* Faulty variants of the definitions below.  Nothing uses them: each shows*)
(* that some property notices when the code is wrong in that way.          *)

FaultyStreamReset == UNCHANGED buf
FaultyBailFree ==
  /\ pc = "bailFree"
  /\ nb' = NoConn
  /\ pc' = "delete"
  /\ UNCHANGED <<netVars, nc, todo, buf, sharedVars>>
-----------------------------------------------------------------------------
(* The handlers.                                                           *)

\* The answer to each kind of request.
Response(r) ==
  CASE r = "root"           -> <<Header(200), Page>>
    [] r \in {"raw", "json"} -> <<Header(200)>> \o [i \in 1 .. Rows |-> Row(i)]
    [] r = "message"        -> <<Header(200), Ok>>
    [] r = "badmessage"     -> <<Header(200), Err>>
    [] r = "nopath"         -> <<Header(404), Page>>
    [] OTHER                -> << >>

Step(op) == [op |-> op, out |-> Err]
Puts(r) == [i \in DOMAIN Response(r) |-> [op |-> "put", out |-> Response(r)[i]]]

FaultySteps(r) ==
  CASE r \in {"raw", "json"} ->
         <<Head(Puts(r)), Step("lock")>> \o Append(Tail(Puts(r)), Step("unlock"))
    [] r = "message" -> Append(Puts(r), Step("send"))
    [] OTHER -> Puts(r)

\* path_raw and path_json list the table under data_mutex, which they take
\* after the header; path_sendraw queues the message before it says OK.
Steps(r) ==
  CASE r \in {"raw", "json"} ->
         <<Head(Puts(r)), Step("lock")>> \o Append(Tail(Puts(r)), Step("unlock"))
    [] r = "message" -> <<Puts(r)[1], Step("send"), Puts(r)[2]>>
    [] OTHER -> Puts(r)
-----------------------------------------------------------------------------
(* The httpd thread.                                                       *)

\* netconn_close and netconn_delete.
CloseConn(c) == server' = [server EXCEPT ![c] = IF @ = "held" THEN "closed" ELSE "corrupt"]
DeleteConn(c) == server' = [server EXCEPT ![c] = IF @ = "closed" THEN "deleted" ELSE "corrupt"]

\* netbuf_delete, which ignores a null pointer.
FreeNetbuf(c) ==
  netbuf' = IF c = NoConn THEN netbuf
            ELSE [netbuf EXCEPT ![c] = IF @ = "held" THEN "freed" ELSE "corrupt"]

Accept ==
  /\ pc = "accept" /\ backlog # << >>
  /\ nc' = Head(backlog) /\ backlog' = Tail(backlog)
  /\ server' = [server EXCEPT ![Head(backlog)] = "held"]
  /\ pc' = "recv"
  /\ UNCHANGED <<clientVars, sent, netbuf, nb, todo, buf, sharedVars>>

\* netconn_recv returns the request, even one the client died after ...
Recv ==
  /\ pc = "recv" /\ asked[nc] # "nothing"
  /\ netbuf' = [netbuf EXCEPT ![nc] = "held"]
  /\ nb' = nc
  /\ pc' = "parse"
  /\ UNCHANGED <<clientVars, backlog, server, sent, nc, todo, buf, sharedVars>>

\* ... or fails, and leaves nb null.
RecvFails ==
  /\ pc = "recv" /\ tcp[nc] = "dead"
  /\ nb' = NoConn
  /\ pc' = "bailClose"
  /\ UNCHANGED <<netVars, nc, todo, buf, sharedVars>>

ParseFails ==
  /\ pc = "parse" /\ asked[nc] = "junk"
  /\ pc' = "bailClose"
  /\ UNCHANGED <<netVars, nc, nb, todo, buf, sharedVars>>

\* net.nc = nc; net.count = 0.
StreamReset == buf' = << >>

Dispatch ==
  /\ pc = "parse" /\ asked[nc] # "junk"
  /\ StreamReset
  /\ todo' = Steps(asked[nc])
  /\ pc' = "handle"
  /\ UNCHANGED <<netVars, nc, nb, sharedVars>>

\* The handler is at a step of this kind.
At(op) == pc = "handle" /\ todo # << >> /\ Head(todo).op = op

\* net_put, up to the write of a full buffer.
NetPut ==
  /\ At("put")
  /\ buf' = Append(buf, Head(todo).out)
  /\ todo' = Tail(todo)
  /\ pc' = IF Len(buf) + 1 = BufSize THEN "write" ELSE "handle"
  /\ UNCHANGED <<netVars, nc, nb, sharedVars>>

\* netconn_write returns, after any time, the buffer copied or the connection
\* dead.
Write(c) ==
  sent' = IF tcp[c] = "est" THEN [sent EXCEPT ![c] = @ \o buf] ELSE sent

NetFlush ==
  /\ pc = "write" /\ Write(nc)
  /\ buf' = << >>
  /\ pc' = "handle"
  /\ UNCHANGED <<clientVars, backlog, server, netbuf, nc, nb, todo, sharedVars>>

DataLock ==
  /\ At("lock") /\ data_mutex = Nobody
  /\ data_mutex' = "httpd"
  /\ todo' = Tail(todo)
  /\ UNCHANGED <<netVars, pc, nc, nb, buf, txMb, queued>>

DataUnlock ==
  /\ At("unlock")
  /\ data_mutex' = Nobody
  /\ todo' = Tail(todo)
  /\ UNCHANGED <<netVars, pc, nc, nb, buf, txMb, queued>>

\* nrf_send waits for a free slot.
NrfSend ==
  /\ At("send") /\ Len(txMb) < TxSlots
  /\ txMb' = Append(txMb, nc)
  /\ queued' = [queued EXCEPT ![nc] = @ + 1]
  /\ todo' = Tail(todo)
  /\ UNCHANGED <<netVars, pc, nc, nb, buf, data_mutex>>

HandlerDone ==
  /\ pc = "handle" /\ todo = << >>
  /\ FreeNetbuf(nb) /\ nb' = NoConn
  /\ pc' = "finalize"
  /\ UNCHANGED <<clientVars, backlog, server, sent, nc, todo, buf, sharedVars>>

\* net_finalize, which leaves count as it is, and netconn_close.
Finalize ==
  /\ pc = "finalize"
  /\ IF buf # << >> THEN Write(nc) ELSE UNCHANGED sent
  /\ pc' = "close"
  /\ UNCHANGED <<clientVars, backlog, server, netbuf, nc, nb, todo, buf, sharedVars>>

Close ==
  /\ pc \in {"close", "bailClose"}
  /\ CloseConn(nc)
  /\ pc' = IF pc = "close" THEN "delete" ELSE "bailFree"
  /\ UNCHANGED <<clientVars, backlog, sent, netbuf, nc, nb, todo, buf, sharedVars>>

BailFree ==
  /\ pc = "bailFree"
  /\ FreeNetbuf(nb) /\ nb' = NoConn
  /\ pc' = "delete"
  /\ UNCHANGED <<clientVars, backlog, server, sent, nc, todo, buf, sharedVars>>

Delete ==
  /\ pc = "delete"
  /\ DeleteConn(nc) /\ nc' = NoConn
  /\ pc' = "accept"
  /\ UNCHANGED <<clientVars, backlog, sent, netbuf, nb, todo, buf, sharedVars>>

HttpdThread ==
  \/ Accept \/ Recv \/ RecvFails \/ ParseFails \/ Dispatch
  \/ NetPut \/ NetFlush \/ DataLock \/ DataUnlock \/ NrfSend \/ HandlerDone
  \/ Finalize \/ Close \/ BailFree \/ Delete

\* The radio thread takes the oldest message.
RadioTake ==
  /\ txMb # << >>
  /\ txMb' = Tail(txMb)
  /\ UNCHANGED <<netVars, threadVars, data_mutex, queued>>
-----------------------------------------------------------------------------
(* The other users of data_mutex, which module Gateway spells out.         *)

OthersLock ==
  /\ data_mutex \in {Nobody, "others"}
  /\ data_mutex' = IF data_mutex = Nobody THEN "others" ELSE Nobody
  /\ UNCHANGED <<netVars, threadVars, txMb, queued>>

Next == Network \/ HttpdThread \/ RadioTake \/ OthersLock

Spec == Init /\ [][Next]_httpVars
-----------------------------------------------------------------------------
(* Safety.                                                                 *)

\* A listing of the table is being written: the handler is past its lock and
\* not at its end.
PastLock(steps) ==
  /\ \E i \in DOMAIN steps : steps[i].op = "unlock"
  /\ \A i \in DOMAIN steps : steps[i].op # "lock"
Listing == pc \in {"handle", "write"} /\ PastLock(todo)

\* A client gets its own answer, in order and without a piece of another
\* answer, however the buffer of net was left by the connection before; and
\* one that is alive when the server has closed has been given all of it.
OwnOutput ==
  \A c \in Clients :
    /\ \E n \in 0 .. Len(Response(asked[c])) : sent[c] = SubSeq(Response(asked[c]), 1, n)
    /\ server[c] \in {"closed", "deleted"} /\ tcp[c] = "est" => sent[c] = Response(asked[c])

\* Every connection and every netbuf is given back once, whichever way
\* httpd_process ends, is not used afterwards, and none is left when httpd
\* goes back to netconn_accept: two leaked netbufs would end the service
\* (MEMP_NUM_NETBUF).  Nor does it keep data_mutex.
ResourcesReturned ==
  /\ \A c \in Clients : server[c] # "corrupt" /\ netbuf[c] # "corrupt"
  /\ pc \in {"recv", "parse", "handle", "write", "finalize"} => server[nc] = "held"
  /\ pc \in {"parse", "handle", "write"} => netbuf[nc] = "held"
  /\ pc = "accept" => \A c \in Clients : server[c] # "held" /\ netbuf[c] # "held"
  /\ pc = "accept" => data_mutex # "httpd"

\* A client that is told OK had its message queued, once; one told ERR did
\* not; and no message is queued twice or for another kind of request.
OkMeansQueued ==
  \A c \in Clients :
    /\ Ok \in Range(sent[c]) => queued[c] = 1
    /\ Err \in Range(sent[c]) => queued[c] = 0
    /\ queued[c] <= 1 /\ (queued[c] = 1 => asked[c] = "message")
=============================================================================
