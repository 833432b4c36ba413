---------------------------- MODULE HttpdProofs ----------------------------
(***************************************************************************)
(* Safety of the web server for any number of clients, length of the table *)
(* and size of the buffers, by itself and in the gateway, where the console*)
(* and the way of the packets meet it at data_mutex.                       *)
(***************************************************************************)
EXTENDS Gateway, SequenceTheorems, TLAPS

Piece == {"header", "row", "text", "page"} \X Nat
HandlerStep == [op : {"put", "lock", "unlock", "send"}, out : Piece]
Questions == Requests \union {"nothing"}

TypeInv ==
  /\ tcp \in [Clients -> {"none", "est", "dead"}]
  /\ server \in [Clients -> {"none", "waiting", "held", "closed", "deleted"}]
  /\ asked \in [Clients -> Questions]
  /\ sent \in [Clients -> Seq(Piece)]
  /\ netbuf \in [Clients -> {"none", "held", "freed"}]
  /\ backlog \in Seq(Clients)
  /\ pc \in {"accept", "recv", "parse", "handle", "write", "finalize", "close", "delete",
             "bailClose", "bailFree"}
  /\ nc \in Clients \union {NoConn} /\ nb \in Clients \union {NoConn}
  /\ todo \in Seq(HandlerStep) /\ buf \in Seq(Piece)
  /\ queued \in [Clients -> Nat]
-----------------------------------------------------------------------------
(* Who holds what, at each place of the thread.                            *)

\* The connections in the mailbox are distinct and have not been taken.
BacklogInv ==
  /\ \A c \in Clients : tcp[c] = "none" => server[c] = "none"
  /\ \A i \in 1 .. Len(backlog) : server[backlog[i]] = "waiting"
  /\ \A i, j \in 1 .. Len(backlog) : backlog[i] = backlog[j] => i = j

HeldAt == {"recv", "parse", "handle", "write", "finalize", "close", "bailClose"}
ClosedAt == {"bailFree", "delete"}

\* The thread holds one connection, open or closed, and no other is either.
ConnectionInv ==
  /\ pc = "accept" <=> nc = NoConn
  /\ \A c \in Clients : server[c] = "held" <=> c = nc /\ pc \in HeldAt
  /\ \A c \in Clients : server[c] = "closed" <=> c = nc /\ pc \in ClosedAt

\* So with its netbuf, which the error path may lack.
NetbufInv ==
  /\ \A c \in Clients : netbuf[c] = "held" <=> c = nb
  /\ pc \in {"parse", "handle", "write"} => nb = nc
  /\ pc \in {"bailClose", "bailFree"} => nb \in {NoConn, nc}
  /\ pc \in {"accept", "recv", "finalize", "close", "delete"} => nb = NoConn

HeldInv == BacklogInv /\ ConnectionInv /\ NetbufInv
-----------------------------------------------------------------------------
(* What a client has been given.                                           *)

\* The pieces of the answer that the first k steps of the handler put.
Put(q, k) ==
  IF q \notin {"raw", "json", "message"} \/ k <= 1 THEN k
  ELSE IF k - 1 <= Len(Response(q)) THEN k - 1 ELSE Len(Response(q))

\* The handler has taken k steps; m pieces have been written to the client
\* and the rest of what was put is in the buffer, unless the client is gone.
Progress(c, k, m) ==
  LET q == asked[c] IN
  /\ todo = SubSeq(Steps(q), k + 1, Len(Steps(q)))
  /\ sent[c] = SubSeq(Response(q), 1, m)
  /\ m + Len(buf) <= Put(q, k) /\ (tcp[c] = "est" => m + Len(buf) = Put(q, k))
  /\ buf = SubSeq(Response(q), Put(q, k) - Len(buf) + 1, Put(q, k))
  /\ queued[c] = IF q = "message" /\ k >= 2 THEN 1 ELSE 0

Working(c) ==
  /\ asked[c] # "nothing"
  /\ \E k \in 0 .. Len(Steps(asked[c])), m \in 0 .. Len(Response(asked[c])) : Progress(c, k, m)
  /\ pc = "finalize" => todo = << >>

Fresh(c) == sent[c] = << >> /\ queued[c] = 0

Told(c) ==
  /\ \E n \in 0 .. Len(Response(asked[c])) : sent[c] = SubSeq(Response(asked[c]), 1, n)
  /\ Ok \in Range(sent[c]) => queued[c] = 1
  /\ Err \in Range(sent[c]) => queued[c] = 0
  /\ queued[c] <= 1 /\ (queued[c] = 1 => asked[c] = "message")

Over(c) ==
  /\ Told(c)
  /\ tcp[c] = "est" => asked[c] # "nothing" /\ sent[c] = Response(asked[c])

\* A client is served in these stages.
Stage(c) ==
  CASE server[c] \in {"none", "waiting"} -> Fresh(c)
    [] server[c] = "held" /\ pc = "recv" -> Fresh(c)
    [] server[c] = "held" /\ pc = "parse" -> Fresh(c) /\ asked[c] # "nothing"
    [] server[c] = "held" /\ pc = "bailClose" ->
         Fresh(c) /\ (tcp[c] = "est" => asked[c] = "junk")
    [] server[c] = "held" /\ pc \in {"handle", "write", "finalize"} -> Working(c)
    [] OTHER -> Over(c)

AnswerInv == \A c \in Clients : Stage(c)

-----------------------------------------------------------------------------
(* Who has data_mutex.                                                     *)

\* httpd has it from the lock of a listing to its unlock,
LockInv == data_mutex = "httpd" <=> Listing

\* and the console while it dumps the table.
DumpInv == shell = "dump" <=> data_mutex = "others"

IInv == TypeInv /\ HeldInv /\ AnswerInv
-----------------------------------------------------------------------------
(* The answers and the handlers.                                           *)

\* The output of a step that puts nothing is a placeholder.
LEMMA PieceType ==
  /\ Ok \in Piece /\ Err \in Piece /\ Page \in Piece
  /\ \A n \in Nat : Header(n) \in Piece /\ Row(n) \in Piece
  /\ \A n \in Nat : Header(n) # Ok /\ Header(n) # Err /\ Row(n) # Ok /\ Row(n) # Err
  /\ Ok # Err /\ Page # Ok /\ Page # Err
<1>2. /\ Ok \in Piece /\ Err \in Piece /\ Page \in Piece
      /\ \A n \in Nat : Header(n) \in Piece /\ Row(n) \in Piece
  BY DEF Piece, Ok, Err, Page, Header, Row
<1>3. \A n \in Nat : /\ Header(n)[1] = "header" /\ Row(n)[1] = "row"
                     /\ Ok[1] = "text" /\ Err[1] = "text" /\ Page[1] = "page"
                     /\ Ok[2] = 1 /\ Err[2] = 0
  BY DEF Ok, Err, Page, Header, Row
<1>4. Ok # Err /\ Page # Ok /\ Page # Err
  BY <1>3
<1>5. ASSUME NEW n \in Nat
      PROVE  Header(n) # Ok /\ Header(n) # Err /\ Row(n) # Ok /\ Row(n) # Err
  BY <1>3
<1> QED BY <1>2, <1>4, <1>5

\* A sequence of two.
LEMMA PairSeq ==
  ASSUME NEW S, NEW a \in S, NEW b \in S
  PROVE  /\ <<a, b>> \in Seq(S) /\ Len(<<a, b>>) = 2
         /\ <<a, b>>[1] = a /\ <<a, b>>[2] = b
OBVIOUS

\* Answers to short questions, piece by piece.
LEMMA ShortResponse ==
  ASSUME NEW q \in Kinds \union {"nothing"}, q \notin {"raw", "json"}
  PROVE  /\ Response(q) \in Seq(Piece)
         /\ Len(Response(q)) = IF q \in {"junk", "nothing"} THEN 0 ELSE 2
         /\ \A i \in 1 .. Len(Response(q)) :
              /\ Response(q)[i] = Ok <=> q = "message" /\ i = 2
              /\ Response(q)[i] = Err <=> q = "badmessage" /\ i = 2
<1>1. /\ Header(200) \in Piece /\ Header(404) \in Piece
      /\ Header(200) # Ok /\ Header(200) # Err /\ Header(404) # Ok /\ Header(404) # Err
  BY PieceType
<1>2. CASE q = "root"
  <2>1. Response(q) = <<Header(200), Page>>
    BY <1>2 DEF Response
  <2>2. /\ Response(q) \in Seq(Piece) /\ Len(Response(q)) = 2
        /\ Response(q)[1] = Header(200) /\ Response(q)[2] = Page
    BY <1>1, <2>1, PieceType, PairSeq
  <2>3. \A i \in 1 .. Len(Response(q)) : i = 1 \/ i = 2
    BY <2>2
  <2> QED BY <1>1, <1>2, <2>2, <2>3, PieceType
<1>3. CASE q = "message"
  <2>1. Response(q) = <<Header(200), Ok>>
    BY <1>3 DEF Response
  <2>2. /\ Response(q) \in Seq(Piece) /\ Len(Response(q)) = 2
        /\ Response(q)[1] = Header(200) /\ Response(q)[2] = Ok
    BY <1>1, <2>1, PieceType, PairSeq
  <2>3. \A i \in 1 .. Len(Response(q)) : i = 1 \/ i = 2
    BY <2>2
  <2> QED BY <1>1, <1>3, <2>2, <2>3, PieceType
<1>4. CASE q = "badmessage"
  <2>1. Response(q) = <<Header(200), Err>>
    BY <1>4 DEF Response
  <2>2. /\ Response(q) \in Seq(Piece) /\ Len(Response(q)) = 2
        /\ Response(q)[1] = Header(200) /\ Response(q)[2] = Err
    BY <1>1, <2>1, PieceType, PairSeq
  <2>3. \A i \in 1 .. Len(Response(q)) : i = 1 \/ i = 2
    BY <2>2
  <2> QED BY <1>1, <1>4, <2>2, <2>3, PieceType
<1>5. CASE q = "nopath"
  <2>1. Response(q) = <<Header(404), Page>>
    BY <1>5 DEF Response
  <2>2. /\ Response(q) \in Seq(Piece) /\ Len(Response(q)) = 2
        /\ Response(q)[1] = Header(404) /\ Response(q)[2] = Page
    BY <1>1, <2>1, PieceType, PairSeq
  <2>3. \A i \in 1 .. Len(Response(q)) : i = 1 \/ i = 2
    BY <2>2
  <2> QED BY <1>1, <1>5, <2>2, <2>3, PieceType
<1>6. CASE q \in {"junk", "nothing"}
  <2>1. Response(q) = << >>
    BY <1>6 DEF Response
  <2> QED BY <1>6, <2>1
<1> QED BY <1>2, <1>3, <1>4, <1>5, <1>6 DEF Kinds

\* A listing of the table: the header and the rows.
LEMMA LongResponse ==
  ASSUME NEW q \in {"raw", "json"}
  PROVE  /\ Response(q) \in Seq(Piece)
         /\ Len(Response(q)) = Rows + 1
         /\ \A i \in 1 .. Rows + 1 : Response(q)[i] # Ok /\ Response(q)[i] # Err
<1> DEFINE rows == [i \in 1 .. Rows |-> Row(i)]
<1>1. Response(q) = <<Header(200)>> \o rows
  BY DEF Response
<1>2. rows \in Seq(Piece) /\ Len(rows) = Rows /\ <<Header(200)>> \in Seq(Piece)
  BY PieceType, HttpdAssumption
<1>3. \A i \in 1 .. Rows : rows[i] # Ok /\ rows[i] # Err
  BY PieceType, HttpdAssumption
<1> HIDE DEF rows
<1>4. /\ Response(q) \in Seq(Piece)
      /\ Len(Response(q)) = 1 + Rows
      /\ \A i \in 1 .. 1 + Rows :
           Response(q)[i] = IF i <= 1 THEN <<Header(200)>>[i] ELSE rows[i - 1]
  BY <1>1, <1>2, ConcatProperties
<1>5. ASSUME NEW i \in 1 .. Rows + 1
      PROVE  Response(q)[i] # Ok /\ Response(q)[i] # Err
  <2>1. CASE i = 1
    <3>1. Response(q)[1] = <<Header(200)>>[1]
      BY <1>4, HttpdAssumption
    <3> QED BY <2>1, <3>1, PieceType
  <2>2. CASE i # 1
    <3>1. i - 1 \in 1 .. Rows /\ Response(q)[i] = rows[i - 1]
      BY <2>2, <1>4, HttpdAssumption
    <3> QED BY <3>1, <1>3
  <2> QED BY <2>1, <2>2
<1> QED BY <1>4, <1>5, HttpdAssumption

\* Every answer is a sequence of pieces, in which OK and ERR have one place.
LEMMA ResponseMeaning ==
  ASSUME NEW q \in Kinds \union {"nothing"}
  PROVE  /\ Response(q) \in Seq(Piece) /\ Len(Response(q)) \in Nat
         /\ \A i \in 1 .. Len(Response(q)) :
              /\ Response(q)[i] = Ok => q = "message" /\ i = 2
              /\ Response(q)[i] = Err => q = "badmessage" /\ i = 2
         /\ q \in {"junk", "nothing"} => Response(q) = << >>
BY ShortResponse, LongResponse, LenProperties, EmptySeq, HttpdAssumption

\* The steps of a handler put its answer, piece by piece; the message is
\* queued in the second step of its handler and by no other; a listing is
\* locked in its second step and unlocked in its last.
LEMMA StepsMeaning ==
  ASSUME NEW q \in Kinds \union {"nothing"}
  PROVE  /\ Steps(q) \in Seq(HandlerStep)
         /\ Put(q, 0) = 0 /\ Put(q, Len(Steps(q))) = Len(Response(q))
         /\ \A k \in 0 .. Len(Steps(q)) : Put(q, k) \in 0 .. Len(Response(q))
         /\ \A k \in 1 .. Len(Steps(q)) :
              /\ Steps(q)[k].op = "put" =>
                   Put(q, k) = Put(q, k - 1) + 1 /\ Steps(q)[k].out = Response(q)[Put(q, k)]
              /\ Steps(q)[k].op # "put" => Put(q, k) = Put(q, k - 1)
              /\ Steps(q)[k].op = "send" <=> q = "message" /\ k = 2
              /\ Steps(q)[k].op = "lock" <=> q \in {"raw", "json"} /\ k = 2
              /\ Steps(q)[k].op = "unlock" <=> q \in {"raw", "json"} /\ k = Len(Steps(q))
         /\ q \in {"raw", "json"} => Len(Steps(q)) > 2
<1> DEFINE R == Response(q)  L == Len(R)  P == Puts(q)
<1>1. R \in Seq(Piece) /\ L \in Nat
  BY ResponseMeaning
<1>2. /\ P \in Seq(HandlerStep) /\ Len(P) = L
      /\ \A i \in 1 .. L : P[i] = [op |-> "put", out |-> R[i]]
  <2>1. P = [i \in 1 .. L |-> [op |-> "put", out |-> R[i]]]
    BY <1>1, LenProperties DEF Puts
  <2>2. \A i \in 1 .. L : [op |-> "put", out |-> R[i]] \in HandlerStep
    BY <1>1, ElementOfSeq DEF HandlerStep
  <2> QED BY <1>1, <2>1, <2>2
<1>3. \A o \in {"lock", "unlock", "send"} : Step(o) \in HandlerStep /\ Step(o).op = o
  BY PieceType DEF Step, HandlerStep
<1> HIDE DEF P
<1>4. CASE q \notin {"raw", "json", "message"}
  <2>1. Steps(q) = P
    BY <1>4 DEF Steps, P
  <2>2. \A k \in 0 .. L : Put(q, k) = k
    BY <1>4 DEF Put
  <2>3. ASSUME NEW k \in 1 .. L
        PROVE  /\ Put(q, k) = Put(q, k - 1) + 1
               /\ Steps(q)[k].op = "put" /\ Steps(q)[k].out = R[Put(q, k)]
    <3>1. Put(q, k) = k /\ Put(q, k - 1) = k - 1
      BY <1>1, <2>2
    <3>2. Steps(q)[k] = [op |-> "put", out |-> R[k]]
      BY <1>2, <2>1
    <3>3. k = k - 1 + 1
      OBVIOUS
    <3> QED BY <3>1, <3>2, <3>3
  <2>4. \A k \in 0 .. L : Put(q, k) \in 0 .. L
    BY <2>2
  <2>5. Put(q, 0) = 0 /\ Put(q, L) = L
    BY <1>1, <2>2
  <2> QED BY <1>2, <1>4, <2>1, <2>3, <2>4, <2>5
<1>5. CASE q = "message"
  <2>1. L = 2
    BY <1>5, ShortResponse DEF Kinds
  <2>2. Steps(q) = <<P[1], Step("send"), P[2]>>
    BY <1>5 DEF Steps, P
  <2>3. /\ Put(q, 0) = 0 /\ Put(q, 1) = 1 /\ Put(q, 2) = 1 /\ Put(q, 3) = 2
    BY <1>5, <2>1 DEF Put
  <2>4. P[1] \in HandlerStep /\ P[2] \in HandlerStep
    BY <1>2, <2>1, ElementOfSeq
  <2>5. Steps(q) \in Seq(HandlerStep) /\ Len(Steps(q)) = 3
    BY <1>3, <2>2, <2>4
  <2>6. /\ Steps(q)[1] = [op |-> "put", out |-> R[1]]
        /\ Steps(q)[2].op = "send"
        /\ Steps(q)[3] = [op |-> "put", out |-> R[2]]
    BY <1>2, <1>3, <2>1, <2>2
  <2>7. \A k \in 0 .. 3 : k = 0 \/ k = 1 \/ k = 2 \/ k = 3
    OBVIOUS
  <2>8. \A k \in 0 .. 3 : Put(q, k) \in 0 .. L
    BY <2>1, <2>3, <2>7
  <2>9. ASSUME NEW k \in 1 .. 3
        PROVE  /\ Steps(q)[k].op = "put" =>
                    Put(q, k) = Put(q, k - 1) + 1 /\ Steps(q)[k].out = R[Put(q, k)]
               /\ Steps(q)[k].op # "put" => Put(q, k) = Put(q, k - 1)
               /\ Steps(q)[k].op = "send" <=> k = 2
               /\ Steps(q)[k].op \notin {"lock", "unlock"}
    <3>1. CASE k = 1
      BY <3>1, <2>3, <2>6
    <3>2. CASE k = 2
      BY <3>2, <2>3, <2>6
    <3>3. CASE k = 3
      BY <3>3, <2>3, <2>6
    <3> QED BY <3>1, <3>2, <3>3
  <2> QED BY <1>5, <2>1, <2>3, <2>5, <2>8, <2>9
<1>6. CASE q \in {"raw", "json"}
  <2>1. L = Rows + 1 /\ Rows \in Nat
    BY <1>6, LongResponse, HttpdAssumption
  <2> DEFINE front == <<Head(P), Step("lock")>>  back == Append(Tail(P), Step("unlock"))
  <2>2. Steps(q) = front \o back
    BY <1>6 DEF Steps, P
  <2>3. /\ Head(P) = P[1] /\ Head(P) \in HandlerStep
        /\ Tail(P) \in Seq(HandlerStep) /\ Len(Tail(P)) = Rows
        /\ \A i \in 1 .. Rows : Tail(P)[i] = P[i + 1]
    <3>1. P # << >>
      BY <1>2, <2>1
    <3> QED BY <3>1, <1>2, <2>1, HeadTailProperties
  <2>4. /\ back \in Seq(HandlerStep) /\ Len(back) = Rows + 1
        /\ \A i \in 1 .. Rows : back[i] = P[i + 1]
        /\ back[Rows + 1].op = "unlock"
    BY <1>3, <2>1, <2>3, AppendProperties
  <2>5. front \in Seq(HandlerStep) /\ Len(front) = 2 /\ front[1] = P[1] /\ front[2].op = "lock"
    BY <1>3, <2>3
  <2> HIDE DEF front, back
  <2>6. /\ Steps(q) \in Seq(HandlerStep) /\ Len(Steps(q)) = Rows + 3
        /\ \A k \in 1 .. Rows + 3 : Steps(q)[k] = IF k <= 2 THEN front[k] ELSE back[k - 2]
    <3>1. /\ front \o back \in Seq(HandlerStep)
          /\ Len(front \o back) = Len(front) + Len(back)
          /\ \A k \in 1 .. Len(front) + Len(back) :
               (front \o back)[k] = IF k <= Len(front) THEN front[k] ELSE back[k - Len(front)]
      BY <2>4, <2>5, ConcatProperties
    <3>2. Len(front) = 2 /\ Len(back) = Rows + 1 /\ Len(front) + Len(back) = Rows + 3
      BY <2>1, <2>4, <2>5
    <3> QED BY <2>2, <3>1, <3>2
  <2>7. \A k \in 0 .. Rows + 3 :
          Put(q, k) = IF k <= 1 THEN k ELSE IF k - 1 <= Rows + 1 THEN k - 1 ELSE Rows + 1
    BY <1>6, <2>1 DEF Put
  <2>8. ASSUME NEW k \in 1 .. Rows + 3
        PROVE  /\ Steps(q)[k].op = "put" =>
                    Put(q, k) = Put(q, k - 1) + 1 /\ Steps(q)[k].out = R[Put(q, k)]
               /\ Steps(q)[k].op # "put" => Put(q, k) = Put(q, k - 1)
               /\ Steps(q)[k].op # "send"
               /\ Steps(q)[k].op = "lock" <=> k = 2
               /\ Steps(q)[k].op = "unlock" <=> k = Rows + 3
    <3>1. CASE k = 1
      <4>1. Steps(q)[k] = [op |-> "put", out |-> R[1]]
        BY <3>1, <1>2, <2>1, <2>5, <2>6
      <4> QED BY <3>1, <4>1, <2>1, <2>7
    <3>2. CASE k = 2
      <4>1. Steps(q)[k].op = "lock"
        BY <3>2, <2>5, <2>6
      <4> QED BY <3>2, <4>1, <2>1, <2>7
    <3>3. CASE k \in 3 .. Rows + 2
      <4>1. k - 2 \in 1 .. Rows /\ k - 1 \in 1 .. L
        BY <3>3, <2>1
      <4>2. Steps(q)[k] = [op |-> "put", out |-> R[k - 1]]
        <5>1. ~(k <= 2) /\ k \in 1 .. Rows + 3 /\ (k - 2) + 1 = k - 1
          BY <3>3, <2>1
        <5>2. Steps(q)[k] = back[k - 2]
          BY <2>6, <5>1
        <5>3. back[k - 2] = P[k - 1]
          BY <2>4, <4>1, <5>1
        <5> QED BY <1>2, <4>1, <5>2, <5>3
      <4>3. Put(q, k) = k - 1 /\ Put(q, k - 1) = k - 2
        BY <3>3, <2>1, <2>7
      <4> QED BY <4>1, <4>2, <4>3, <2>1
    <3>4. CASE k = Rows + 3
      <4>1. Steps(q)[k].op = "unlock"
        BY <3>4, <2>1, <2>4, <2>6
      <4>2. Put(q, k) = Rows + 1 /\ Put(q, k - 1) = Rows + 1
        BY <3>4, <2>1, <2>7
      <4>3. k # 2
        BY <3>4, <2>1
      <4> QED BY <3>4, <4>1, <4>2, <4>3
    <3> QED BY <3>1, <3>2, <3>3, <3>4, <2>1
  <2>9. /\ Put(q, 0) = 0 /\ Put(q, Rows + 3) = Rows + 1
        /\ \A k \in 0 .. Rows + 3 : Put(q, k) \in 0 .. Rows + 1
    BY <2>1, <2>7
  <2> QED BY <1>6, <2>1, <2>6, <2>8, <2>9
<1> QED BY <1>4, <1>5, <1>6

\* What the step that is next does.
LEMMA StepMeaning ==
  ASSUME NEW q \in Kinds, NEW k \in Nat, k + 1 \in 1 .. Len(Steps(q))
  PROVE  /\ Steps(q)[k + 1].op = "put" =>
              Put(q, k + 1) = Put(q, k) + 1 /\ Steps(q)[k + 1].out = Response(q)[Put(q, k) + 1]
         /\ Steps(q)[k + 1].op # "put" => Put(q, k + 1) = Put(q, k)
         /\ Steps(q)[k + 1].op = "send" <=> q = "message" /\ k + 1 = 2
<1>1. (k + 1) - 1 = k
  OBVIOUS
<1> QED BY <1>1, StepsMeaning
-----------------------------------------------------------------------------
(* Who holds what: the steps.                                              *)

\* The connection of the thread is none of those that wait or are to come.
LEMMA OwnConnection ==
  ASSUME TypeInv, ConnectionInv
  PROVE  /\ pc # "accept" => nc \in Clients /\ server[nc] \in {"held", "closed"}
         /\ \A c \in Clients : server[c] \notin {"held", "closed"} => c # nc
<1>1. pc # "accept" => nc \in Clients /\ (pc \in HeldAt \/ pc \in ClosedAt)
  BY DEF TypeInv, ConnectionInv, HeldAt, ClosedAt
<1>2. pc # "accept" => nc \in Clients /\ server[nc] \in {"held", "closed"}
  BY <1>1 DEF ConnectionInv
<1>3. NoConn \notin Clients
  BY DEF NoConn, Clients
<1> QED BY <1>2, <1>3 DEF ConnectionInv

\* The mailbox is as it was, and nobody in it has been touched.
LEMMA BacklogKept ==
  ASSUME TypeInv, BacklogInv, tcp' = tcp \/ (\E c \in Clients : Die(c)), backlog' = backlog,
         \A c \in Clients : server[c] \in {"none", "waiting"} => server'[c] = server[c]
  PROVE  BacklogInv'
<1>1. \A i \in 1 .. Len(backlog) : backlog[i] \in Clients
  BY ElementOfSeq DEF TypeInv
<1>2. \A c \in Clients : tcp'[c] = "none" => tcp[c] = "none"
  BY DEF Die, TypeInv
<1> QED BY <1>1, <1>2 DEF BacklogInv

\* What the clients do leaves the thread's own connection and netbufs alone.
LEMMA NetworkHeld ==
  ASSUME TypeInv, HeldInv, Network
  PROVE  TypeInv' /\ HeldInv'
<1>0. UNCHANGED <<pc, nc, nb, todo, buf, queued, sent, netbuf>>
  BY DEF Network, Connect, Ask, Die, threadVars, sharedVars
<1>1. ASSUME NEW c \in Clients, Connect(c)
      PROVE  TypeInv' /\ HeldInv'
  <2>1. server[c] = "none" /\ c # nc /\ tcp[c] = "none" /\ asked' = asked
    BY <1>1, OwnConnection DEF Connect, HeldInv, BacklogInv
  <2>2. CASE Len(backlog) < AcceptSlots
    <3>1. /\ tcp' = [tcp EXCEPT ![c] = "est"] /\ server' = [server EXCEPT ![c] = "waiting"]
          /\ backlog' = Append(backlog, c)
      BY <1>1, <2>2 DEF Connect
    <3>2. /\ backlog' \in Seq(Clients) /\ Len(backlog') = Len(backlog) + 1
          /\ \A i \in 1 .. Len(backlog) : backlog'[i] = backlog[i] /\ backlog[i] \in Clients
          /\ backlog'[Len(backlog) + 1] = c /\ Len(backlog) \in Nat
      BY <3>1, AppendProperties, ElementOfSeq, LenProperties DEF TypeInv
    <3>3. TypeInv'
      BY <1>0, <2>1, <3>1, <3>2 DEF TypeInv
    <3>4. \A d \in Clients : /\ server'[d] = IF d = c THEN "waiting" ELSE server[d]
                             /\ tcp'[d] = IF d = c THEN "est" ELSE tcp[d]
      BY <3>1 DEF TypeInv
    <3>5. \A i \in 1 .. Len(backlog) : backlog[i] # c
      BY <2>1 DEF HeldInv, BacklogInv
    <3>6. BacklogInv'
      <4>1. \A d \in Clients : tcp'[d] = "none" => server'[d] = "none"
        BY <3>4 DEF HeldInv, BacklogInv
      <4>2. \A i \in 1 .. Len(backlog') : i \in 1 .. Len(backlog) \/ i = Len(backlog) + 1
        BY <3>2
      <4>3. \A i \in 1 .. Len(backlog) : server'[backlog'[i]] = "waiting"
        BY <3>2, <3>4, <3>5 DEF HeldInv, BacklogInv
      <4>4. server'[backlog'[Len(backlog) + 1]] = "waiting"
        BY <3>2, <3>4
      <4>5. ASSUME NEW i \in 1 .. Len(backlog'), NEW j \in 1 .. Len(backlog'),
                   backlog'[i] = backlog'[j]
            PROVE  i = j
        <5>1. CASE i \in 1 .. Len(backlog) /\ j \in 1 .. Len(backlog)
          BY <3>2, <4>5, <5>1 DEF HeldInv, BacklogInv
        <5>2. CASE i = Len(backlog) + 1 \/ j = Len(backlog) + 1
          BY <3>2, <3>5, <4>2, <4>5, <5>2
        <5> QED BY <4>2, <5>1, <5>2
      <4> QED BY <4>1, <4>2, <4>3, <4>4, <4>5, Zenon DEF BacklogInv
    <3>7. ConnectionInv' /\ NetbufInv'
      BY <1>0, <2>1, <3>4 DEF HeldInv, ConnectionInv, NetbufInv, HeldAt, ClosedAt
    <3> QED BY <3>3, <3>6, <3>7 DEF HeldInv
  <2>3. CASE ~(Len(backlog) < AcceptSlots)
    <3>1. tcp' = [tcp EXCEPT ![c] = "dead"] /\ server' = server /\ backlog' = backlog
      BY <1>1, <2>3 DEF Connect
    <3>2. TypeInv'
      BY <1>0, <2>1, <3>1 DEF TypeInv
    <3>3. \A d \in Clients : tcp'[d] = "none" => tcp[d] = "none"
      BY <3>1 DEF TypeInv
    <3>4. BacklogInv'
      BY <3>1, <3>3 DEF HeldInv, BacklogInv
    <3>5. ConnectionInv' /\ NetbufInv'
      BY <1>0, <3>1 DEF HeldInv, ConnectionInv, NetbufInv
    <3> QED BY <3>2, <3>4, <3>5 DEF HeldInv
  <2> QED BY <2>2, <2>3
<1>2. ASSUME NEW c \in Clients, Ask(c) \/ Die(c)
      PROVE  TypeInv' /\ HeldInv'
  <2>1. /\ backlog' = backlog /\ server' = server
        /\ tcp' = tcp \/ Die(c)
    BY <1>2 DEF Ask, Die
  <2>2. tcp' \in [Clients -> {"none", "est", "dead"}] /\ asked' \in [Clients -> Questions]
    BY <1>2 DEF Ask, Die, TypeInv, Questions
  <2>3. TypeInv'
    BY <1>0, <2>1, <2>2 DEF TypeInv
  <2>4. BacklogInv'
    BY <2>1, BacklogKept DEF HeldInv
  <2>5. ConnectionInv' /\ NetbufInv'
    BY <1>0, <2>1 DEF HeldInv, ConnectionInv, NetbufInv
  <2> QED BY <2>3, <2>4, <2>5 DEF HeldInv
<1> QED BY <1>1, <1>2 DEF Network

\* The thread takes the oldest connection and no other.
LEMMA AcceptHeld ==
  ASSUME TypeInv, HeldInv, Accept
  PROVE  TypeInv' /\ HeldInv'
<1> DEFINE c == Head(backlog)
<1>1. /\ c \in Clients /\ c = backlog[1]
      /\ Tail(backlog) \in Seq(Clients) /\ Len(Tail(backlog)) = Len(backlog) - 1
      /\ \A i \in 1 .. Len(Tail(backlog)) : Tail(backlog)[i] = backlog[i + 1]
      /\ Len(backlog) \in Nat \ {0}
  BY HeadTailProperties, LenProperties, EmptySeq DEF Accept, TypeInv
<1>2. /\ pc = "accept" /\ pc' = "recv" /\ nc' = c /\ backlog' = Tail(backlog)
      /\ server' = [server EXCEPT ![c] = "held"]
      /\ UNCHANGED <<tcp, asked, sent, netbuf, nb, todo, buf, data_mutex, txMb, queued>>
  BY DEF Accept, clientVars, sharedVars
<1> HIDE DEF c
<1>3. server[c] = "waiting" /\ \A i \in 1 .. Len(Tail(backlog)) : Tail(backlog)[i] # c
  BY <1>1 DEF HeldInv, BacklogInv
<1>4. TypeInv'
  BY <1>1, <1>2 DEF TypeInv
<1>5. BacklogInv'
  <2>1. \A d \in Clients : tcp'[d] = "none" => server'[d] = "none"
    BY <1>2, <1>3 DEF TypeInv, HeldInv, BacklogInv
  <2>2. \A i \in 1 .. Len(backlog') : i + 1 \in 1 .. Len(backlog)
    BY <1>1, <1>2
  <2>3. \A i \in 1 .. Len(backlog') : server'[backlog'[i]] = "waiting"
    BY <1>1, <1>2, <1>3, <2>2 DEF TypeInv, HeldInv, BacklogInv
  <2>4. \A i, j \in 1 .. Len(backlog') : backlog'[i] = backlog'[j] => i = j
    BY <1>1, <1>2, <2>2 DEF HeldInv, BacklogInv
  <2> QED BY <2>1, <2>3, <2>4 DEF BacklogInv
<1>6. ConnectionInv' /\ NetbufInv'
  BY <1>1, <1>2, <1>3 DEF TypeInv, HeldInv, ConnectionInv, NetbufInv, HeldAt, ClosedAt, Clients, NoConn
<1> QED BY <1>4, <1>5, <1>6 DEF HeldInv

\* The steps of the handler do not touch what is held.
LEMMA HandlerHeld ==
  ASSUME TypeInv, HeldInv, NetPut \/ NetFlush \/ DataLock \/ DataUnlock \/ NrfSend
  PROVE  TypeInv' /\ HeldInv'
<1>1. UNCHANGED <<tcp, asked, backlog, server, netbuf, nc, nb>>
  BY DEF NetPut, NetFlush, DataLock, DataUnlock, NrfSend, netVars, clientVars
<1>2. pc \in {"handle", "write"} /\ pc' \in {"handle", "write"}
  BY DEF NetPut, NetFlush, DataLock, DataUnlock, NrfSend, At
<1>3. HeldInv'
  <2>1. BacklogInv'
    BY <1>1, BacklogKept DEF HeldInv
  <2>2. ConnectionInv' /\ NetbufInv'
    BY <1>1, <1>2 DEF HeldInv, ConnectionInv, NetbufInv, HeldAt, ClosedAt
  <2> QED BY <2>1, <2>2 DEF HeldInv
<1>4. todo # << >> => /\ Head(todo) \in HandlerStep /\ Head(todo).out \in Piece
                      /\ Tail(todo) \in Seq(HandlerStep)
  <2>1. todo # << >> => Head(todo) \in HandlerStep /\ Tail(todo) \in Seq(HandlerStep)
    BY HeadTailProperties DEF TypeInv
  <2> QED BY <2>1 DEF HandlerStep
<1>5. todo' \in Seq(HandlerStep)
  BY <1>4 DEF NetPut, NetFlush, DataLock, DataUnlock, NrfSend, At, TypeInv
<1>6. buf' \in Seq(Piece)
  <2>1. CASE NetPut
    <3>1. buf' = Append(buf, Head(todo).out) /\ Head(todo).out \in Piece /\ buf \in Seq(Piece)
      BY <1>4, <2>1 DEF NetPut, At, TypeInv
    <3> QED BY <3>1, AppendProperties
  <2>2. CASE NetFlush
    BY <2>2 DEF NetFlush
  <2> QED BY <2>1, <2>2 DEF DataLock, DataUnlock, NrfSend, TypeInv
<1>7. queued' \in [Clients -> Nat]
  <2>1. CASE NrfSend
    <3>1. nc \in Clients
      BY <1>2, OwnConnection DEF HeldInv
    <3>2. queued' = [queued EXCEPT ![nc] = queued[nc] + 1] /\ queued[nc] + 1 \in Nat
      BY <2>1, <3>1 DEF NrfSend, TypeInv
    <3> QED BY <3>1, <3>2 DEF TypeInv
  <2> QED BY <2>1 DEF NetPut, NetFlush, DataLock, DataUnlock, TypeInv, sharedVars
<1>8. sent' \in [Clients -> Seq(Piece)]
  <2>1. CASE NetFlush
    <3>1. nc \in Clients
      BY <1>2, OwnConnection DEF HeldInv
    <3>2. sent[nc] \o buf \in Seq(Piece)
      BY <3>1, ConcatProperties DEF TypeInv
    <3> QED BY <2>1, <3>1, <3>2 DEF NetFlush, Write, TypeInv
  <2> QED BY <2>1 DEF NetPut, DataLock, DataUnlock, NrfSend, TypeInv, netVars
<1> QED BY <1>1, <1>2, <1>3, <1>5, <1>6, <1>7, <1>8 DEF TypeInv

\* The other steps of the thread.
OtherSteps ==
  Recv \/ RecvFails \/ ParseFails \/ Dispatch \/ HandlerDone \/ Finalize \/ Close
    \/ BailFree \/ Delete

LEMMA ThreadType ==
  ASSUME TypeInv, HeldInv, OtherSteps
  PROVE  TypeInv' /\ BacklogInv'
<1>1. UNCHANGED <<tcp, asked, backlog, queued>>
  BY DEF OtherSteps, Recv, RecvFails, ParseFails, Dispatch, HandlerDone, Finalize, Close,
     BailFree, Delete, netVars, clientVars, sharedVars
<1>2. nc \in Clients /\ server[nc] \in {"held", "closed"}
  BY OwnConnection DEF OtherSteps, Recv, RecvFails, ParseFails, Dispatch, HandlerDone,
     Finalize, Close, BailFree, Delete, HeldInv
<1>3. \/ server' = server
      \/ Close /\ pc \in HeldAt /\ server' = [server EXCEPT ![nc] = "closed"]
      \/ Delete /\ pc \in ClosedAt /\ server' = [server EXCEPT ![nc] = "deleted"]
  <2>1. CASE Close
    <3>1. pc \in HeldAt /\ server[nc] = "held"
      BY <1>2, <2>1 DEF Close, HeldAt, HeldInv, ConnectionInv
    <3> QED BY <2>1, <3>1 DEF Close, CloseConn
  <2>2. CASE Delete
    <3>1. pc \in ClosedAt /\ server[nc] = "closed"
      BY <1>2, <2>2 DEF Delete, ClosedAt, HeldInv, ConnectionInv
    <3> QED BY <2>2, <3>1 DEF Delete, DeleteConn
  <2> QED BY <2>1, <2>2 DEF OtherSteps, Recv, RecvFails, ParseFails, Dispatch, HandlerDone,
     Finalize, BailFree, netVars
<1>4. server' \in [Clients -> {"none", "waiting", "held", "closed", "deleted"}]
  BY <1>3 DEF TypeInv
<1>5. BacklogInv'
  <2>1. \A c \in Clients : server[c] \in {"none", "waiting"} => server'[c] = server[c]
    BY <1>2, <1>3 DEF TypeInv
  <2> QED BY <1>1, <2>1, BacklogKept DEF HeldInv
<1>6. netbuf' \in [Clients -> {"none", "held", "freed"}]
  <2>1. CASE Recv
    BY <2>1 DEF Recv, TypeInv
  <2>2. CASE HandlerDone \/ BailFree
    <3>1. nb # NoConn => nb \in Clients /\ netbuf[nb] = "held"
      BY DEF TypeInv, HeldInv, NetbufInv
    <3>2. netbuf' = netbuf \/ (nb \in Clients /\ netbuf' = [netbuf EXCEPT ![nb] = "freed"])
      BY <2>2, <3>1 DEF HandlerDone, BailFree, FreeNetbuf
    <3> QED BY <3>2 DEF TypeInv
  <2> QED BY <2>1, <2>2 DEF OtherSteps, RecvFails, ParseFails, Dispatch, Finalize, Close,
     Delete, netVars, TypeInv
<1>7. todo' \in Seq(HandlerStep) /\ buf' \in Seq(Piece)
  <2>1. CASE Dispatch
    <3>1. asked[nc] \in Kinds \union {"nothing"}
      BY <1>2, HttpdAssumption DEF TypeInv, Questions
    <3>2. Steps(asked[nc]) \in Seq(HandlerStep) /\ << >> \in Seq(Piece)
      BY <3>1, StepsMeaning, EmptySeq
    <3> QED BY <2>1, <3>2 DEF Dispatch, StreamReset
  <2> QED BY <2>1 DEF OtherSteps, Recv, RecvFails, ParseFails, HandlerDone, Finalize, Close,
     BailFree, Delete, TypeInv
<1>8. sent' \in [Clients -> Seq(Piece)]
  <2>1. CASE Finalize
    <3>1. sent[nc] \o buf \in Seq(Piece)
      BY <1>2, ConcatProperties DEF TypeInv
    <3> QED BY <2>1, <1>2, <3>1 DEF Finalize, Write, TypeInv
  <2> QED BY <2>1 DEF OtherSteps, Recv, RecvFails, ParseFails, Dispatch, HandlerDone, Close,
     BailFree, Delete, TypeInv, netVars
<1>9. /\ nc' \in Clients \union {NoConn} /\ nb' \in Clients \union {NoConn}
      /\ pc' \in {"accept", "recv", "parse", "handle", "write", "finalize", "close", "delete",
                  "bailClose", "bailFree"}
  BY DEF OtherSteps, Recv, RecvFails, ParseFails, Dispatch, HandlerDone, Finalize, Close,
     BailFree, Delete, TypeInv
<1> QED BY <1>1, <1>4, <1>5, <1>6, <1>7, <1>8, <1>9 DEF TypeInv

\* Each gives back what it must, once.
LEMMA ThreadHeld ==
  ASSUME TypeInv, HeldInv, OtherSteps
  PROVE  ConnectionInv' /\ NetbufInv'
<1> USE DEF HeldAt, ClosedAt, netVars
<1>1. /\ pc # "accept" /\ nc \in Clients /\ nc # NoConn
      /\ server \in [Clients -> {"none", "waiting", "held", "closed", "deleted"}]
      /\ netbuf \in [Clients -> {"none", "held", "freed"}]
      /\ nb \in Clients \union {NoConn} /\ NoConn \notin Clients
      /\ ConnectionInv /\ NetbufInv
  <2>1. pc # "accept"
    BY DEF OtherSteps, Recv, RecvFails, ParseFails, Dispatch, HandlerDone, Finalize, Close,
       BailFree, Delete
  <2>2. NoConn \notin Clients
    BY DEF NoConn, Clients
  <2> QED BY <2>1, <2>2, OwnConnection DEF TypeInv, HeldInv
<1>2. CASE Recv
  BY <1>1, <1>2 DEF Recv, ConnectionInv, NetbufInv
<1>3. CASE RecvFails
  BY <1>1, <1>3 DEF RecvFails, ConnectionInv, NetbufInv
<1>4. CASE ParseFails
  BY <1>1, <1>4 DEF ParseFails, ConnectionInv, NetbufInv
<1>5. CASE Dispatch
  BY <1>1, <1>5 DEF Dispatch, ConnectionInv, NetbufInv
<1>6. CASE HandlerDone
  BY <1>1, <1>6 DEF HandlerDone, FreeNetbuf, ConnectionInv, NetbufInv
<1>7. CASE Finalize
  BY <1>1, <1>7 DEF Finalize, ConnectionInv, NetbufInv
<1>8. CASE Close
  BY <1>1, <1>8 DEF Close, CloseConn, ConnectionInv, NetbufInv
<1>9. CASE BailFree
  BY <1>1, <1>9 DEF BailFree, FreeNetbuf, ConnectionInv, NetbufInv
<1>10. CASE Delete
  BY <1>1, <1>10 DEF Delete, DeleteConn, ConnectionInv, NetbufInv
<1> QED BY <1>2, <1>3, <1>4, <1>5, <1>6, <1>7, <1>8, <1>9, <1>10 DEF OtherSteps

LEMMA HeldStep == TypeInv /\ HeldInv /\ [Next]_httpVars => TypeInv' /\ HeldInv'
<1> SUFFICES ASSUME TypeInv, HeldInv, [Next]_httpVars PROVE TypeInv' /\ HeldInv'
  OBVIOUS
<1>1. CASE RadioTake \/ OthersLock \/ UNCHANGED httpVars
  <2>1. UNCHANGED <<netVars, threadVars, queued>>
    BY <1>1 DEF RadioTake, OthersLock, httpVars, sharedVars
  <2>2. TypeInv'
    BY <2>1 DEF TypeInv, netVars, clientVars, threadVars
  <2>3. BacklogInv'
    BY <2>1 DEF HeldInv, BacklogInv, netVars, clientVars
  <2>4. ConnectionInv' /\ NetbufInv'
    BY <2>1 DEF HeldInv, ConnectionInv, NetbufInv, netVars, clientVars, threadVars
  <2> QED BY <2>2, <2>3, <2>4 DEF HeldInv
<1>2. CASE OtherSteps
  BY <1>2, ThreadType, ThreadHeld DEF HeldInv
<1> QED BY <1>1, <1>2, NetworkHeld, AcceptHeld, HandlerHeld DEF Next, HttpdThread, OtherSteps
-----------------------------------------------------------------------------
(* What a client has been given: the steps.                                *)

\* What a client has asked has an answer, and a handler that puts it.
LEMMA AskedMeaning ==
  ASSUME TypeInv, NEW c \in Clients
  PROVE  asked[c] \in Kinds \union {"nothing"}
BY HttpdAssumption DEF TypeInv, Questions

\* A client that nothing happens to stays at its stage, and so does one whose
\* connection is lost.
LEMMA StageKept ==
  ASSUME NEW c \in Clients, Stage(c),
         server'[c] = server[c], asked'[c] = asked[c],
         sent'[c] = sent[c], queued'[c] = queued[c], tcp'[c] = "est" => tcp[c] = "est",
         server[c] = "held" => UNCHANGED <<pc, todo, buf>>
  PROVE  Stage(c)'
<1>1. CASE server[c] = "held"
  <2>1. Fresh(c) => Fresh(c)'
    BY DEF Fresh
  <2>2. ASSUME NEW k, NEW m, Progress(c, k, m)
        PROVE  Progress(c, k, m)'
    BY <1>1, <2>2 DEF Progress
  <2>3. Working(c) => Working(c)'
    BY <1>1, <2>2 DEF Working
  <2>4. Over(c) => Over(c)'
    BY DEF Over, Told
  <2> QED BY <1>1, <2>1, <2>3, <2>4 DEF Stage
<1>2. CASE server[c] # "held"
  BY <1>2 DEF Stage, Fresh, Over, Told
<1> QED BY <1>1, <1>2

\* No step of the thread touches another client.
LEMMA OthersKept ==
  ASSUME TypeInv, HeldInv, AnswerInv, HttpdThread, NEW c \in Clients, c # nc, c # nc'
  PROVE  Stage(c)'
<1>1. tcp'[c] = tcp[c] /\ asked'[c] = asked[c]
  BY DEF HttpdThread, Accept, Recv, RecvFails, ParseFails, Dispatch, NetPut, NetFlush,
     DataLock, DataUnlock, NrfSend, HandlerDone, Finalize, Close, BailFree, Delete,
     netVars, clientVars
<1>2. server'[c] = server[c]
  BY DEF HttpdThread, Accept, Recv, RecvFails, ParseFails, Dispatch, NetPut, NetFlush,
     DataLock, DataUnlock, NrfSend, HandlerDone, Finalize, Close, BailFree, Delete,
     netVars, CloseConn, DeleteConn, TypeInv
<1>3. sent'[c] = sent[c]
  BY DEF HttpdThread, Accept, Recv, RecvFails, ParseFails, Dispatch, NetPut, NetFlush,
     DataLock, DataUnlock, NrfSend, HandlerDone, Finalize, Close, BailFree, Delete,
     netVars, Write, TypeInv
<1>4. queued'[c] = queued[c]
  BY DEF HttpdThread, Accept, Recv, RecvFails, ParseFails, Dispatch, NetPut, NetFlush,
     DataLock, DataUnlock, NrfSend, HandlerDone, Finalize, Close, BailFree, Delete,
     sharedVars, TypeInv
<1>5. server[c] # "held"
  BY DEF HeldInv, ConnectionInv
<1> QED BY <1>1, <1>2, <1>3, <1>4, <1>5, StageKept DEF AnswerInv

LEMMA NetworkStage ==
  ASSUME TypeInv, HeldInv, AnswerInv, Network, NEW c \in Clients
  PROVE  Stage(c)'
<1>1. UNCHANGED <<pc, nc, nb, todo, buf, queued, sent>>
  BY DEF Network, Connect, Ask, Die, threadVars, sharedVars
<1>2. PICK d \in Clients : Connect(d) \/ Ask(d) \/ Die(d)
  BY DEF Network
<1>3. Stage(c)
  BY DEF AnswerInv
<1>4. CASE c # d
  BY <1>1, <1>2, <1>3, <1>4, StageKept DEF Connect, Ask, Die, TypeInv
<1>5. CASE c = d /\ Connect(c)
  <2>1. server[c] = "none" /\ server'[c] \in {"none", "waiting"}
    BY <1>5 DEF Connect, TypeInv, HeldInv, BacklogInv
  <2> QED BY <1>1, <1>3, <2>1 DEF Stage, Fresh
<1>6. CASE c = d /\ Die(c)
  BY <1>1, <1>3, <1>6, StageKept DEF Die, TypeInv
<1>7. CASE c = d /\ Ask(c)
  <2>1. /\ tcp[c] = "est" /\ asked[c] = "nothing" /\ asked'[c] # "nothing"
        /\ UNCHANGED <<tcp, server>>
    <3>1. "nothing" \notin Requests
      BY HttpdAssumption DEF Kinds
    <3> QED BY <1>7, <3>1 DEF Ask, TypeInv
  <2>2. /\ Fresh(c)
        /\ server[c] \in {"none", "waiting"} \/ (server[c] = "held" /\ pc = "recv")
    BY <1>3, <2>1 DEF Stage, Working, Over
  <2> QED BY <1>1, <2>1, <2>2 DEF Stage, Fresh
<1> QED BY <1>2, <1>4, <1>5, <1>6, <1>7

\* A client that has been given nothing has been told nothing, and one that
\* is being answered nothing wrong.
LEMMA FreshTold ==
  ASSUME TypeInv, NEW c \in Clients, Fresh(c)
  PROVE  Told(c)
<1>1. Len(Response(asked[c])) \in Nat
  BY AskedMeaning, ResponseMeaning
<1>2. sent[c] = SubSeq(Response(asked[c]), 1, 0)
  BY SubSeqEmpty DEF Fresh
<1>3. Range(sent[c]) = {}
  BY DEF Fresh, Range
<1> QED BY <1>1, <1>2, <1>3 DEF Told, Fresh

LEMMA PrefixMeaning ==
  ASSUME NEW q \in Kinds \union {"nothing"}, NEW n \in 0 .. Len(Response(q))
  PROVE  LET s == SubSeq(Response(q), 1, n) IN
         /\ s \in Seq(Piece) /\ Len(s) = n
         /\ Ok \in Range(s) => q = "message" /\ n >= 2
         /\ Err \in Range(s) => q = "badmessage"
<1> DEFINE R == Response(q)  s == SubSeq(R, 1, n)
<1>1. /\ R \in Seq(Piece) /\ Len(R) \in Nat
      /\ \A i \in 1 .. Len(R) : /\ R[i] = Ok => q = "message" /\ i = 2
                                /\ R[i] = Err => q = "badmessage" /\ i = 2
  BY ResponseMeaning
<1>2. \A i \in 1 .. n : R[i] \in Piece
  BY <1>1, ElementOfSeq
<1>3. s \in Seq(Piece) /\ Len(s) = n /\ \A i \in 1 .. n : s[i] = R[i]
  BY <1>1, <1>2, SubSeqProperties
<1>4. Range(s) = {s[i] : i \in 1 .. n}
  BY <1>3, RangeEquality
<1> QED BY <1>1, <1>3, <1>4

LEMMA WorkingTold ==
  ASSUME TypeInv, NEW c \in Clients, Working(c)
  PROVE  Told(c)
<1> DEFINE q == asked[c]
<1>1. q \in Kinds \union {"nothing"} /\ Len(Response(q)) \in Nat
  BY AskedMeaning, ResponseMeaning
<1>2. PICK k \in 0 .. Len(Steps(q)), m \in 0 .. Len(Response(q)) : Progress(c, k, m)
  BY DEF Working
<1>3. /\ Ok \in Range(sent[c]) => q = "message" /\ m >= 2
      /\ Err \in Range(sent[c]) => q = "badmessage"
  BY <1>1, <1>2, PrefixMeaning DEF Progress
<1>4. m >= 2 => k >= 2
  <2>1. Len(buf) \in Nat /\ m + Len(buf) <= Put(q, k) /\ k \in Nat
    BY <1>1, <1>2, StepsMeaning, LenProperties DEF Progress, TypeInv
  <2> QED BY <1>1, <2>1 DEF Put
<1> QED BY <1>2, <1>3, <1>4 DEF Told, Progress

\* The next step of a handler, and the steps that remain after it.
LEMMA NextStep ==
  ASSUME NEW s \in Seq(HandlerStep), NEW k \in 0 .. Len(s), SubSeq(s, k + 1, Len(s)) # << >>
  PROVE  /\ k + 1 \in 1 .. Len(s)
         /\ Head(SubSeq(s, k + 1, Len(s))) = s[k + 1]
         /\ Tail(SubSeq(s, k + 1, Len(s))) = SubSeq(s, k + 2, Len(s))
<1>1. Len(s) \in Nat
  BY LenProperties
<1>2. k < Len(s)
  BY <1>1, SubSeqEmpty
<1>3. k + 1 \in 1 .. Len(s) /\ Len(s) \in k + 1 .. Len(s) /\ (k + 1) + 1 = k + 2
  BY <1>1, <1>2
<1> QED BY <1>3, HeadTailOfSubSeq

\* What is in the buffer, and one piece more.
LEMMA PutOneMore ==
  ASSUME NEW R \in Seq(Piece), NEW p \in Nat, NEW n \in 0 .. p, p + 1 <= Len(R)
  PROVE  Append(SubSeq(R, p - n + 1, p), R[p + 1]) = SubSeq(R, p - n + 1, p + 1)
<1>1. Len(R) \in Nat /\ p + 1 \in 1 .. Len(R) /\ p - n + 1 \in 1 .. Len(R)
  BY LenProperties
<1>2. /\ p - n + 1 \in 1 .. Len(R) /\ p + 1 \in p - n + 1 .. Len(R) /\ (p + 1) - 1 = p
  BY <1>1
<1>3. SubSeq(R, p - n + 1, p + 1) = SubSeq(R, p - n + 1, p) \o <<R[p + 1]>>
  BY <1>2, SubSeqRecursiveSecond
<1>4. \A i \in p - n + 1 .. p : R[i] \in Piece
  BY <1>1, ElementOfSeq
<1>5. SubSeq(R, p - n + 1, p) \in Seq(Piece) /\ R[p + 1] \in Piece
  BY <1>1, <1>4, SubSeqProperties, ElementOfSeq
<1> QED BY <1>3, <1>5, AppendIsConcat

\* The handler takes a step of this kind, the next one.
LEMMA StepTaken ==
  ASSUME TypeInv, HeldInv, AnswerInv, NEW o \in {"put", "lock", "unlock", "send"}, At(o)
  PROVE  /\ nc \in Clients /\ server[nc] = "held" /\ asked[nc] # "nothing"
         /\ LET q == asked[nc] IN
            /\ q \in Kinds
            /\ \E k \in 0 .. Len(Steps(q)) - 1, m \in 0 .. Len(Response(q)) :
                 /\ Progress(nc, k, m) /\ k + 1 \in 1 .. Len(Steps(q))
                 /\ Steps(q)[k + 1].op = o /\ Steps(q)[k + 1] = Head(todo)
                 /\ Tail(todo) = SubSeq(Steps(q), k + 2, Len(Steps(q)))
<1> DEFINE q == asked[nc]
<1>1. pc = "handle" /\ todo # << >> /\ Head(todo).op = o
  BY DEF At
<1>2. nc \in Clients /\ server[nc] = "held"
  BY <1>1, OwnConnection DEF HeldInv, ConnectionInv, HeldAt
<1>3. Working(nc)
  BY <1>1, <1>2 DEF AnswerInv, Stage
<1>4. q \in Kinds
  BY <1>2, <1>3, AskedMeaning DEF Working
<1>5. PICK k \in 0 .. Len(Steps(q)), m \in 0 .. Len(Response(q)) : Progress(nc, k, m)
  BY <1>3 DEF Working
<1>6. Steps(q) \in Seq(HandlerStep) /\ Len(Steps(q)) \in Nat
  BY <1>4, StepsMeaning, LenProperties
<1>7. todo = SubSeq(Steps(q), k + 1, Len(Steps(q)))
  BY <1>5 DEF Progress
<1>8. /\ k + 1 \in 1 .. Len(Steps(q)) /\ Head(todo) = Steps(q)[k + 1]
      /\ Tail(todo) = SubSeq(Steps(q), k + 2, Len(Steps(q)))
  BY <1>1, <1>6, <1>7, NextStep
<1>9. k \in 0 .. Len(Steps(q)) - 1
  BY <1>6, <1>8
<1> QED BY <1>1, <1>2, <1>3, <1>4, <1>5, <1>8, <1>9 DEF Working

\* Taking and giving back the lock of the table, and queueing the message,
\* put nothing.
LEMMA SilentStage ==
  ASSUME TypeInv, HeldInv, AnswerInv, DataLock \/ DataUnlock \/ NrfSend
  PROVE  Stage(nc)'
<1> DEFINE q == asked[nc]
<1>1. PICK o \in {"lock", "unlock", "send"} : At(o) /\ (o = "send" <=> NrfSend)
  BY DEF DataLock, DataUnlock, NrfSend, At
<1>2. /\ pc = "handle" /\ todo' = Tail(todo)
      /\ UNCHANGED <<tcp, asked, server, sent, pc, nc, buf>>
  BY DEF DataLock, DataUnlock, NrfSend, At, netVars, clientVars
<1>3. /\ nc \in Clients /\ server[nc] = "held" /\ q # "nothing" /\ q \in Kinds
  BY <1>1, StepTaken
<1>4. PICK k \in 0 .. Len(Steps(q)) - 1, m \in 0 .. Len(Response(q)) :
        /\ Progress(nc, k, m) /\ k + 1 \in 1 .. Len(Steps(q))
        /\ Steps(q)[k + 1].op = o
        /\ Tail(todo) = SubSeq(Steps(q), k + 2, Len(Steps(q)))
  BY <1>1, StepTaken
<1>5. k \in Nat /\ k + 1 \in 0 .. Len(Steps(q)) /\ (k + 1) + 1 = k + 2 /\ (k + 1) - 1 = k
  BY <1>4
<1>6. /\ Put(q, k + 1) = Put(q, k)
      /\ o = "send" <=> q = "message" /\ k + 1 = 2
  BY <1>3, <1>4, <1>5, StepMeaning
<1>7. queued'[nc] = IF q = "message" /\ k + 1 >= 2 THEN 1 ELSE 0
  <2>1. queued[nc] = IF q = "message" /\ k >= 2 THEN 1 ELSE 0
    BY <1>4 DEF Progress
  <2>2. CASE NrfSend
    <3>1. queued'[nc] = queued[nc] + 1
      BY <2>2, <1>3 DEF NrfSend, TypeInv
    <3> QED BY <2>1, <2>2, <3>1, <1>1, <1>5, <1>6
  <2>3. CASE ~NrfSend
    <3>1. queued' = queued
      BY <2>3 DEF DataLock, DataUnlock
    <3> QED BY <2>1, <2>3, <3>1, <1>1, <1>5, <1>6
  <2> QED BY <2>2, <2>3
<1>8. Progress(nc, k + 1, m)'
  BY <1>2, <1>4, <1>5, <1>6, <1>7 DEF Progress
<1>9. Working(nc)'
  BY <1>2, <1>3, <1>4, <1>5, <1>8 DEF Working
<1> QED BY <1>2, <1>3, <1>9 DEF Stage

\* A piece is put into the buffer ...
LEMMA PutStage ==
  ASSUME TypeInv, HeldInv, AnswerInv, NetPut
  PROVE  Stage(nc)'
<1> DEFINE q == asked[nc]  R == Response(q)
<1>1. /\ At("put") /\ pc' \in {"handle", "write"} /\ todo' = Tail(todo)
      /\ buf' = Append(buf, Head(todo).out)
      /\ UNCHANGED <<tcp, asked, server, sent, nc, queued>>
  BY DEF NetPut, netVars, clientVars, sharedVars
<1>2. /\ nc \in Clients /\ server[nc] = "held" /\ q # "nothing" /\ q \in Kinds
  BY <1>1, StepTaken
<1>3. PICK k \in 0 .. Len(Steps(q)) - 1, m \in 0 .. Len(Response(q)) :
        /\ Progress(nc, k, m) /\ k + 1 \in 1 .. Len(Steps(q))
        /\ Steps(q)[k + 1].op = "put" /\ Steps(q)[k + 1] = Head(todo)
        /\ Tail(todo) = SubSeq(Steps(q), k + 2, Len(Steps(q)))
  BY <1>1, StepTaken
<1> DEFINE p == Put(q, k)  n == Len(buf)
<1>4. k \in Nat /\ k + 1 \in 0 .. Len(Steps(q)) /\ (k + 1) + 1 = k + 2 /\ (k + 1) - 1 = k
  BY <1>3
<1>5. Put(q, k + 1) = p + 1 /\ Head(todo).out = R[p + 1]
  <2>1. q \in Kinds /\ k \in Nat /\ k + 1 \in 1 .. Len(Steps(q)) /\ Steps(q)[k + 1].op = "put"
    BY <1>2, <1>3, <1>4
  <2>2. Put(q, k + 1) = Put(q, k) + 1 /\ Steps(q)[k + 1].out = R[Put(q, k) + 1]
    BY <2>1, StepMeaning
  <2> QED BY <1>3, <2>2, Zenon
<1>6. /\ R \in Seq(Piece) /\ Len(R) \in Nat /\ p \in Nat /\ m \in Nat
      /\ p + 1 \in 0 .. Len(R) /\ n \in Nat
  <2>1. R \in Seq(Piece) /\ Len(R) \in Nat /\ \A j \in 0 .. Len(Steps(q)) : Put(q, j) \in 0 .. Len(R)
    BY <1>2, ResponseMeaning, StepsMeaning
  <2>2. k \in 0 .. Len(Steps(q)) /\ p \in 0 .. Len(R) /\ Put(q, k + 1) \in 0 .. Len(R)
    BY <1>3, <1>4, <2>1
  <2>3. n \in Nat
    BY LenProperties DEF TypeInv
  <2> QED BY <1>5, <2>1, <2>2, <2>3
<1>7. n \in 0 .. p /\ p + 1 <= Len(R)
  BY <1>3, <1>6 DEF Progress
<1>8. buf' = SubSeq(R, p - n + 1, p + 1)
  BY <1>1, <1>3, <1>5, <1>6, <1>7, PutOneMore DEF Progress
<1>9. Len(buf') = n + 1
  <2>1. buf \in Seq(Piece) /\ R[p + 1] \in Piece
    BY <1>6, <1>7, ElementOfSeq DEF TypeInv
  <2> QED BY <1>1, <1>5, <2>1, AppendProperties
<1>10. (p + 1) - (n + 1) + 1 = p - n + 1 /\ m + (n + 1) = (m + n) + 1
  BY <1>6
<1>11. queued[nc] = IF q = "message" /\ k + 1 >= 2 THEN 1 ELSE 0
  <2>1. ~(q = "message" /\ k + 1 = 2)
    BY <1>2, <1>3, <1>4, StepMeaning
  <2>2. queued[nc] = IF q = "message" /\ k >= 2 THEN 1 ELSE 0
    BY <1>3 DEF Progress
  <2> QED BY <2>1, <2>2, <1>4
<1>12. Progress(nc, k + 1, m)'
  <2>1. m + n <= p /\ (tcp[nc] = "est" => m + n = p)
    BY <1>3 DEF Progress
  <2>2. m + Len(buf') <= p + 1 /\ (tcp[nc] = "est" => m + Len(buf') = p + 1)
    <3>1. m + (n + 1) <= p + 1 /\ (tcp[nc] = "est" => m + (n + 1) = p + 1)
      BY <2>1, <1>6
    <3> QED BY <3>1, <1>9
  <2>3. buf' = SubSeq(R, (p + 1) - Len(buf') + 1, p + 1)
    BY <1>8, <1>9, <1>10
  <2> QED BY <1>1, <1>3, <1>4, <1>5, <1>11, <2>2, <2>3 DEF Progress
<1>13. Working(nc)'
  BY <1>1, <1>2, <1>3, <1>4, <1>12 DEF Working
<1> QED BY <1>1, <1>2, <1>13 DEF Stage

\* ... which is written after what was written before.
LEMMA BufferFollows ==
  ASSUME TypeInv, NEW c \in Clients, NEW k \in 0 .. Len(Steps(asked[c])),
         NEW m \in 0 .. Len(Response(asked[c])), Progress(c, k, m), tcp[c] = "est"
  PROVE  /\ Put(asked[c], k) \in 0 .. Len(Response(asked[c]))
         /\ sent[c] \o buf = SubSeq(Response(asked[c]), 1, Put(asked[c], k))
<1> DEFINE q == asked[c]  R == Response(q)  p == Put(q, k)
<1>1. q \in Kinds \union {"nothing"}
  BY AskedMeaning
<1>2. R \in Seq(Piece) /\ Len(R) \in Nat /\ p \in 0 .. Len(R)
  BY <1>1, ResponseMeaning, StepsMeaning
<1>3. Len(buf) \in Nat
  BY LenProperties DEF TypeInv
<1>4. m + Len(buf) = p /\ buf = SubSeq(R, p - Len(buf) + 1, p) /\ sent[c] = SubSeq(R, 1, m)
  BY DEF Progress
<1> HIDE DEF R, p
<1>5. /\ p - Len(buf) = m /\ 1 \in 1 .. Len(R) + 1 /\ m \in 1 - 1 .. Len(R)
      /\ p \in m .. Len(R)
  <2>1. m \in 0 .. Len(R)
    BY DEF R, q
  <2> QED BY <1>2, <1>3, <1>4, <2>1
<1>6. SubSeq(R, 1, m) \o SubSeq(R, m + 1, p) = SubSeq(R, 1, p)
  BY <1>2, <1>5, ConcatAdjacentSubSeq
<1> QED BY <1>2, <1>4, <1>5, <1>6 DEF R, p

LEMMA FlushStage ==
  ASSUME TypeInv, HeldInv, AnswerInv, NetFlush
  PROVE  Stage(nc)'
<1> DEFINE q == asked[nc]  R == Response(q)
<1>1. /\ pc = "write" /\ pc' = "handle" /\ buf' = << >>
      /\ sent' = IF tcp[nc] = "est" THEN [sent EXCEPT ![nc] = @ \o buf] ELSE sent
      /\ UNCHANGED <<tcp, asked, server, nc, todo, queued>>
  BY DEF NetFlush, Write, clientVars, sharedVars
<1>2. nc \in Clients /\ server[nc] = "held"
  BY <1>1, OwnConnection DEF HeldInv, ConnectionInv, HeldAt
<1>3. Working(nc)
  BY <1>1, <1>2 DEF AnswerInv, Stage
<1>4. PICK k \in 0 .. Len(Steps(q)), m \in 0 .. Len(R) : Progress(nc, k, m)
  BY <1>3 DEF Working
<1> DEFINE p == Put(q, k)
<1>5. /\ R \in Seq(Piece) /\ Len(R) \in Nat /\ p \in 0 .. Len(R) /\ Len(buf) \in Nat
  <2>1. q \in Kinds \union {"nothing"}
    BY <1>2, AskedMeaning
  <2>2. Len(buf) \in Nat
    BY LenProperties DEF TypeInv
  <2> QED BY <2>1, <2>2, ResponseMeaning, StepsMeaning
<1>6. Len(buf') = 0 /\ buf' = SubSeq(R, p - Len(buf') + 1, p)
  <2>1. Len(buf') = 0
    BY <1>1
  <2>2. p - Len(buf') + 1 = p + 1 /\ p + 1 \in Int /\ p \in Int /\ p < p + 1
    BY <1>5, <2>1
  <2>3. SubSeq(R, p + 1, p) = << >>
    BY <2>2, SubSeqEmpty
  <2> QED BY <1>1, <2>1, <2>2, <2>3
<1>7. CASE tcp[nc] = "est"
  <2>1. sent'[nc] = SubSeq(R, 1, p)
    <3>1. sent'[nc] = sent[nc] \o buf
      BY <1>1, <1>2, <1>7 DEF TypeInv
    <3> QED BY <3>1, <1>2, <1>4, <1>7, BufferFollows
  <2>2. Progress(nc, k, p)'
    <3>1. p + Len(buf') = p
      BY <1>5, <1>6
    <3>2. p + Len(buf') <= p
      BY <1>5, <3>1
    <3>3. todo = SubSeq(Steps(q), k + 1, Len(Steps(q)))
          /\ queued[nc] = IF q = "message" /\ k >= 2 THEN 1 ELSE 0
      BY <1>4 DEF Progress
    <3> HIDE DEF R, p
    <3> QED BY <1>1, <1>6, <2>1, <3>1, <3>2, <3>3 DEF Progress, R, p
  <2>3. Working(nc)'
    BY <1>1, <1>3, <1>4, <1>5, <2>2 DEF Working
  <2> QED BY <1>1, <1>2, <2>3 DEF Stage
<1>8. CASE tcp[nc] # "est"
  <2>1. sent' = sent
    BY <1>1, <1>8
  <2>2. m + Len(buf') <= p
    BY <1>4, <1>5, <1>6 DEF Progress
  <2>3. Progress(nc, k, m)'
    BY <1>1, <1>4, <1>5, <1>6, <1>8, <2>1, <2>2 DEF Progress
  <2>4. Working(nc)'
    BY <1>1, <1>3, <1>4, <2>3 DEF Working
  <2> QED BY <1>1, <1>2, <2>4 DEF Stage
<1> QED BY <1>7, <1>8

\* A client whose handler is done and that is alive gets all of the answer.
LEMMA FinalizeStage ==
  ASSUME TypeInv, HeldInv, AnswerInv, Finalize
  PROVE  Stage(nc)'
<1> DEFINE q == asked[nc]  R == Response(q)
<1>1. /\ pc = "finalize" /\ pc' = "close"
      /\ IF buf # << >> /\ tcp[nc] = "est" THEN sent' = [sent EXCEPT ![nc] = @ \o buf]
                                           ELSE sent' = sent
      /\ UNCHANGED <<tcp, asked, server, nc, todo, queued>>
  BY DEF Finalize, Write, clientVars, sharedVars
<1>2. nc \in Clients /\ server[nc] = "held"
  BY <1>1, OwnConnection DEF HeldInv, ConnectionInv, HeldAt
<1>3. Working(nc) /\ todo = << >>
  BY <1>1, <1>2 DEF AnswerInv, Stage, Working
<1>4. PICK k \in 0 .. Len(Steps(q)), m \in 0 .. Len(R) : Progress(nc, k, m)
  BY <1>3 DEF Working
<1> DEFINE p == Put(q, k)
<1>5. /\ R \in Seq(Piece) /\ Len(R) \in Nat /\ q \in Kinds \union {"nothing"}
      /\ Steps(q) \in Seq(HandlerStep) /\ Len(Steps(q)) \in Nat
      /\ Put(q, Len(Steps(q))) = Len(R)
  <2>1. q \in Kinds \union {"nothing"}
    BY <1>2, AskedMeaning
  <2> QED BY <2>1, ResponseMeaning, StepsMeaning, LenProperties
<1>6. k = Len(Steps(q))
  <2>1. SubSeq(Steps(q), k + 1, Len(Steps(q))) = << >>
    BY <1>3, <1>4 DEF Progress
  <2>2. ASSUME k + 1 <= Len(Steps(q)) PROVE FALSE
    <3>1. \A i \in k + 1 .. Len(Steps(q)) : Steps(q)[i] \in HandlerStep
      BY <1>5, ElementOfSeq
    <3>2. Len(SubSeq(Steps(q), k + 1, Len(Steps(q)))) = Len(Steps(q)) - (k + 1) + 1
      BY <1>5, <2>2, <3>1, SubSeqProperties
    <3>3. Len(<< >>) = 0
      OBVIOUS
    <3>4. 0 = Len(Steps(q)) - (k + 1) + 1
      BY <2>1, <3>2, <3>3
    <3> QED BY <1>5, <2>2, <3>4
  <2> QED BY <1>5, <2>2
<1>7. CASE tcp[nc] = "est"
  <2>1. sent'[nc] = sent[nc] \o buf
    <3>1. CASE buf # << >>
      BY <1>1, <1>2, <1>7, <3>1 DEF TypeInv
    <3>2. CASE buf = << >>
      BY <1>1, <1>2, <3>2, ConcatEmptySeq DEF TypeInv
    <3> QED BY <3>1, <3>2
  <2>2. sent[nc] \o buf = SubSeq(R, 1, Len(R))
    BY <1>2, <1>4, <1>5, <1>6, <1>7, BufferFollows
  <2>3. sent'[nc] = R /\ R = SubSeq(R, 1, Len(R))
    BY <2>1, <2>2, <1>5, SubSeqFull
  <2>4. /\ Ok \in Range(R) => q = "message" /\ Len(R) >= 2
        /\ Err \in Range(R) => q = "badmessage"
    <3>1. Len(R) \in 0 .. Len(R)
      BY <1>5
    <3>2. LET t == SubSeq(R, 1, Len(R)) IN
          /\ t \in Seq(Piece) /\ Len(t) = Len(R)
          /\ Ok \in Range(t) => q = "message" /\ Len(R) >= 2
          /\ Err \in Range(t) => q = "badmessage"
      BY <1>5, <3>1, PrefixMeaning
    <3> QED BY <2>3, <3>2
  <2>5. queued[nc] = IF q = "message" /\ k >= 2 THEN 1 ELSE 0
    BY <1>4 DEF Progress
  <2>6. q = "message" => k >= 2
    <3>1. q = "message" => Len(R) = 2
      BY ShortResponse DEF Kinds
    <3>2. Put(q, k) = Len(R) /\ k \in Nat
      BY <1>5, <1>6
    <3> QED BY <3>1, <3>2 DEF Put
  <2>7. Told(nc)'
    BY <1>1, <1>5, <2>3, <2>4, <2>5, <2>6 DEF Told
  <2> QED BY <1>1, <1>2, <1>3, <2>3, <2>7 DEF Stage, Over, Working
<1>8. CASE tcp[nc] # "est"
  <2>1. sent' = sent
    BY <1>1, <1>8
  <2>2. Told(nc)
    BY <1>2, <1>3, WorkingTold
  <2>3. Told(nc)'
    BY <1>1, <2>1, <2>2 DEF Told
  <2> QED BY <1>1, <1>2, <1>8, <2>3 DEF Stage, Over
<1> QED BY <1>7, <1>8

\* A handler starts with nothing put and nothing given ...
LEMMA DispatchStage ==
  ASSUME TypeInv, HeldInv, AnswerInv, Dispatch
  PROVE  Stage(nc)'
<1> DEFINE q == asked[nc]  R == Response(q)
<1>1. /\ pc = "parse" /\ pc' = "handle" /\ buf' = << >> /\ todo' = Steps(q)
      /\ UNCHANGED <<tcp, asked, server, nc, sent, queued>>
  BY DEF Dispatch, StreamReset, netVars, clientVars, sharedVars
<1>2. nc \in Clients /\ server[nc] = "held"
  BY <1>1, OwnConnection DEF HeldInv, ConnectionInv, HeldAt
<1>3. Fresh(nc) /\ q # "nothing"
  BY <1>1, <1>2 DEF AnswerInv, Stage
<1>4. /\ R \in Seq(Piece) /\ Len(R) \in Nat
      /\ Steps(q) \in Seq(HandlerStep) /\ Len(Steps(q)) \in Nat /\ Put(q, 0) = 0
  <2>1. q \in Kinds \union {"nothing"}
    BY <1>2, AskedMeaning
  <2> QED BY <2>1, ResponseMeaning, StepsMeaning, LenProperties
<1>5. /\ SubSeq(R, 1, 0) = << >> /\ Len(buf') = 0
      /\ SubSeq(Steps(q), 0 + 1, Len(Steps(q))) = Steps(q)
  BY <1>1, <1>4, SubSeqEmpty, SubSeqFull
<1>6. buf' = SubSeq(R, 0 - Len(buf') + 1, 0)
  BY <1>1, <1>5
<1>7. Progress(nc, 0, 0)'
  BY <1>1, <1>3, <1>4, <1>5, <1>6 DEF Progress, Fresh
<1>8. Working(nc)'
  BY <1>1, <1>3, <1>4, <1>7 DEF Working
<1> QED BY <1>1, <1>2, <1>8 DEF Stage

\* ... and ends when nothing remains to be done.
LEMMA DoneStage ==
  ASSUME TypeInv, HeldInv, AnswerInv, HandlerDone
  PROVE  Stage(nc)'
<1>1. /\ pc = "handle" /\ pc' = "finalize" /\ todo = << >>
      /\ UNCHANGED <<tcp, asked, server, nc, sent, queued, todo, buf>>
  BY DEF HandlerDone, clientVars, sharedVars
<1>2. nc \in Clients /\ server[nc] = "held"
  BY <1>1, OwnConnection DEF HeldInv, ConnectionInv, HeldAt
<1>3. Working(nc)
  BY <1>1, <1>2 DEF AnswerInv, Stage
<1>4. PICK k \in 0 .. Len(Steps(asked[nc])), m \in 0 .. Len(Response(asked[nc])) :
        Progress(nc, k, m)
  BY <1>3 DEF Working
<1>5. Progress(nc, k, m)'
  BY <1>1, <1>4 DEF Progress
<1>6. Working(nc)'
  BY <1>1, <1>3, <1>5 DEF Working
<1> QED BY <1>1, <1>2, <1>6 DEF Stage

\* The steps before and after the handler.
LEMMA PlainStage ==
  ASSUME TypeInv, HeldInv, AnswerInv, Recv \/ RecvFails \/ ParseFails \/ Close \/ BailFree
  PROVE  Stage(nc)'
<1>1. UNCHANGED <<tcp, asked, nc, sent, queued, todo, buf>>
  BY DEF Recv, RecvFails, ParseFails, Close, BailFree, netVars, clientVars, sharedVars
<1>2. /\ nc \in Clients /\ Stage(nc)
      /\ pc \in {"recv", "parse", "close", "bailClose"} => server[nc] = "held"
      /\ pc = "bailFree" => server[nc] = "closed"
  BY OwnConnection DEF Recv, RecvFails, ParseFails, Close, BailFree, HeldInv, ConnectionInv,
     HeldAt, ClosedAt, AnswerInv
<1>3. CASE Recv
  BY <1>1, <1>2, <1>3 DEF Recv, Stage, Fresh
<1>4. CASE RecvFails
  BY <1>1, <1>2, <1>4 DEF RecvFails, Stage, Fresh, netVars
<1>5. CASE ParseFails
  BY <1>1, <1>2, <1>5 DEF ParseFails, Stage, Fresh, netVars
<1>6. CASE Close
  <2>1. Over(nc)
    <3>1. CASE pc = "bailClose"
      <4>1. Fresh(nc) /\ (tcp[nc] = "est" => asked[nc] = "junk")
        BY <1>2, <3>1 DEF Stage
      <4>2. Response("junk") = << >>
        BY DEF Response
      <4> QED BY <1>2, <4>1, <4>2, FreshTold DEF Over, Fresh
    <3>2. CASE pc = "close"
      BY <1>2, <3>2 DEF Stage
    <3> QED BY <1>6, <3>1, <3>2 DEF Close
  <2>2. Over(nc)'
    BY <1>1, <2>1 DEF Over, Told
  <2>3. server'[nc] = "closed"
    BY <1>2, <1>6 DEF Close, CloseConn, TypeInv
  <2> QED BY <1>1, <2>2, <2>3 DEF Stage
<1>7. CASE BailFree
  <2>1. pc = "bailFree" /\ pc' = "delete" /\ server' = server
    BY <1>7 DEF BailFree
  <2>2. Over(nc)
    BY <1>2, <2>1 DEF Stage
  <2>3. Over(nc)'
    BY <1>1, <2>2 DEF Over, Told
  <2> QED BY <1>1, <1>2, <2>1, <2>3 DEF Stage
<1> QED BY <1>3, <1>4, <1>5, <1>6, <1>7

LEMMA EndsStage ==
  ASSUME TypeInv, HeldInv, AnswerInv, Accept \/ Delete, NEW c \in Clients
  PROVE  Stage(c)'
<1>1. UNCHANGED <<tcp, asked, sent, queued, todo, buf>>
  BY DEF Accept, Delete, clientVars, sharedVars
<1>2. Stage(c)
  BY DEF AnswerInv
<1>3. CASE Accept
  <2>1. Head(backlog) \in Clients /\ server[Head(backlog)] = "waiting"
    <3>1. Len(backlog) \in Nat \ {0} /\ Head(backlog) = backlog[1]
      BY <1>3, EmptySeq, LenProperties DEF Accept, TypeInv
    <3> QED BY <3>1, ElementOfSeq DEF TypeInv, HeldInv, BacklogInv
  <2>2. /\ server' = [server EXCEPT ![Head(backlog)] = "held"]
        /\ pc = "accept" /\ pc' = "recv"
    BY <1>3 DEF Accept
  <2>3. CASE c = Head(backlog)
    BY <1>1, <1>2, <2>1, <2>2, <2>3 DEF Stage, Fresh, TypeInv
  <2>4. CASE c # Head(backlog)
    <3>1. server[c] # "held" /\ server'[c] = server[c]
      BY <2>2, <2>4 DEF HeldInv, ConnectionInv, HeldAt, TypeInv
    <3> QED BY <1>1, <1>2, <3>1, StageKept
  <2> QED BY <2>3, <2>4
<1>4. CASE Delete
  <2>1. /\ pc = "delete" /\ nc \in Clients /\ server[nc] = "closed"
        /\ server' = [server EXCEPT ![nc] = "deleted"]
    <3>1. pc = "delete" /\ nc \in Clients /\ server[nc] = "closed"
      BY <1>4, OwnConnection DEF Delete, HeldInv, ConnectionInv, ClosedAt
    <3> QED BY <3>1, <1>4 DEF Delete, DeleteConn
  <2>2. CASE c = nc
    <3>1. Over(c)
      BY <1>2, <2>1, <2>2 DEF Stage
    <3>2. Over(c)'
      BY <1>1, <3>1 DEF Over, Told
    <3>3. server'[c] = "deleted"
      BY <2>1, <2>2 DEF TypeInv
    <3> QED BY <3>2, <3>3 DEF Stage
  <2>3. CASE c # nc
    <3>1. server[c] # "held" /\ server'[c] = server[c]
      BY <2>1, <2>3 DEF HeldInv, ConnectionInv, TypeInv
    <3> QED BY <1>1, <1>2, <3>1, StageKept
  <2> QED BY <2>2, <2>3
<1> QED BY <1>3, <1>4

LEMMA AnswerStep == IInv /\ [Next]_httpVars => AnswerInv'
<1> SUFFICES ASSUME TypeInv, HeldInv, AnswerInv, [Next]_httpVars, NEW c \in Clients
             PROVE  Stage(c)'
  BY DEF IInv, AnswerInv
<1>1. CASE RadioTake \/ OthersLock \/ UNCHANGED httpVars
  <2>1. UNCHANGED <<tcp, asked, sent, server, pc, todo, buf, queued>>
    BY <1>1 DEF RadioTake, OthersLock, httpVars, netVars, clientVars, threadVars, sharedVars
  <2> QED BY <2>1, StageKept DEF AnswerInv
<1>2. CASE HttpdThread
  <2>1. CASE Accept \/ Delete
    BY <2>1, EndsStage
  <2>2. CASE ~(Accept \/ Delete)
    <3>1. nc' = nc
      BY <1>2, <2>2 DEF HttpdThread, Recv, RecvFails, ParseFails, Dispatch, NetPut, NetFlush,
         DataLock, DataUnlock, NrfSend, HandlerDone, Finalize, Close, BailFree
    <3>2. CASE c = nc
      <4>1. Stage(nc)'
        BY <1>2, <2>2, SilentStage, PutStage, FlushStage, FinalizeStage, DispatchStage,
           DoneStage, PlainStage, Zenon DEF HttpdThread
      <4>2. Stage(c)' <=> Stage(nc)'
        BY <3>1, <3>2
      <4> QED BY <4>1, <4>2
    <3>3. CASE c # nc
      BY <1>2, <3>1, <3>3, OthersKept
    <3> QED BY <3>2, <3>3
  <2> QED BY <2>1, <2>2
<1> QED BY <1>1, <1>2, NetworkStage DEF Next
-----------------------------------------------------------------------------
(* The theorems.                                                           *)

LEMMA Initial == Init => IInv
<1> SUFFICES ASSUME Init PROVE IInv
  OBVIOUS
<1>1. TypeInv
  BY DEF Init, TypeInv, Questions, NoConn
<1>2. HeldInv
  BY DEF Init, HeldInv, BacklogInv, ConnectionInv, NetbufInv, HeldAt, ClosedAt, NoConn, Clients
<1>3. AnswerInv
  BY DEF Init, AnswerInv, Stage, Fresh
<1> QED BY <1>1, <1>2, <1>3 DEF IInv

\* The thread, its connection, its netbuf, its buffer and its handler always
\* agree.
THEOREM Inductive == Spec => []IInv
<1>1. IInv /\ [Next]_httpVars => IInv'
  BY HeldStep, AnswerStep DEF IInv
<1> QED BY Initial, <1>1, PTL DEF Spec

\* Which part of a handler is past its lock.
LEMMA PastLockPlace ==
  ASSUME NEW q \in Kinds \union {"nothing"}, NEW k \in 0 .. Len(Steps(q))
  PROVE  PastLock(SubSeq(Steps(q), k + 1, Len(Steps(q))))
           <=> q \in {"raw", "json"} /\ k \in 2 .. Len(Steps(q)) - 1
<1> DEFINE s == Steps(q)  n == Len(Steps(q))  rest == SubSeq(s, k + 1, n)
<1>1. s \in Seq(HandlerStep) /\ n \in Nat /\ k \in 0 .. n
  BY StepsMeaning, LenProperties
<1>2. /\ q \in {"raw", "json"} => n > 2
      /\ \A j \in 1 .. n :
           /\ s[j].op = "lock" <=> q \in {"raw", "json"} /\ j = 2
           /\ s[j].op = "unlock" <=> q \in {"raw", "json"} /\ j = n
  BY StepsMeaning
<1>3. /\ DOMAIN rest = 1 .. n - k
      /\ \A i \in 1 .. n - k : \E j \in 1 .. n : j = k + i /\ rest[i] = s[j]
  <2>1. PICK m \in 1 .. n + 1 : m = k + 1
    BY <1>1
  <2>2. \A i \in m .. n : s[i] \in HandlerStep
    BY <1>1, <2>1, ElementOfSeq
  <2>3. /\ SubSeq(s, m, n) \in Seq(HandlerStep)
        /\ Len(SubSeq(s, m, n)) = IF m <= n THEN n - m + 1 ELSE 0
        /\ \A i \in 1 .. n - m + 1 : SubSeq(s, m, n)[i] = s[m + i - 1]
    <3>1. m \in Int /\ n \in Int
      BY <1>1, <2>1
    <3> QED
      BY <2>2, <3>1, SubSeqProperties
  <2>4. (IF m <= n THEN n - m + 1 ELSE 0) = n - k /\ n - m + 1 = n - k
    BY <1>1, <2>1
  <2>5. DOMAIN rest = 1 .. n - k
    BY <2>1, <2>3, <2>4, LenProperties
  <2>6. ASSUME NEW i \in 1 .. n - k
        PROVE  \E j \in 1 .. n : j = k + i /\ rest[i] = s[j]
    <3>1. m + i - 1 \in 1 .. n /\ m + i - 1 = k + i
      BY <1>1, <2>1
    <3>2. rest[i] = s[m + i - 1]
      BY <2>1, <2>3, <2>4
    <3> QED
      BY <3>1, <3>2
  <2> QED
    BY <2>5, <2>6
<1> HIDE DEF rest, s, n
<1>4. (\E i \in DOMAIN rest : rest[i].op = "unlock") <=> q \in {"raw", "json"} /\ k < n
  <2>1. ASSUME NEW i \in 1 .. n - k
        PROVE  rest[i].op = "unlock" <=> q \in {"raw", "json"} /\ k + i = n
    <3>1. PICK j \in 1 .. n : j = k + i /\ rest[i] = s[j]
      BY <1>3
    <3>2. s[j].op = "unlock" <=> q \in {"raw", "json"} /\ j = n
      BY <1>2
    <3> QED
      BY <3>1, <3>2
  <2>2. (\E i \in 1 .. n - k : k + i = n) <=> k < n
    <3>1. k < n => n - k \in 1 .. n - k /\ k + (n - k) = n
      BY <1>1
    <3>2. \A i \in 1 .. n - k : k < n
      BY <1>1
    <3> QED
      BY <3>1, <3>2
  <2> QED
    BY <1>3, <2>1, <2>2
<1>5. (\E i \in DOMAIN rest : rest[i].op = "lock") <=> q \in {"raw", "json"} /\ k < 2
  <2>1. ASSUME NEW i \in 1 .. n - k
        PROVE  rest[i].op = "lock" <=> q \in {"raw", "json"} /\ k + i = 2
    <3>1. PICK j \in 1 .. n : j = k + i /\ rest[i] = s[j]
      BY <1>3
    <3>2. s[j].op = "lock" <=> q \in {"raw", "json"} /\ j = 2
      BY <1>2
    <3> QED
      BY <3>1, <3>2
  <2>2. n > 2 => ((\E i \in 1 .. n - k : k + i = 2) <=> k < 2)
    <3>1. k < 2 /\ n > 2 => 2 - k \in 1 .. n - k /\ k + (2 - k) = 2
      BY <1>1
    <3>2. \A i \in 1 .. n - k : k + i = 2 => k < 2
      BY <1>1
    <3> QED
      BY <3>1, <3>2
  <2> QED
    BY <1>2, <1>3, <2>1, <2>2
<1> QED
  BY <1>1, <1>2, <1>4, <1>5 DEF PastLock, rest, n, s

\* The lock is held when a handler comes to its unlock.
LEMMA UnlocksOwn ==
  ASSUME IInv, LockInv, At("unlock")
  PROVE  data_mutex = "httpd"
<1> DEFINE q == asked[nc]
<1>1. q \in Kinds /\ pc = "handle"
  BY StepTaken DEF IInv, At
<1>2. PICK k \in 0 .. Len(Steps(q)) - 1, m \in 0 .. Len(Response(q)) :
        /\ Progress(nc, k, m) /\ k + 1 \in 1 .. Len(Steps(q))
        /\ Steps(q)[k + 1].op = "unlock"
  BY StepTaken DEF IInv
<1>3. Len(Steps(q)) \in Nat /\ q \in {"raw", "json"} /\ k + 1 = Len(Steps(q)) /\ k + 1 > 2
  BY <1>1, <1>2, StepsMeaning, LenProperties
<1>4. k \in 0 .. Len(Steps(q)) /\ k \in 2 .. Len(Steps(q)) - 1
  BY <1>2, <1>3
<1>5. todo = SubSeq(Steps(q), k + 1, Len(Steps(q)))
  BY <1>2 DEF Progress
<1> QED
  BY <1>1, <1>3, <1>4, <1>5, PastLockPlace DEF LockInv, Listing

\* A step of a handler locks, unlocks, or leaves the listing as it is.
LEMMA HandlerLock ==
  ASSUME IInv, LockInv, NetPut \/ DataLock \/ DataUnlock \/ NrfSend
  PROVE  LockInv'
<1> DEFINE q == asked[nc]
<1>1. PICK o \in {"put", "lock", "unlock", "send"} :
        /\ At(o) /\ todo' = Tail(todo) /\ pc' \in {"handle", "write"} /\ pc = "handle"
        /\ data_mutex' = IF o = "lock" THEN "httpd" ELSE IF o = "unlock" THEN Nobody
                         ELSE data_mutex
  <2>1. CASE NetPut
    <3>1. At("put") /\ todo' = Tail(todo) /\ pc' \in {"handle", "write"} /\ data_mutex' = data_mutex
      BY <2>1 DEF NetPut, sharedVars
    <3> QED
      BY <3>1 DEF At
  <2>2. CASE DataLock
    BY <2>2 DEF DataLock, At
  <2>3. CASE DataUnlock
    BY <2>3 DEF DataUnlock, At
  <2>4. CASE NrfSend
    BY <2>4 DEF NrfSend, At
  <2> QED
    BY <2>1, <2>2, <2>3, <2>4
<1>2. q \in Kinds
  BY <1>1, StepTaken DEF IInv
<1>3. PICK k \in 0 .. Len(Steps(q)) - 1, m \in 0 .. Len(Response(q)) :
        /\ Progress(nc, k, m) /\ k + 1 \in 1 .. Len(Steps(q))
        /\ Steps(q)[k + 1].op = o
        /\ Tail(todo) = SubSeq(Steps(q), k + 2, Len(Steps(q)))
  BY <1>1, StepTaken DEF IInv
<1>4. /\ Len(Steps(q)) \in Nat /\ (q \in {"raw", "json"} => Len(Steps(q)) > 2)
      /\ o = "lock" <=> q \in {"raw", "json"} /\ k + 1 = 2
      /\ o = "unlock" <=> q \in {"raw", "json"} /\ k + 1 = Len(Steps(q))
  BY <1>2, <1>3, StepsMeaning, LenProperties
<1>5. k \in 0 .. Len(Steps(q)) /\ k + 1 \in 0 .. Len(Steps(q)) /\ (k + 1) + 1 = k + 2
  BY <1>3, <1>4
<1>6. PastLock(todo) <=> q \in {"raw", "json"} /\ k \in 2 .. Len(Steps(q)) - 1
  BY <1>2, <1>3, <1>5, PastLockPlace DEF Progress
<1>7. PastLock(todo') <=> q \in {"raw", "json"} /\ k + 1 \in 2 .. Len(Steps(q)) - 1
  BY <1>1, <1>2, <1>3, <1>5, PastLockPlace
<1>8. data_mutex = "httpd" <=> q \in {"raw", "json"} /\ k \in 2 .. Len(Steps(q)) - 1
  BY <1>1, <1>6 DEF LockInv, Listing
<1>9. data_mutex' = "httpd" <=> q \in {"raw", "json"} /\ k + 1 \in 2 .. Len(Steps(q)) - 1
  <2>1. Nobody # "httpd"
    BY DEF Nobody
  <2> QED
    BY <1>1, <1>3, <1>4, <1>5, <1>8, <2>1
<1> QED
  BY <1>1, <1>7, <1>9 DEF LockInv, Listing

\* Only a listing keeps the lock from one step to the next.
LEMMA LockStep ==
  ASSUME IInv, LockInv, [Next]_httpVars
  PROVE  LockInv'
<1>1. CASE Network \/ RadioTake \/ UNCHANGED httpVars
  <2>1. UNCHANGED <<pc, todo, data_mutex>>
    BY <1>1 DEF Network, RadioTake, httpVars, threadVars, sharedVars
  <2> QED
    BY <2>1 DEF LockInv, Listing
<1>2. CASE OthersLock
  <2>1. UNCHANGED <<pc, todo>> /\ data_mutex # "httpd" /\ data_mutex' # "httpd"
    BY <1>2 DEF OthersLock, threadVars, Nobody
  <2> QED
    BY <2>1 DEF LockInv, Listing
<1>3. CASE NetPut \/ DataLock \/ DataUnlock \/ NrfSend
  BY <1>3, HandlerLock
<1>4. CASE NetFlush
  <2>1. pc = "write" /\ pc' = "handle" /\ UNCHANGED <<todo, data_mutex>>
    BY <1>4 DEF NetFlush, sharedVars
  <2> QED
    BY <2>1 DEF LockInv, Listing
<1>5. CASE Dispatch
  <2>1. pc = "parse" /\ todo' = Steps(asked[nc]) /\ data_mutex' = data_mutex
    BY <1>5 DEF Dispatch, sharedVars
  <2>2. asked[nc] \in Kinds \union {"nothing"}
    BY <2>1, OwnConnection, AskedMeaning DEF IInv, HeldInv
  <2>3. /\ Steps(asked[nc]) \in Seq(HandlerStep) /\ 0 \in 0 .. Len(Steps(asked[nc]))
        /\ Len(Steps(asked[nc])) \in Nat
    BY <2>2, StepsMeaning, LenProperties
  <2>4. SubSeq(Steps(asked[nc]), 0 + 1, Len(Steps(asked[nc]))) = Steps(asked[nc])
    BY <2>3, SubSeqFull
  <2>5. ~PastLock(Steps(asked[nc]))
    <3>1. 0 \notin 2 .. Len(Steps(asked[nc])) - 1
      BY <2>3
    <3> QED
      BY <3>1, <2>2, <2>3, <2>4, PastLockPlace
  <2> QED
    BY <2>1, <2>5 DEF LockInv, Listing
<1>6. CASE HandlerDone
  <2>1. todo = << >> /\ pc' = "finalize" /\ data_mutex' = data_mutex
    BY <1>6 DEF HandlerDone, sharedVars
  <2>2. ~PastLock(todo)
    BY <2>1 DEF PastLock
  <2> QED
    BY <2>1, <2>2 DEF LockInv, Listing
<1>7. CASE Accept \/ Recv \/ RecvFails \/ ParseFails \/ Finalize \/ Close \/ BailFree \/ Delete
  <2>1. /\ pc \notin {"handle", "write"} /\ pc' \notin {"handle", "write"}
        /\ data_mutex' = data_mutex
    BY <1>7 DEF Accept, Recv, RecvFails, ParseFails, Finalize, Close, BailFree, Delete, sharedVars
  <2> QED
    BY <2>1 DEF LockInv, Listing
<1> QED
  BY <1>1, <1>2, <1>3, <1>4, <1>5, <1>6, <1>7 DEF Next, HttpdThread

\* httpd has data_mutex when, and only when, it writes a listing: data_dump
\* and data_json of data.c lock and unlock once on every path.
THEOREM LockedListing == Spec => []LockInv
<1>1. Init => LockInv
  BY DEF Init, LockInv, Listing, Nobody
<1> QED
  BY <1>1, LockStep, Inductive, PTL DEF Spec

\* Every connection and every netbuf is given back once, on every path through
\* httpd_process, for any number of connections.
THEOREM NothingLeaks == Spec => []ResourcesReturned
<1>1. IInv /\ LockInv => ResourcesReturned
  <2> SUFFICES ASSUME TypeInv, HeldInv, LockInv PROVE ResourcesReturned
    BY DEF IInv
  <2>1. \A c \in Clients : server[c] # "corrupt" /\ netbuf[c] # "corrupt"
    BY DEF TypeInv
  <2>2. pc # "accept" => nc \in Clients
    BY OwnConnection DEF HeldInv
  <2>3. pc = "accept" => \A c \in Clients : server[c] # "held" /\ netbuf[c] # "held"
    BY DEF HeldInv, ConnectionInv, NetbufInv, HeldAt, NoConn, Clients
  <2>4. pc = "accept" => data_mutex # "httpd"
    BY DEF LockInv, Listing
  <2> QED
    BY <2>1, <2>2, <2>3, <2>4 DEF HeldInv, ConnectionInv, NetbufInv, HeldAt, ResourcesReturned
<1> QED BY Inductive, LockedListing, <1>1, PTL

\* What a client has been told, at every stage.
LEMMA StageTold ==
  ASSUME TypeInv, NEW c \in Clients, Stage(c)
  PROVE  Told(c)
BY FreshTold, WorkingTold DEF Stage, Over

\* Each client gets its own answer and nothing of another's, for any length of
\* the table and any size of the buffer of net.
THEOREM OwnAnswer == Spec => []OwnOutput
<1>1. IInv => OwnOutput
  <2> SUFFICES ASSUME TypeInv, AnswerInv, NEW c \in Clients
               PROVE  /\ \E n \in 0 .. Len(Response(asked[c])) :
                           sent[c] = SubSeq(Response(asked[c]), 1, n)
                      /\ server[c] \in {"closed", "deleted"} /\ tcp[c] = "est"
                           => sent[c] = Response(asked[c])
    BY DEF IInv, OwnOutput
  <2>1. Told(c)
    BY StageTold DEF AnswerInv
  <2>2. server[c] \in {"closed", "deleted"} => Over(c)
    BY DEF AnswerInv, Stage
  <2> QED BY <2>1, <2>2 DEF Told, Over
<1> QED BY Inductive, <1>1, PTL

\* A client that is told OK had its message queued once, and no message is
\* queued otherwise.
THEOREM OkIsTrue == Spec => []OkMeansQueued
<1>1. IInv => OkMeansQueued
  BY StageTold DEF IInv, AnswerInv, Told, OkMeansQueued
<1> QED BY Inductive, <1>1, PTL
-----------------------------------------------------------------------------
(* The web server in the gateway.                                          *)

\* A step of the gateway is one of the web server, one of those that take
\* data_mutex, or none it sees.
LEMMA GatewayStep ==
  ASSUME DumpInv, [GatewayNext]_gatewayVars
  PROVE  [Next]_httpVars
<1>1. CASE Web
  BY <1>1 DEF Web, Customers, Next, Network
<1>2. CASE DumpLock
  BY <1>2 DEF DumpLock, OthersLock, Next
<1>3. CASE DumpDone
  BY <1>3 DEF DumpDone, DumpInv, OthersLock, Next, Nobody
<1>4. CASE Hear \/ DataRx \/ FeedWake \/ FeedLock \/ FeedWrite \/ DumpCommand
  BY <1>4 DEF Hear, DataRx, DrxRecv, DrxTable, DrxPush, FeedWake, FeedLock, FeedWrite, DumpCommand
<1>5. CASE UNCHANGED gatewayVars
  BY <1>5 DEF gatewayVars
<1> QED
  BY <1>1, <1>2, <1>3, <1>4, <1>5 DEF GatewayNext

\* httpd never takes data_mutex from the console.
LEMMA DumpStep ==
  ASSUME IInv, LockInv, DumpInv, [GatewayNext]_gatewayVars
  PROVE  DumpInv'
<1>1. CASE Web
  <2>1. shell' = shell
    BY <1>1 DEF Web, Others
  <2>2. CASE DataLock
    BY <2>1, <2>2 DEF DataLock, DumpInv, Nobody
  <2>3. CASE DataUnlock
    <3>1. data_mutex = "httpd" /\ data_mutex' = Nobody
      BY <2>3, UnlocksOwn DEF DataUnlock
    <3> QED
      BY <2>1, <3>1 DEF DumpInv, Nobody
  <2>4. CASE ~(DataLock \/ DataUnlock)
    <3>1. data_mutex' = data_mutex
      BY <1>1, <2>4 DEF Web, HttpdThread, RadioTake, Accept, Recv, RecvFails, ParseFails, Dispatch,
        NetPut, NetFlush, NrfSend, HandlerDone, Finalize, Close, BailFree, Delete, sharedVars
    <3> QED
      BY <2>1, <3>1 DEF DumpInv
  <2> QED
    BY <2>2, <2>3, <2>4
<1>2. CASE DumpLock \/ DumpDone
  BY <1>2 DEF DumpLock, DumpDone, DumpInv, Nobody
<1>3. CASE DumpCommand
  BY <1>3 DEF DumpCommand, DumpInv, httpVars, sharedVars
<1>4. CASE Hear \/ DataRx \/ FeedWake \/ FeedLock \/ FeedWrite \/ UNCHANGED gatewayVars
  <2>1. shell' = shell /\ data_mutex' = data_mutex
    BY <1>4 DEF Hear, DataRx, DrxRecv, DrxTable, DrxPush, FeedWake, FeedLock, FeedWrite,
      gatewayVars, httpVars, sharedVars
  <2> QED
    BY <2>1 DEF DumpInv
<1> QED
  BY <1>1, <1>2, <1>3, <1>4 DEF GatewayNext

\* Each user of data_mutex gives back its own: data.c has one lock and one
\* unlock in each function.
THEOREM MutexOwned == GatewaySpec => [](IInv /\ LockInv /\ DumpInv)
<1>1. GatewayInit => IInv /\ LockInv /\ DumpInv
  BY Initial DEF GatewayInit, Init, LockInv, Listing, DumpInv, Nobody
<1>2. IInv /\ LockInv /\ DumpInv /\ [GatewayNext]_gatewayVars
        => IInv' /\ LockInv' /\ DumpInv'
  BY GatewayStep, DumpStep, LockStep, HeldStep, AnswerStep DEF IInv
<1> QED
  BY <1>1, <1>2, PTL DEF GatewaySpec

\* The web server of the gateway is the one of module Httpd, whatever the
\* radio, the feed and the console do.
THEOREM ServesTheSame == GatewaySpec => WebServer
<1>1. GatewayInit => Init
  BY DEF GatewayInit
<1> QED
  BY <1>1, GatewayStep, MutexOwned, PTL DEF GatewaySpec, WebServer, Spec

\* So what httpd promises its clients holds in the gateway.
THEOREM PromisesKept ==
  GatewaySpec => [](ResourcesReturned /\ OwnOutput /\ OkMeansQueued)
  BY ServesTheSame, NothingLeaks, OwnAnswer, OkIsTrue, PTL DEF WebServer

\* update_table does not change the table while path_raw, path_json or the
\* console writes it out, and these do not do so at once.
THEOREM ListingUntorn == GatewaySpec => TableStill
<1>1. LockInv /\ DumpInv => ~(Listing /\ shell = "dump")
  BY DEF LockInv, DumpInv
<1>2. LockInv /\ DumpInv /\ [GatewayNext]_gatewayVars
        => [stored' # stored => ~Listing /\ shell # "dump"]_gatewayVars
  <2> SUFFICES ASSUME LockInv, DumpInv, GatewayNext, stored' # stored
               PROVE  ~Listing /\ shell # "dump"
    OBVIOUS
  <2>1. DrxTable
    BY DEF GatewayNext, Web, Others, Hear, DataRx, DrxRecv, DrxPush, FeedWake, FeedLock, FeedWrite,
      DumpCommand, DumpLock, DumpDone, rxVars
  <2>2. data_mutex = Nobody
    BY <2>1 DEF DrxTable
  <2> QED
    BY <2>2 DEF LockInv, DumpInv, Nobody
<1> QED
  BY <1>1, <1>2, MutexOwned, PTL DEF GatewaySpec, TableStill
-----------------------------------------------------------------------------
(* The way of the packets.                                                 *)

\* The mailbox holds packets in the order they were heard, all of them later
\* than the one data_rx has; and that one is on its way to the table, or in
\* it and on its way to the feed, or in both.
OrderInv ==
  /\ heard \in Nat /\ pkt \in Nat /\ stored \in Nat /\ buf_frame \in Nat
  /\ rxMb \in Seq(Nat)
  /\ \A i \in 1 .. Len(rxMb) : pkt < rxMb[i] /\ rxMb[i] <= heard
  /\ \A i, j \in 1 .. Len(rxMb) : i < j => rxMb[i] < rxMb[j]
  /\ pkt <= heard
  /\ \/ drx = "recv" /\ stored = pkt /\ buf_frame = pkt
     \/ drx = "table" /\ stored < pkt /\ buf_frame = stored
     \/ drx = "push" /\ stored = pkt /\ buf_frame < pkt

\* The queue without its oldest packet.
LEMMA TailInOrder ==
  ASSUME OrderInv, rxMb # << >>
  PROVE  /\ Head(rxMb) \in Nat /\ pkt < Head(rxMb) /\ Head(rxMb) <= heard
         /\ Tail(rxMb) \in Seq(Nat)
         /\ \A i \in 1 .. Len(Tail(rxMb)) :
              Head(rxMb) < Tail(rxMb)[i] /\ Tail(rxMb)[i] <= heard /\ pkt < Tail(rxMb)[i]
         /\ \A i, j \in 1 .. Len(Tail(rxMb)) : i < j => Tail(rxMb)[i] < Tail(rxMb)[j]
<1>1. /\ rxMb \in Seq(Nat) /\ Head(rxMb) = rxMb[1] /\ Tail(rxMb) \in Seq(Nat)
      /\ Len(Tail(rxMb)) = Len(rxMb) - 1 /\ Len(rxMb) \in Nat \ {0}
      /\ \A i \in 1 .. Len(Tail(rxMb)) : Tail(rxMb)[i] = rxMb[i + 1]
  BY HeadTailProperties, LenProperties, EmptySeq DEF OrderInv
<1>2. ASSUME NEW i \in 1 .. Len(Tail(rxMb))
      PROVE  \E m \in 2 .. Len(rxMb) : m = i + 1 /\ Tail(rxMb)[i] = rxMb[m] /\ rxMb[m] \in Nat
  <2>1. i + 1 \in 2 .. Len(rxMb) /\ i + 1 \in 1 .. Len(rxMb)
    BY <1>1
  <2> QED
    BY <1>1, <2>1, ElementOfSeq
<1>3. rxMb[1] \in Nat /\ 1 \in 1 .. Len(rxMb)
  BY <1>1, ElementOfSeq
<1>4. ASSUME NEW i \in 1 .. Len(Tail(rxMb))
      PROVE  Head(rxMb) < Tail(rxMb)[i] /\ Tail(rxMb)[i] <= heard /\ pkt < Tail(rxMb)[i]
  <2>1. PICK m \in 2 .. Len(rxMb) : m = i + 1 /\ Tail(rxMb)[i] = rxMb[m]
    BY <1>2
  <2>2. m \in 1 .. Len(rxMb) /\ 1 < m
    BY <2>1
  <2> QED
    BY <1>1, <1>3, <2>1, <2>2 DEF OrderInv
<1>5. ASSUME NEW i \in 1 .. Len(Tail(rxMb)), NEW j \in 1 .. Len(Tail(rxMb)), i < j
      PROVE  Tail(rxMb)[i] < Tail(rxMb)[j]
  <2>1. PICK m \in 2 .. Len(rxMb) : m = i + 1 /\ Tail(rxMb)[i] = rxMb[m]
    BY <1>2
  <2>2. PICK n \in 2 .. Len(rxMb) : n = j + 1 /\ Tail(rxMb)[j] = rxMb[n]
    BY <1>2
  <2>3. m \in 1 .. Len(rxMb) /\ n \in 1 .. Len(rxMb) /\ m < n
    BY <1>5, <2>1, <2>2
  <2> QED
    BY <2>1, <2>2, <2>3 DEF OrderInv
<1> QED
  BY <1>1, <1>3, <1>4, <1>5 DEF OrderInv

\* A packet is heard, at the loss of the oldest if the mailbox is full.
LEMMA HearStep ==
  ASSUME OrderInv, Hear
  PROVE  OrderInv'
<1> DEFINE q == IF Len(rxMb) = RxSlots THEN Tail(rxMb) ELSE rxMb
<1>1. /\ q \in Seq(Nat) /\ Len(q) \in Nat
      /\ \A i \in 1 .. Len(q) : pkt < q[i] /\ q[i] <= heard
      /\ \A i, j \in 1 .. Len(q) : i < j => q[i] < q[j]
  <2>1. CASE Len(rxMb) = RxSlots
    <3>1. rxMb # << >>
      BY <2>1, GatewayAssumption, EmptySeq
    <3> QED
      BY <2>1, <3>1, TailInOrder, LenProperties
  <2>2. CASE Len(rxMb) # RxSlots
    BY <2>2, LenProperties DEF OrderInv
  <2> QED
    BY <2>1, <2>2
<1>2. /\ heard' = heard + 1 /\ rxMb' = Append(q, heard + 1)
      /\ UNCHANGED <<drx, pkt, stored, buf_frame>>
  BY DEF Hear
<1> HIDE DEF q
<1>3. heard \in Nat /\ pkt \in Nat /\ pkt <= heard
  BY DEF OrderInv
<1>4. /\ rxMb' \in Seq(Nat) /\ Len(rxMb') = Len(q) + 1
      /\ \A i \in 1 .. Len(q) : rxMb'[i] = q[i] /\ q[i] \in Nat
      /\ rxMb'[Len(q) + 1] = heard + 1
  BY <1>1, <1>2, <1>3, AppendProperties, ElementOfSeq
<1>5. ASSUME NEW i \in 1 .. Len(rxMb')
      PROVE  pkt < rxMb'[i] /\ rxMb'[i] <= heard + 1
  <2>1. i \in 1 .. Len(q) \/ i = Len(q) + 1
    BY <1>1, <1>4
  <2> QED
    BY <1>1, <1>3, <1>4, <2>1
<1>6. ASSUME NEW i \in 1 .. Len(rxMb'), NEW j \in 1 .. Len(rxMb'), i < j
      PROVE  rxMb'[i] < rxMb'[j]
  <2>1. i \in 1 .. Len(q)
    BY <1>1, <1>4, <1>6
  <2>2. CASE j = Len(q) + 1
    <3>1. rxMb'[i] = q[i] /\ q[i] \in Nat /\ q[i] <= heard /\ rxMb'[j] = heard + 1
      BY <2>1, <2>2, <1>1, <1>4
    <3> QED
      BY <3>1, <1>3
  <2>3. CASE j # Len(q) + 1
    <3>1. j \in 1 .. Len(q)
      BY <2>3, <1>1, <1>4
    <3> QED
      BY <2>1, <3>1, <1>1, <1>4, <1>6
  <2> QED
    BY <2>2, <2>3
<1> QED
  BY <1>2, <1>3, <1>4, <1>5, <1>6 DEF OrderInv

\* data_rx takes one packet at a time through table and feed.
LEMMA DataRxStep ==
  ASSUME OrderInv, DataRx
  PROVE  OrderInv'
<1>1. CASE DrxRecv
  <2>1. /\ drx = "recv" /\ drx' = "table" /\ rxMb # << >>
        /\ pkt' = Head(rxMb) /\ rxMb' = Tail(rxMb) /\ UNCHANGED <<heard, stored, buf_frame>>
    BY <1>1 DEF DrxRecv
  <2>2. stored = pkt /\ buf_frame = pkt /\ pkt \in Nat /\ heard \in Nat
    BY <2>1 DEF OrderInv
  <2> QED
    BY <2>1, <2>2, TailInOrder DEF OrderInv
<1>2. CASE DrxTable
  <2>1. /\ drx = "table" /\ drx' = "push" /\ stored' = pkt
        /\ UNCHANGED <<heard, rxMb, pkt, buf_frame>>
    BY <1>2 DEF DrxTable
  <2>2. stored < pkt /\ buf_frame = stored /\ pkt \in Nat /\ stored \in Nat
    BY <2>1 DEF OrderInv
  <2> QED
    BY <2>1, <2>2 DEF OrderInv
<1>3. CASE DrxPush
  <2>1. /\ drx = "push" /\ drx' = "recv" /\ buf_frame' = pkt
        /\ UNCHANGED <<heard, rxMb, pkt, stored>>
    BY <1>3 DEF DrxPush
  <2> QED
    BY <2>1 DEF OrderInv
<1> QED
  BY <1>1, <1>2, <1>3 DEF DataRx

\* The table and the feed get the packets in order, none twice, the table
\* first: data_rx of data.c behind the mailbox of nrf24l01p.c.
THEOREM OrderKept == GatewaySpec => PacketsInOrder
<1>1. GatewayInit => OrderInv
  <2> SUFFICES ASSUME GatewayInit
               PROVE  OrderInv
    OBVIOUS
  <2>1. rxMb = << >> /\ heard = 0 /\ pkt = 0 /\ stored = 0 /\ buf_frame = 0 /\ drx = "recv"
    BY DEF GatewayInit
  <2>2. rxMb \in Seq(Nat) /\ Len(rxMb) = 0
    BY <2>1
  <2> QED
    BY <2>1, <2>2 DEF OrderInv
<1>2. OrderInv /\ [GatewayNext]_gatewayVars => OrderInv'
  <2> SUFFICES ASSUME OrderInv, [GatewayNext]_gatewayVars
               PROVE  OrderInv'
    OBVIOUS
  <2>1. CASE Hear \/ DataRx
    BY <2>1, HearStep, DataRxStep
  <2>2. CASE ~(Hear \/ DataRx)
    <3>1. UNCHANGED rxVars
      BY <2>2 DEF GatewayNext, Web, Others, FeedWake, FeedLock, FeedWrite, DumpCommand, DumpLock,
        DumpDone, gatewayVars
    <3> QED
      BY <3>1 DEF OrderInv, rxVars
  <2> QED
    BY <2>1, <2>2
<1>3. OrderInv => buf_frame <= stored /\ stored <= heard
  BY DEF OrderInv
<1>4. OrderInv /\ [GatewayNext]_gatewayVars
        => /\ [DrxTable => stored' > stored]_gatewayVars
           /\ [DrxPush => buf_frame' > buf_frame]_gatewayVars
  BY DEF OrderInv, DrxTable, DrxPush
<1> QED
  BY <1>1, <1>2, <1>3, <1>4, PTL DEF GatewaySpec, PacketsInOrder
=============================================================================
