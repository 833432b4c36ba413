---------------------------- MODULE HttpRequest ----------------------------
(***************************************************************************)
(* How httpd_process and path_sendraw, firmware/net/httpd.c, take a        *)
(* request apart: by searching the first packet of the connection for the  *)
(* separators and writing NULs over two of them.  Module Httpd has what is *)
(* done with the result.                                                   *)
(*                                                                         *)
(* The packet lies in a buffer that held other packets before, and some of *)
(* the searches go on past its end.  A request may also come in several    *)
(* packets, of which httpd looks at the first only.                        *)
(*                                                                         *)
(* Characters are their codes.  The separators and paths are parameters,   *)
(* so that short ones can stand for the long ones.                         *)
(***************************************************************************)
EXTENDS Integers, Sequences, FiniteSetsExt

CONSTANTS
  HTTP_GET, HTTP_POST, HTTP_VER, HTTP_BREAK,
  Paths,      \* the paths that have a handler
  SendPath,   \* the path of path_sendraw, among them
  PAYLOADSZ,  \* bytes in a message (16)
  Methods, Urls, Headers, Bodies,  \* what the clients put in their requests
  MemSize,    \* bytes of the buffer
  MaxRequests \* bound: requests received

ASSUME RequestAssumption ==
  /\ HTTP_GET \in Methods /\ SendPath \in Paths
  /\ PAYLOADSZ \in Nat \ {0} /\ MemSize \in Nat /\ MaxRequests \in Nat
  /\ {HTTP_GET, HTTP_POST} \union Methods \union Urls \union Headers \union Bodies \subseteq Seq(Int)
  /\ {HTTP_VER, HTTP_BREAK} \union Paths \subseteq Seq(Int) \ {<< >>}

VARIABLES
  mem,   \* the buffer
  req,   \* the request the client sends
  len,   \* bytes of it in the first packet, 0 before the first
  out,   \* what httpd makes of it; Waiting until it has looked
  count  \* requests so far

vars == <<mem, req, len, out, count>>

NUL == 0
CR == 13
LF == 10
Waiting == [path |-> << >>, msg |-> << >>]

\* A request; without headers the version line ends it.
Whole(q) ==
  q.method \o q.url \o HTTP_VER
    \o (IF q.hdr = << >> THEN <<CR, LF>> ELSE q.hdr \o HTTP_BREAK) \o q.body

AllRequests == [method : Methods, url : Urls, hdr : Headers, body : Bodies]

ASSUME BufferAssumption == \A q \in AllRequests : Len(Whole(q)) <= MemSize

Printable == 32 .. 126
HeaderChar == Printable \union {CR, LF}

\* s stands in t at position i, counted from 0.
StandsIn(s, t, i) == i + Len(s) <= Len(t) /\ \A k \in 1 .. Len(s) : t[i + k] = s[k]

\* A separator may follow the characters it ends, and the methods and paths
\* can be told apart.
ASSUME SeparatorAssumption ==
  /\ HTTP_VER[1] \in Printable /\ HTTP_BREAK[1] \in HeaderChar
  /\ \A s \in {HTTP_GET, HTTP_POST} : \A t \in Methods \ {s} :
       \E k \in DOMAIN s \intersect DOMAIN t : s[k] # t[k]
  /\ \A p \in Paths : \A k \in DOMAIN p : p[k] # NUL

\* The clients send no separator before its place.
ASSUME ClientAssumption ==
  /\ \A u \in Urls :
       /\ \A k \in DOMAIN u : u[k] \in Printable
       /\ \A i \in 0 .. Len(u) - 1 : ~ StandsIn(HTTP_VER, u \o HTTP_VER, i)
  /\ \A h \in Headers :
       /\ \A k \in DOMAIN h : h[k] \in HeaderChar
       /\ \A i \in 0 .. Len(h) - 1 : ~ StandsIn(HTTP_BREAK, h \o HTTP_BREAK, i)
  /\ \A b \in Bodies : \A i \in 0 .. Len(b) + 1 : ~ StandsIn(HTTP_BREAK, <<CR, LF>> \o b, i)

\* Outside the buffer the model reads NUL, which ends every search.
Char(m, i) == IF i \in DOMAIN m THEN m[i] ELSE NUL

Init ==
  /\ mem = [i \in 0 .. MemSize - 1 |-> NUL]
  /\ req = CHOOSE q \in AllRequests : TRUE
  /\ len = 0 /\ out = Waiting /\ count = 0

\* The first packet of a request arrives: all of it the first time, any part
\* of it after that.
Receive ==
  /\ count < MaxRequests /\ (count = 0 \/ out # Waiting)
  /\ \E q \in AllRequests : \E n \in 1 .. Len(Whole(q)) :
       /\ count = 0 => n = Len(Whole(q))
       /\ req' = q /\ len' = n
       /\ mem' = [i \in DOMAIN mem |-> IF i < n THEN Whole(q)[i + 1] ELSE mem[i]]
  /\ out' = Waiting
  /\ count' = count + 1
-----------------------------------------------------------------------------
\* strncmp(s, p, strlen(s)) == 0.
StartsAt(s, m, p) == \A k \in 1 .. Len(s) : Char(m, p + k - 1) = s[k]

\* The bound of a search, len - strlen(s), is unsigned: below 0 it wraps to a
\* number past every end.
Bound(n, s) == IF n < Len(s) THEN MemSize ELSE n - Len(s)

\* Where the search for s from p ends: at the bound, at s, or at a character
\* that is not allowed.
SearchEnd(s, m, p, n, allowed) ==
  Min({Bound(n, s)} \union
      {i \in 0 .. Bound(n, s) : Char(m, p + i) \notin allowed \/ StartsAt(s, m, p + i)})

\* nibble_valid and get_nibble, which takes more letters than are valid.
NibbleValid(ch) == ch \in (48 .. 57) \union (97 .. 102) \union (65 .. 70)
GetNibble(ch) ==
  CASE ch \in 48 .. 57  -> ch - 48
    [] ch \in 97 .. 122 -> ch - 97 + 10
    [] ch \in 65 .. 90  -> ch - 65 + 10
    [] OTHER            -> 0

(* Faulty variants of the definitions below.  Nothing uses them: each shows*)
(* that some property notices when the code is wrong in that way.          *)

FaultyDlen(n, i, j) == 2 * PAYLOADSZ
FaultyTerminated(m, p) == m
-----------------------------------------------------------------------------
\* Bytes after the headers, by the two searches' ends: n counts from url on.
Dlen(n, i, j) == n - i - Len(HTTP_VER) - j - Len(HTTP_BREAK)

\* A NUL is written at p.
Terminated(m, p) == [m EXCEPT ![p] = NUL]

\* path_sendraw: the message it sends, or none.
Sendraw(m, data, dlen) ==
  IF /\ dlen = 2 * PAYLOADSZ
     /\ \A k \in 0 .. dlen - 1 : NibbleValid(Char(m, data + k))
    THEN [k \in 1 .. PAYLOADSZ |->
            16 * GetNibble(Char(m, data + 2 * k - 2)) + GetNibble(Char(m, data + 2 * k - 1))]
    ELSE << >>

Answer(p, msg) == [path |-> p, msg |-> msg]
\* No url has a character of these codes.
Bailout == Answer(<<-1>>, << >>)
NotFound == Answer(<<404>>, << >>)

\* The handler of the path that url equals, up to its NUL.
Dispatch(m, url, data, dlen) ==
  LET Same == {p \in Paths : StartsAt(Append(p, NUL), m, url)} IN
  IF Same = {} THEN NotFound
  ELSE LET p == CHOOSE p \in Same : TRUE
       IN  Answer(p, IF p = SendPath THEN Sendraw(m, data, dlen) ELSE << >>)

\* The search for the version and then, from the end of that, the one for the
\* end of the headers: its bound too is the length from url on.
Requested(url, n) ==
  LET i    == SearchEnd(HTTP_VER, mem, url, n, Printable)
      m1   == IF i < Bound(n, HTTP_VER) THEN Terminated(mem, url + i) ELSE mem
      hdr  == url + i + Len(HTTP_VER)
      j    == SearchEnd(HTTP_BREAK, m1, hdr, n, HeaderChar)
      m2   == IF j < Bound(n, HTTP_BREAK) THEN Terminated(m1, hdr + j) ELSE m1
      data == hdr + j + Len(HTTP_BREAK)
  IN  IF i < Bound(n, HTTP_VER) /\ Char(mem, url + i) \notin Printable
        THEN out' = Bailout /\ mem' = mem
      ELSE IF j < Bound(n, HTTP_BREAK) /\ Char(m1, hdr + j) \notin HeaderChar
        THEN out' = Bailout /\ mem' = m1
      ELSE out' = Dispatch(m2, url, data, Dlen(n, i, j)) /\ mem' = m2

HasMethod(s) == len > Len(s) /\ StartsAt(s, mem, 0)

Process ==
  /\ len > 0 /\ out = Waiting
  /\ IF HasMethod(HTTP_GET) THEN Requested(Len(HTTP_GET), len - Len(HTTP_GET))
     ELSE IF HasMethod(HTTP_POST) THEN Requested(Len(HTTP_POST), len - Len(HTTP_POST))
     ELSE out' = Bailout /\ mem' = mem
  /\ UNCHANGED <<req, len, count>>

Next == Receive \/ Process

Spec == Init /\ [][Next]_vars
-----------------------------------------------------------------------------
(* Safety.                                                                 *)

\* The digits 0-9 and a-f, or A-F, by their value.
LowerDigits == [v \in 0 .. 15 |-> IF v < 10 THEN 48 + v ELSE 87 + v]
UpperDigits == [v \in 0 .. 15 |-> IF v < 10 THEN 48 + v ELSE 55 + v]
Values(ch) == {v \in 0 .. 15 : ch \in {LowerDigits[v], UpperDigits[v]}}
IsHex(s) == \A i \in DOMAIN s : Values(s[i]) # {}
Decoded(s) ==
  [k \in 1 .. PAYLOADSZ |-> 16 * Max(Values(s[2 * k - 1])) + Max(Values(s[2 * k]))]

\* A request with headers that comes in one packet is understood: its path is
\* found, and /sendraw sends exactly the message its hexadecimal body spells,
\* or none, whatever the buffer held before.
ParsedRight ==
  out # Waiting /\ len = Len(Whole(req)) /\ req.method \in {HTTP_GET, HTTP_POST} /\ req.hdr # << >>
    => out = IF req.url \notin Paths THEN NotFound
             ELSE Answer(req.url,
                         IF req.url = SendPath /\ Len(req.body) = 2 * PAYLOADSZ /\ IsHex(req.body)
                           THEN Decoded(req.body) ELSE << >>)

\* However a request is cut off, and whatever an earlier one left behind its
\* end, what is sent is the body this packet brought, never older bytes.
NoStaleMessage ==
  out.msg # << >> =>
    /\ len = Len(Whole([req EXCEPT !.body = SubSeq(@, 1, 2 * PAYLOADSZ)]))
    /\ Len(req.body) >= 2 * PAYLOADSZ
    /\ out.msg = Decoded(req.body)
=============================================================================
