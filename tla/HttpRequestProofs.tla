------------------------- MODULE HttpRequestProofs -------------------------
(***************************************************************************)
(* What the server reads out of a packet, for any separators, paths,       *)
(* requests and size of the buffer, whatever the buffer held before.       *)
(***************************************************************************)
EXTENDS HttpRequest, FiniteSetTheorems, SequenceTheorems, TLAPS

(* Sequences and least elements.                                           *)

\* A set of naturals that is not empty has a least element: of the intervals
\* below its members one contains no other, and intervals are finite.
LEMMA Least ==
  ASSUME NEW S \in SUBSET Nat, S # {}
  PROVE  Min(S) \in S /\ \A y \in S : Min(S) <= y
<1> DEFINE Below == {0 .. x - 1 : x \in S}
           R == StrictSubsetOrdering(Nat)
<1>1. Below \subseteq FiniteSubsetsOf(Nat)
  <2> SUFFICES ASSUME NEW x \in S PROVE 0 .. x - 1 \in FiniteSubsetsOf(Nat)
    OBVIOUS
  <2>1. IsFiniteSet(0 .. x - 1)
    BY FS_Interval
  <2>2. 0 .. x - 1 \in SUBSET Nat
    OBVIOUS
  <2> QED BY <2>1, <2>2 DEF FiniteSubsetsOf
<1>2. IsWellFoundedOn(R, FiniteSubsetsOf(Nat))
  BY FS_StrictSubsetOrderingWellFounded
<1>3. Below # {}
  OBVIOUS
<1>4. PICK b \in Below : \A c \in Below : <<c, b>> \notin R
  <2> HIDE DEF Below, R
  <2> QED BY <1>1, <1>2, <1>3, WFMin
<1>5. PICK x \in S : b = 0 .. x - 1
  BY <1>4
<1>6. ASSUME NEW y \in S PROVE x <= y
  <2> SUFFICES ASSUME y < x PROVE FALSE
    OBVIOUS
  <2>1. 0 .. y - 1 \subseteq 0 .. x - 1 /\ 0 .. y - 1 # 0 .. x - 1
    <3>1. y \in 0 .. x - 1 /\ y \notin 0 .. y - 1
      OBVIOUS
    <3>2. 0 .. y - 1 \subseteq 0 .. x - 1
      OBVIOUS
    <3> QED BY <3>1, <3>2
  <2>2. 0 .. y - 1 \in SUBSET Nat /\ 0 .. x - 1 \in SUBSET Nat
    OBVIOUS
  <2>3. <<0 .. y - 1, 0 .. x - 1>> \in R
    BY <2>1, <2>2 DEF StrictSubsetOrdering
  <2> QED BY <2>3, <1>4, <1>5
<1> QED BY <1>6 DEF Min

\* The elements of a concatenation, by their place.
LEMMA Joined ==
  ASSUME NEW s \in Seq(Int), NEW t \in Seq(Int)
  PROVE  /\ s \o t \in Seq(Int) /\ Len(s \o t) = Len(s) + Len(t)
         /\ Len(s) \in Nat /\ Len(t) \in Nat
         /\ \A x \in 1 .. Len(s) : (s \o t)[x] = s[x]
         /\ \A x \in Len(s) + 1 .. Len(s) + Len(t) : (s \o t)[x] = t[x - Len(s)]
<1>1. Len(s) \in Nat /\ Len(t) \in Nat
  BY LenProperties
<1>2. \A x \in 1 .. Len(s) + Len(t) : (s \o t)[x] = IF x <= Len(s) THEN s[x] ELSE t[x - Len(s)]
  BY ConcatProperties
<1>3. ASSUME NEW x \in Len(s) + 1 .. Len(s) + Len(t) PROVE (s \o t)[x] = t[x - Len(s)]
  BY <1>1, <1>2
<1> QED BY <1>1, <1>2, <1>3, ConcatProperties

\* The second part of a concatenation stands behind the first.
LEMMA StandsLast ==
  ASSUME NEW s \in Seq(Int), NEW t \in Seq(Int)
  PROVE  StandsIn(t, s \o t, Len(s))
<1>1. ASSUME NEW k \in 1 .. Len(t) PROVE (s \o t)[Len(s) + k] = t[k]
  <2>1. PICK x : x = Len(s) + k
    OBVIOUS
  <2>2. x \in Len(s) + 1 .. Len(s) + Len(t) /\ x - Len(s) = k
    BY <2>1, Joined
  <2> QED BY <2>1, <2>2, Joined
<1> QED BY <1>1, Joined DEF StandsIn

\* What stands in the first part stands in the concatenation.
LEMMA StandsFirst ==
  ASSUME NEW s \in Seq(Int), NEW t \in Seq(Int), NEW u \in Seq(Int), NEW n \in Nat, StandsIn(u, s, n)
  PROVE  StandsIn(u, s \o t, n)
<1>1. Len(u) \in Nat
  BY LenProperties
<1>2. ASSUME NEW k \in 1 .. Len(u) PROVE (s \o t)[n + k] = u[k]
  <2>1. PICK x : x = n + k
    OBVIOUS
  <2>2. x \in 1 .. Len(s)
    BY <2>1, <1>1, Joined DEF StandsIn
  <2> QED BY <2>1, <2>2, Joined DEF StandsIn
<1> QED BY <1>1, <1>2, Joined DEF StandsIn

\* Two sequences that stand side by side.
LEMMA StandsJoined ==
  ASSUME NEW s \in Seq(Int), NEW t \in Seq(Int), NEW w, NEW n \in Nat,
         StandsIn(s, w, n), StandsIn(t, w, n + Len(s))
  PROVE  StandsIn(s \o t, w, n)
<1>1. ASSUME NEW k \in 1 .. Len(s \o t) PROVE w[n + k] = (s \o t)[k]
  <2>1. CASE k <= Len(s)
    BY <2>1, Joined DEF StandsIn
  <2>2. CASE k > Len(s)
    <3>1. PICK x : x = k - Len(s)
      OBVIOUS
    <3>2. x \in 1 .. Len(t) /\ k = Len(s) + x /\ n + k = (n + Len(s)) + x
      BY <2>2, <3>1, Joined
    <3>3. w[n + k] = t[x]
      BY <3>2 DEF StandsIn
    <3>4. (s \o t)[k] = t[x]
      BY <2>2, <3>1, <3>2, Joined
    <3> QED BY <3>3, <3>4
  <2> QED BY <2>1, <2>2, Joined
<1> QED BY <1>1, Joined DEF StandsIn

\* Of two sequences that stand in a third the shorter may stand in the longer.
LEMMA StandsWithin ==
  ASSUME NEW s \in Seq(Int), NEW t \in Seq(Int), NEW w, NEW n \in Nat, NEW i \in Nat,
         StandsIn(t, w, n), StandsIn(s, w, n + i), i + Len(s) <= Len(t)
  PROVE  StandsIn(s, t, i)
<1>1. Len(s) \in Nat /\ Len(t) \in Nat
  BY LenProperties
<1>2. ASSUME NEW k \in 1 .. Len(s) PROVE t[i + k] = s[k]
  <2>1. PICK x : x = i + k
    OBVIOUS
  <2>2. x \in 1 .. Len(t) /\ n + x = (n + i) + k
    BY <2>1, <1>1
  <2>3. w[n + x] = t[x] /\ w[(n + i) + k] = s[k]
    BY <2>2 DEF StandsIn
  <2> QED BY <2>1, <2>2, <2>3
<1> QED BY <1>2 DEF StandsIn

\* What stands in a sequence stands wherever that stands.
LEMMA StandsThrough ==
  ASSUME NEW s \in Seq(Int), NEW t \in Seq(Int), NEW w, NEW n \in Nat, NEW i \in Nat,
         StandsIn(t, w, n), StandsIn(s, t, i), Len(w) \in Nat
  PROVE  StandsIn(s, w, n + i)
<1>1. Len(s) \in Nat /\ Len(t) \in Nat
  BY LenProperties
<1>2. ASSUME NEW k \in 1 .. Len(s) PROVE w[(n + i) + k] = s[k]
  <2>1. PICK x : x = i + k
    OBVIOUS
  <2>2. x \in 1 .. Len(t) /\ n + x = (n + i) + k
    <3>1. i + Len(s) <= Len(t)
      BY DEF StandsIn
    <3> QED BY <3>1, <2>1, <1>1
  <2>3. w[n + x] = t[x] /\ t[i + k] = s[k]
    BY <2>2 DEF StandsIn
  <2> QED BY <2>1, <2>2, <2>3
<1> QED BY <1>1, <1>2 DEF StandsIn

\* A separator that ends a, and is not in it before, first stands at its end.
LEMMA FirstPlace ==
  ASSUME NEW a \in Seq(Int), NEW s \in Seq(Int), NEW w, Len(w) \in Nat, NEW p \in Nat, NEW i \in Nat,
         StandsIn(a \o s, w, p), \A x \in 0 .. Len(a) - 1 : ~ StandsIn(s, a \o s, x),
         StandsIn(s, w, p + i), \A x \in 0 .. i - 1 : ~ StandsIn(s, w, p + x)
  PROVE  i = Len(a)
<1>1. a \o s \in Seq(Int) /\ Len(a \o s) = Len(a) + Len(s) /\ Len(a) \in Nat /\ Len(s) \in Nat
  BY Joined
<1>2. StandsIn(s, w, p + Len(a))
  BY <1>1, StandsLast, StandsThrough
<1>3. i <= Len(a)
  BY <1>1, <1>2
<1>4. ASSUME i < Len(a) PROVE FALSE
  <2>1. i + Len(s) <= Len(a \o s)
    BY <1>1, <1>4
  <2>2. StandsIn(s, a \o s, i)
    BY <1>1, <2>1, StandsWithin
  <2> QED BY <2>2, <1>1, <1>4
<1> QED BY <1>1, <1>3, <1>4

\* What follows the version line, up to the body.
Rest(q) == IF q.hdr = << >> THEN <<CR, LF>> ELSE q.hdr \o HTTP_BREAK

AnyRequest == [method : Seq(Int), url : Seq(Int), hdr : Seq(Int), body : Seq(Int)]

LEMMA Constants ==
  /\ AllRequests \subseteq AnyRequest
  /\ HTTP_GET \in Seq(Int) /\ HTTP_POST \in Seq(Int) /\ HTTP_VER \in Seq(Int) /\ HTTP_BREAK \in Seq(Int)
  /\ Len(HTTP_VER) \in Nat \ {0} /\ Len(HTTP_BREAK) \in Nat \ {0}
  /\ Len(HTTP_GET) \in Nat /\ Len(HTTP_POST) \in Nat
  /\ PAYLOADSZ \in Nat \ {0} /\ MemSize \in Nat
<1>1. HTTP_VER \in Seq(Int) \ {<< >>} /\ HTTP_BREAK \in Seq(Int) \ {<< >>}
  BY RequestAssumption
<1>2. Len(HTTP_VER) \in Nat \ {0} /\ Len(HTTP_BREAK) \in Nat \ {0}
  BY <1>1, EmptySeq, LenProperties
<1>3. HTTP_GET \in Seq(Int) /\ HTTP_POST \in Seq(Int)
  BY RequestAssumption
<1>4. AllRequests \subseteq AnyRequest
  BY RequestAssumption DEF AllRequests, AnyRequest
<1> QED BY <1>1, <1>2, <1>3, <1>4, RequestAssumption, LenProperties

\* The lengths of a request's parts.
Lengths(q, M, U, V, H, B) ==
  /\ M = Len(q.method) /\ U = Len(q.url) /\ V = Len(HTTP_VER) /\ H = Len(Rest(q)) /\ B = Len(q.body)
  /\ M \in Nat /\ U \in Nat /\ V \in Nat \ {0} /\ H \in Nat \ {0} /\ B \in Nat

LEMMA HaveLengths ==
  ASSUME NEW q \in AnyRequest
  PROVE  /\ \E M, U, V, H, B : Lengths(q, M, U, V, H, B)
         /\ Rest(q) \in Seq(Int)
         /\ Len(Rest(q)) = IF q.hdr = << >> THEN 2 ELSE Len(q.hdr) + Len(HTTP_BREAK)
<1>1. q.method \in Seq(Int) /\ q.url \in Seq(Int) /\ q.body \in Seq(Int) /\ q.hdr \in Seq(Int)
  BY DEF AnyRequest
<1>2. /\ Rest(q) \in Seq(Int) /\ Len(Rest(q)) \in Nat \ {0}
      /\ Len(Rest(q)) = IF q.hdr = << >> THEN 2 ELSE Len(q.hdr) + Len(HTTP_BREAK)
  <2>1. CASE q.hdr = << >>
    <3>1. <<CR, LF>> \in Seq(Int) /\ Len(<<CR, LF>>) = 2
      BY DEF CR, LF
    <3> QED BY <2>1, <3>1 DEF Rest
  <2>2. CASE q.hdr # << >>
    <3>1. Rest(q) = q.hdr \o HTTP_BREAK
      BY <2>2 DEF Rest
    <3> QED BY <2>2, <3>1, <1>1, Constants, Joined
  <2> QED BY <2>1, <2>2
<1> QED BY <1>1, <1>2, Constants, LenProperties DEF Lengths

\* A request, part by part.
LEMMA Parts ==
  ASSUME NEW q \in AnyRequest, NEW M, NEW U, NEW V, NEW H, NEW B, Lengths(q, M, U, V, H, B)
  PROVE  /\ Whole(q) \in Seq(Int) /\ Len(Whole(q)) = M + U + V + H + B
         /\ StandsIn(q.method, Whole(q), 0)
         /\ StandsIn(q.url, Whole(q), M)
         /\ StandsIn(HTTP_VER, Whole(q), M + U)
         /\ StandsIn(Rest(q), Whole(q), M + U + V)
         /\ StandsIn(q.body, Whole(q), M + U + V + H)
<1>1. /\ q.method \in Seq(Int) /\ q.url \in Seq(Int) /\ q.body \in Seq(Int)
      /\ HTTP_VER \in Seq(Int) /\ Rest(q) \in Seq(Int)
  BY Constants, HaveLengths DEF AnyRequest
<1>2. /\ Len(q.method) = M /\ Len(q.url) = U /\ Len(HTTP_VER) = V /\ Len(Rest(q)) = H /\ Len(q.body) = B
      /\ M \in Nat /\ U \in Nat /\ V \in Nat /\ H \in Nat /\ B \in Nat
      /\ M + U \in Nat /\ M + U + V \in Nat /\ M + U + V + H \in Nat
  <2>1. M \in Nat /\ U \in Nat /\ V \in Nat /\ H \in Nat /\ B \in Nat
    BY DEF Lengths
  <2>2. M + U \in Nat /\ M + U + V \in Nat /\ M + U + V + H \in Nat
    BY <2>1
  <2> QED BY <2>1, <2>2 DEF Lengths
<1>3. PICK s2 : s2 = q.method \o q.url
  OBVIOUS
<1>4. PICK s3 : s3 = s2 \o HTTP_VER
  OBVIOUS
<1>5. PICK s4 : s4 = s3 \o Rest(q)
  OBVIOUS
<1>6. Whole(q) = s4 \o q.body
  BY <1>3, <1>4, <1>5 DEF Whole, Rest
<1>7. /\ s2 \in Seq(Int) /\ Len(s2) = M + U
      /\ StandsIn(q.method, s2, 0) /\ StandsIn(q.url, s2, M)
  <2>1. StandsIn(q.method, q.method, 0)
    BY <1>2 DEF StandsIn
  <2> QED BY <2>1, <1>1, <1>2, <1>3, Joined, StandsFirst, StandsLast
<1>8. /\ s3 \in Seq(Int) /\ Len(s3) = M + U + V
      /\ StandsIn(q.method, s3, 0) /\ StandsIn(q.url, s3, M) /\ StandsIn(HTTP_VER, s3, M + U)
  <2>1. StandsIn(HTTP_VER, s3, M + U)
    BY <1>1, <1>2, <1>4, <1>7, StandsLast
  <2>2. StandsIn(q.method, s3, 0) /\ StandsIn(q.url, s3, M)
    BY <1>1, <1>2, <1>4, <1>7, StandsFirst
  <2>3. s3 \in Seq(Int) /\ Len(s3) = M + U + V
    <3>1. s2 \o HTTP_VER \in Seq(Int) /\ Len(s2 \o HTTP_VER) = Len(s2) + Len(HTTP_VER)
      BY <1>1, <1>7, Joined
    <3> QED BY <3>1, <1>2, <1>4, <1>7
  <2> QED BY <2>1, <2>2, <2>3
<1>9. /\ s4 \in Seq(Int) /\ Len(s4) = M + U + V + H
      /\ StandsIn(q.method, s4, 0) /\ StandsIn(q.url, s4, M) /\ StandsIn(HTTP_VER, s4, M + U)
      /\ StandsIn(Rest(q), s4, M + U + V)
  <2>1. StandsIn(Rest(q), s4, M + U + V)
    BY <1>1, <1>2, <1>5, <1>8, StandsLast
  <2>2. StandsIn(q.method, s4, 0) /\ StandsIn(q.url, s4, M) /\ StandsIn(HTTP_VER, s4, M + U)
    BY <1>1, <1>2, <1>5, <1>8, StandsFirst
  <2>3. s4 \in Seq(Int) /\ Len(s4) = M + U + V + H
    <3>1. s3 \o Rest(q) \in Seq(Int) /\ Len(s3 \o Rest(q)) = Len(s3) + Len(Rest(q))
      BY <1>1, <1>8, Joined
    <3> QED BY <3>1, <1>2, <1>5, <1>8
  <2> QED BY <2>1, <2>2, <2>3
<1>10. StandsIn(q.body, Whole(q), M + U + V + H)
  BY <1>1, <1>2, <1>6, <1>9, StandsLast
<1>11. /\ StandsIn(q.method, Whole(q), 0) /\ StandsIn(q.url, Whole(q), M)
       /\ StandsIn(HTTP_VER, Whole(q), M + U) /\ StandsIn(Rest(q), Whole(q), M + U + V)
  BY <1>1, <1>2, <1>6, <1>9, StandsFirst
<1>12. Whole(q) \in Seq(Int) /\ Len(Whole(q)) = M + U + V + H + B
  <2>1. s4 \o q.body \in Seq(Int) /\ Len(s4 \o q.body) = Len(s4) + Len(q.body)
    BY <1>1, <1>9, Joined
  <2> QED BY <2>1, <1>2, <1>6, <1>9
<1> QED BY <1>10, <1>11, <1>12
-----------------------------------------------------------------------------
(* The parser's operators.                                                 *)

\* A search ends at the bound, or at what it looks for, or at a character it
\* does not allow; before its end there is neither.
LEMMA SearchResult ==
  ASSUME NEW s \in Seq(Int), NEW m, NEW p, NEW n \in Nat, NEW allowed,
         NEW e, e = SearchEnd(s, m, p, n, allowed)
  PROVE  /\ e \in 0 .. Bound(n, s) /\ Bound(n, s) \in Nat
         /\ e < Bound(n, s) => Char(m, p + e) \notin allowed \/ StartsAt(s, m, p + e)
         /\ \A i \in 0 .. e - 1 : Char(m, p + i) \in allowed /\ ~ StartsAt(s, m, p + i)
<1>1. Bound(n, s) \in Nat
  BY Constants, LenProperties DEF Bound
<1>2. PICK b \in Nat : b = Bound(n, s)
  BY <1>1
<1>3. PICK S : S = {b} \union {i \in 0 .. b : Char(m, p + i) \notin allowed \/ StartsAt(s, m, p + i)}
  OBVIOUS
<1>4. e = Min(S)
  BY <1>2, <1>3 DEF SearchEnd
<1>5. S \in SUBSET Nat /\ S # {}
  BY <1>3
<1>6. e \in S /\ \A y \in S : e <= y
  BY <1>4, <1>5, Least
<1>7. e \in 0 .. b
  BY <1>3, <1>6
<1>8. e < b => Char(m, p + e) \notin allowed \/ StartsAt(s, m, p + e)
  BY <1>3, <1>6, <1>7
<1>9. ASSUME NEW i \in 0 .. e - 1 PROVE Char(m, p + i) \in allowed /\ ~ StartsAt(s, m, p + i)
  <2>1. i \in 0 .. b /\ ~ (e <= i)
    BY <1>7
  <2>2. i \notin S
    BY <2>1, <1>6
  <2> QED BY <2>1, <2>2, <1>3
<1> QED BY <1>2, <1>7, <1>8, <1>9

\* Where the buffer has the characters of a sequence, a string starts at a
\* place exactly if it stands there in the sequence.
LEMMA StartsStands ==
  ASSUME NEW s \in Seq(Int), NEW m, NEW w, NEW p \in Nat, p + Len(s) <= Len(w),
         \A x \in p .. p + Len(s) - 1 : Char(m, x) = w[x + 1]
  PROVE  StartsAt(s, m, p) <=> StandsIn(s, w, p)
<1>1. Len(s) \in Nat
  BY LenProperties
<1>2. ASSUME NEW k \in 1 .. Len(s) PROVE Char(m, p + k - 1) = w[p + k]
  <2>1. PICK x : x = p + k - 1
    OBVIOUS
  <2>2. x \in p .. p + Len(s) - 1 /\ x + 1 = p + k
    BY <2>1, <1>1
  <2>3. Char(m, x) = w[x + 1]
    BY <2>2
  <2> QED BY <2>1, <2>2, <2>3
<1> QED BY <1>2 DEF StartsAt, StandsIn

\* A digit has one value, the one get_nibble gives it.
LEMMA Digit ==
  ASSUME NEW ch
  PROVE  /\ NibbleValid(ch) <=> Values(ch) # {}
         /\ NibbleValid(ch) => Max(Values(ch)) = GetNibble(ch)
<1>1. ASSUME NibbleValid(ch) PROVE Values(ch) = {GetNibble(ch)}
  <2>1. CASE ch \in 48 .. 57
    BY <2>1 DEF Values, GetNibble, LowerDigits, UpperDigits
  <2>2. CASE ch \in 97 .. 102
    BY <2>2 DEF Values, GetNibble, LowerDigits, UpperDigits
  <2>3. CASE ch \in 65 .. 70
    BY <2>3 DEF Values, GetNibble, LowerDigits, UpperDigits
  <2> QED BY <1>1, <2>1, <2>2, <2>3 DEF NibbleValid
<1>2. ASSUME Values(ch) # {} PROVE NibbleValid(ch)
  <2>1. PICK v \in 0 .. 15 : ch \in {LowerDigits[v], UpperDigits[v]}
    BY <1>2 DEF Values
  <2>2. CASE v < 10
    BY <2>1, <2>2 DEF LowerDigits, UpperDigits, NibbleValid
  <2>3. CASE v >= 10
    BY <2>1, <2>3 DEF LowerDigits, UpperDigits, NibbleValid
  <2> QED BY <2>2, <2>3
<1>3. ASSUME NibbleValid(ch) PROVE GetNibble(ch) \in Int
  BY <1>3 DEF NibbleValid, GetNibble
<1>4. ASSUME NibbleValid(ch) PROVE Max(Values(ch)) = GetNibble(ch)
  BY <1>1, <1>3, <1>4 DEF Max
<1> QED BY <1>1, <1>2, <1>4

\* path_sendraw sends what the digits it is given spell.
LEMMA SendsDecoded ==
  ASSUME NEW m, NEW data \in Nat, NEW dlen, NEW t,
         dlen = 2 * PAYLOADSZ => \A k \in 1 .. 2 * PAYLOADSZ : Char(m, data + k - 1) = t[k]
  PROVE  Sendraw(m, data, dlen) =
           IF dlen = 2 * PAYLOADSZ /\ \A k \in 1 .. 2 * PAYLOADSZ : Values(t[k]) # {}
             THEN Decoded(t) ELSE << >>
<1>1. PAYLOADSZ \in Nat
  BY Constants
<1>2. CASE dlen # 2 * PAYLOADSZ
  BY <1>2 DEF Sendraw
<1>3. CASE dlen = 2 * PAYLOADSZ
  <2>1. (\A k \in 0 .. dlen - 1 : NibbleValid(Char(m, data + k)))
          <=> \A k \in 1 .. 2 * PAYLOADSZ : Values(t[k]) # {}
    <3>1. ASSUME \A k \in 0 .. dlen - 1 : NibbleValid(Char(m, data + k)), NEW k \in 1 .. 2 * PAYLOADSZ
          PROVE  Values(t[k]) # {}
      <4>1. k - 1 \in 0 .. dlen - 1 /\ data + (k - 1) = data + k - 1
        BY <1>1, <1>3
      <4>2. NibbleValid(Char(m, data + (k - 1)))
        BY <3>1, <4>1
      <4> QED BY <4>1, <4>2, <1>3, Digit
    <3>2. ASSUME \A k \in 1 .. 2 * PAYLOADSZ : Values(t[k]) # {}, NEW k \in 0 .. dlen - 1
          PROVE  NibbleValid(Char(m, data + k))
      <4>1. k + 1 \in 1 .. 2 * PAYLOADSZ /\ data + (k + 1) - 1 = data + k
        BY <1>1, <1>3
      <4>2. Values(t[k + 1]) # {} /\ Char(m, data + (k + 1) - 1) = t[k + 1]
        BY <3>2, <4>1, <1>3
      <4> QED BY <4>1, <4>2, Digit
    <3> QED BY <3>1, <3>2
  <2>2. ASSUME \A k \in 1 .. 2 * PAYLOADSZ : Values(t[k]) # {}, NEW k \in 1 .. PAYLOADSZ
        PROVE  /\ GetNibble(Char(m, data + 2 * k - 2)) = Max(Values(t[2 * k - 1]))
               /\ GetNibble(Char(m, data + 2 * k - 1)) = Max(Values(t[2 * k]))
    <3>1. 2 * k - 1 \in 1 .. 2 * PAYLOADSZ /\ 2 * k \in 1 .. 2 * PAYLOADSZ
      BY <1>1
    <3>2. data + (2 * k - 1) - 1 = data + 2 * k - 2 /\ data + (2 * k) - 1 = data + 2 * k - 1
      OBVIOUS
    <3>3. Char(m, data + (2 * k - 1) - 1) = t[2 * k - 1] /\ Char(m, data + (2 * k) - 1) = t[2 * k]
      BY <3>1, <1>3
    <3>4. Values(t[2 * k - 1]) # {} /\ Values(t[2 * k]) # {}
      BY <3>1, <2>2
    <3> QED BY <3>2, <3>3, <3>4, Digit
  <2> QED BY <1>3, <2>1, <2>2 DEF Sendraw, Decoded
<1> QED BY <1>2, <1>3
-----------------------------------------------------------------------------
(* The invariant.                                                          *)

TypeInv ==
  /\ DOMAIN mem = 0 .. MemSize - 1
  /\ len \in Nat
  /\ len > 0 => req \in AllRequests /\ len <= Len(Whole(req))

\* A packet that httpd has not looked at lies in the buffer as it came.
Packet ==
  out = Waiting => \A x \in 0 .. len - 1 : Char(mem, x) = Whole(req)[x + 1]

\* Where the searches of httpd_process end, and what they leave in the buffer.
Parse(url, n, i, m1, j, m2) ==
  /\ i = SearchEnd(HTTP_VER, mem, url, n, Printable)
  /\ m1 = IF i < Bound(n, HTTP_VER) THEN Terminated(mem, url + i) ELSE mem
  /\ j = SearchEnd(HTTP_BREAK, m1, url + i + Len(HTTP_VER), n, HeaderChar)
  /\ m2 = IF j < Bound(n, HTTP_BREAK) THEN Terminated(m1, url + i + Len(HTTP_VER) + j) ELSE m1

\* Neither search ended at a character that is not allowed.
Clean(url, n, i, m1, j) ==
  /\ i < Bound(n, HTTP_VER) => Char(mem, url + i) \in Printable
  /\ j < Bound(n, HTTP_BREAK) => Char(m1, url + i + Len(HTTP_VER) + j) \in HeaderChar

DataAt(url, i, j) == url + i + Len(HTTP_VER) + j + Len(HTTP_BREAK)

LEMMA Parsed ==
  ASSUME NEW url, NEW n, Requested(url, n)
  PROVE  \E i, m1, j, m2 :
           /\ Parse(url, n, i, m1, j, m2)
           /\ mem' \in {mem, m1, m2}
           /\ ~ Clean(url, n, i, m1, j) => out' = Bailout
           /\ Clean(url, n, i, m1, j) =>
                out' = Dispatch(m2, url, DataAt(url, i, j), Dlen(n, i, j))
<1>1. PICK i : i = SearchEnd(HTTP_VER, mem, url, n, Printable)
  OBVIOUS
<1>2. PICK m1 : m1 = IF i < Bound(n, HTTP_VER) THEN Terminated(mem, url + i) ELSE mem
  OBVIOUS
<1>3. PICK j : j = SearchEnd(HTTP_BREAK, m1, url + i + Len(HTTP_VER), n, HeaderChar)
  OBVIOUS
<1>4. PICK m2 : m2 = IF j < Bound(n, HTTP_BREAK) THEN Terminated(m1, url + i + Len(HTTP_VER) + j) ELSE m1
  OBVIOUS
<1>5. Parse(url, n, i, m1, j, m2)
  BY <1>1, <1>2, <1>3, <1>4 DEF Parse
<1>6. /\ mem' \in {mem, m1, m2}
      /\ ~ Clean(url, n, i, m1, j) => out' = Bailout
      /\ Clean(url, n, i, m1, j) =>
           out' = Dispatch(m2, url, DataAt(url, i, j), Dlen(n, i, j))
  BY <1>1, <1>2, <1>3, <1>4 DEF Requested, Clean, DataAt
<1> QED BY <1>5, <1>6

\* The buffer keeps its extent, and its characters but for the NULs.
LEMMA ParseMem ==
  ASSUME TypeInv, NEW url \in Nat, NEW n \in Nat, NEW i, NEW m1, NEW j, NEW m2,
         Parse(url, n, i, m1, j, m2)
  PROVE  /\ i \in Nat /\ j \in Nat
         /\ DOMAIN m1 = DOMAIN mem /\ DOMAIN m2 = DOMAIN mem
         /\ \A x \in Nat : x # url + i => Char(m1, x) = Char(mem, x)
         /\ \A x \in Nat :
              x # url + i /\ x # url + i + Len(HTTP_VER) + j => Char(m2, x) = Char(mem, x)
<1>1. i \in Nat /\ j \in Nat
  BY Constants, SearchResult DEF Parse
<1>2. DOMAIN m1 = DOMAIN mem /\ \A x \in Nat : x # url + i => Char(m1, x) = Char(mem, x)
  BY DEF Parse, Terminated, Char
<1>3. /\ DOMAIN m2 = DOMAIN m1
      /\ \A x \in Nat : x # url + i + Len(HTTP_VER) + j => Char(m2, x) = Char(m1, x)
  BY DEF Parse, Terminated, Char
<1> QED BY <1>1, <1>2, <1>3

\* A packet in the buffer that httpd looks at.
Looking == TypeInv /\ Packet /\ len > 0 /\ out = Waiting

\* The packet is the beginning of the request.
LEMMA PacketFacts ==
  ASSUME Looking
  PROVE  /\ req \in AllRequests /\ req \in AnyRequest
         /\ Whole(req) \in Seq(Int) /\ len \in Nat /\ len <= Len(Whole(req)) /\ Len(Whole(req)) <= MemSize
         /\ Len(Whole(req)) \in Nat
         /\ \A x \in 0 .. len - 1 : Char(mem, x) = Whole(req)[x + 1]
<1>1. req \in AllRequests /\ req \in AnyRequest /\ len \in Nat /\ len <= Len(Whole(req))
  BY Constants DEF Looking, TypeInv
<1>2. Whole(req) \in Seq(Int)
  BY <1>1, HaveLengths, Parts
<1> QED BY <1>1, <1>2, BufferAssumption, LenProperties DEF Looking, Packet

\* httpd knows the method exactly if it is the one the client sent.
LEMMA MethodKnown ==
  ASSUME Looking, NEW s \in {HTTP_GET, HTTP_POST}
  PROVE  /\ HasMethod(s) => req.method = s
         /\ len = Len(Whole(req)) /\ req.method = s => HasMethod(s)
<1>1. s \in Seq(Int) /\ Len(s) \in Nat
  BY Constants
<1>2. PICK M, U, V, H, B : Lengths(req, M, U, V, H, B)
  BY PacketFacts, HaveLengths
<1>3. StandsIn(req.method, Whole(req), 0)
  BY <1>2, PacketFacts, Parts
<1>4. ASSUME Len(s) < len PROVE StartsAt(s, mem, 0) <=> StandsIn(s, Whole(req), 0)
  <2>1. 0 + Len(s) <= Len(Whole(req))
    BY <1>1, <1>4, PacketFacts
  <2>2. \A x \in 0 .. 0 + Len(s) - 1 : Char(mem, x) = Whole(req)[x + 1]
    BY <1>1, <1>4, PacketFacts
  <2> QED BY <1>1, <2>1, <2>2, StartsStands
<1>5. ASSUME HasMethod(s), req.method # s PROVE FALSE
  <2>1. StandsIn(s, Whole(req), 0)
    BY <1>1, <1>4, <1>5, PacketFacts DEF HasMethod
  <2>2. req.method \in Methods \ {s} /\ req.method \in Seq(Int)
    BY <1>5, PacketFacts DEF AllRequests, AnyRequest
  <2>3. PICK k \in DOMAIN s \intersect DOMAIN req.method : s[k] # req.method[k]
    BY <2>2, SeparatorAssumption
  <2>4. k \in 1 .. Len(s) /\ k \in 1 .. Len(req.method) /\ 0 + k = k
    BY <1>1, <2>2, LenProperties
  <2>5. Whole(req)[0 + k] = s[k] /\ Whole(req)[0 + k] = req.method[k]
    BY <1>3, <2>1, <2>4 DEF StandsIn
  <2> QED BY <2>3, <2>5
<1>6. ASSUME len = Len(Whole(req)), req.method = s PROVE HasMethod(s)
  <2>1. Len(s) < len
    <3>1. Len(Whole(req)) = M + U + V + H + B
      BY <1>2, PacketFacts, Parts
    <3>2. M = Len(s)
      BY <1>2, <1>6 DEF Lengths
    <3> QED BY <3>1, <3>2, <1>2, <1>6 DEF Lengths
  <2> QED BY <2>1, <1>3, <1>4, <1>6, PacketFacts DEF HasMethod
<1> QED BY <1>5, <1>6

\* When a whole message is left behind the headers, the separators were found
\* in the packet, each at its first place, and the message is its end.
LEMMA MessageEnds ==
  ASSUME Looking, NEW url \in Nat, url <= len, NEW i, NEW m1, NEW j, NEW m2,
         NEW V, V = Len(HTTP_VER), NEW K, K = Len(HTTP_BREAK), NEW n, n = len - url,
         NEW W, W = Whole(req), NEW hdr, hdr = url + i + V,
         Parse(url, n, i, m1, j, m2), Clean(url, n, i, m1, j), Dlen(n, i, j) = 2 * PAYLOADSZ
  PROVE  /\ i \in Nat /\ j \in Nat
         /\ DataAt(url, i, j) = hdr + j + K /\ hdr + j + K + 2 * PAYLOADSZ = len
         /\ \A x \in hdr + j + K .. len - 1 : Char(m2, x) = W[x + 1]
         /\ StandsIn(HTTP_VER, W, url + i)
         /\ \A x \in 0 .. i - 1 : ~ StandsIn(HTTP_VER, W, url + x)
         /\ StandsIn(HTTP_BREAK, W, hdr + j)
         /\ \A x \in 0 .. j - 1 : ~ StandsIn(HTTP_BREAK, W, hdr + x)
<1>1. V \in Nat \ {0} /\ K \in Nat \ {0} /\ PAYLOADSZ \in Nat \ {0} /\ n \in Nat /\ len \in Nat
  BY Constants, PacketFacts
<1>2. /\ i \in Nat /\ j \in Nat
      /\ \A x \in Nat : x # url + i => Char(m1, x) = Char(mem, x)
      /\ \A x \in Nat : x # url + i /\ x # hdr + j => Char(m2, x) = Char(mem, x)
  BY <1>1, ParseMem DEF Looking
<1>3. hdr \in Nat /\ DataAt(url, i, j) = hdr + j + K /\ hdr + j + K + 2 * PAYLOADSZ = len
  BY <1>1, <1>2 DEF DataAt, Dlen
<1>4. Bound(n, HTTP_VER) = n - V /\ i < n - V /\ Bound(n, HTTP_BREAK) = n - K /\ j < n - K
  BY <1>1, <1>2, <1>3 DEF Bound
<1>5. \A x \in 0 .. len - 1 : Char(mem, x) = W[x + 1]
  BY PacketFacts
<1>6. ASSUME NEW x \in Nat, x >= hdr, x < len PROVE Char(m1, x) = W[x + 1]
  BY <1>6, <1>1, <1>2, <1>5
<1>7. ASSUME NEW x \in hdr + j + K .. len - 1 PROVE Char(m2, x) = W[x + 1]
  <2>1. x \in Nat /\ x \in 0 .. len - 1 /\ x # url + i /\ x # hdr + j
    BY <1>1, <1>2, <1>3
  <2> QED BY <2>1, <1>2, <1>5
<1>8. ASSUME NEW x \in 0 .. i PROVE StartsAt(HTTP_VER, mem, url + x) <=> StandsIn(HTTP_VER, W, url + x)
  <2>1. url + x \in Nat /\ url + x + V <= len /\ len <= Len(W) /\ Len(W) \in Nat
    BY <1>1, <1>2, <1>4, PacketFacts
  <2>2. \A y \in url + x .. url + x + V - 1 : Char(mem, y) = W[y + 1]
    BY <2>1, <1>1, <1>5
  <2>3. url + x + V <= Len(W)
    BY <2>1, <1>1
  <2> QED BY <2>1, <2>2, <2>3, Constants, StartsStands
<1>9. ASSUME NEW x \in 0 .. j PROVE StartsAt(HTTP_BREAK, m1, hdr + x) <=> StandsIn(HTTP_BREAK, W, hdr + x)
  <2>1. hdr + x \in Nat /\ hdr + x + K <= len /\ len <= Len(W) /\ Len(W) \in Nat
    <3>1. len <= Len(W) /\ Len(W) \in Nat
      BY PacketFacts
    <3> QED BY <3>1, <1>1, <1>2, <1>3
  <2>2. \A y \in hdr + x .. hdr + x + K - 1 : Char(m1, y) = W[y + 1]
    BY SMTT(20), <2>1, <1>1, <1>3, <1>6
  <2>3. hdr + x + K <= Len(W)
    BY <2>1, <1>1
  <2> QED BY <2>1, <2>2, <2>3, Constants, StartsStands
<1>10. /\ StartsAt(HTTP_VER, mem, url + i)
       /\ \A x \in 0 .. i - 1 : ~ StartsAt(HTTP_VER, mem, url + x)
  <2>1. i = SearchEnd(HTTP_VER, mem, url, n, Printable)
    BY DEF Parse
  <2>2. /\ Char(mem, url + i) \notin Printable \/ StartsAt(HTTP_VER, mem, url + i)
        /\ \A x \in 0 .. i - 1 : ~ StartsAt(HTTP_VER, mem, url + x)
    BY SMTT(20), <2>1, <1>1, <1>4, Constants, SearchResult
  <2> QED BY <2>2, <1>4 DEF Clean
<1>11. /\ StartsAt(HTTP_BREAK, m1, hdr + j)
       /\ \A x \in 0 .. j - 1 : ~ StartsAt(HTTP_BREAK, m1, hdr + x)
  <2>1. j = SearchEnd(HTTP_BREAK, m1, hdr, n, HeaderChar)
    BY DEF Parse
  <2>2. /\ Char(m1, hdr + j) \notin HeaderChar \/ StartsAt(HTTP_BREAK, m1, hdr + j)
        /\ \A x \in 0 .. j - 1 : ~ StartsAt(HTTP_BREAK, m1, hdr + x)
    BY <2>1, <1>1, <1>4, Constants, SearchResult
  <2> QED BY <2>2, <1>4 DEF Clean
<1>12. /\ StandsIn(HTTP_VER, W, url + i)
       /\ \A x \in 0 .. i - 1 : ~ StandsIn(HTTP_VER, W, url + x)
  <2>1. i \in 0 .. i /\ 0 .. i - 1 \subseteq 0 .. i
    BY <1>2
  <2> QED BY <2>1, <1>8, <1>10
<1>13. /\ StandsIn(HTTP_BREAK, W, hdr + j)
       /\ \A x \in 0 .. j - 1 : ~ StandsIn(HTTP_BREAK, W, hdr + x)
  <2>1. j \in 0 .. j /\ 0 .. j - 1 \subseteq 0 .. j
    BY <1>2
  <2> QED BY <2>1, <1>9, <1>11
<1> QED BY <1>2, <1>3, <1>7, <1>12, <1>13

\* In a request the separators first stand where the client put them.
LEMMA SeparatorPlaces ==
  ASSUME NEW q \in AllRequests, NEW M, NEW U, NEW V, NEW H, NEW B, Lengths(q, M, U, V, H, B),
         NEW W, W = Whole(q), NEW i \in Nat, NEW j \in Nat,
         StandsIn(HTTP_VER, W, M + i), \A x \in 0 .. i - 1 : ~ StandsIn(HTTP_VER, W, M + x),
         StandsIn(HTTP_BREAK, W, M + i + V + j),
         \A x \in 0 .. j - 1 : ~ StandsIn(HTTP_BREAK, W, M + i + V + x)
  PROVE  i = U /\ q.hdr # << >> /\ j + Len(HTTP_BREAK) = H
<1>1. /\ q \in AnyRequest /\ q.url \in Urls /\ q.hdr \in Headers /\ q.body \in Bodies
      /\ q.url \in Seq(Int) /\ q.hdr \in Seq(Int) /\ q.body \in Seq(Int)
  BY Constants DEF AllRequests, AnyRequest
<1>2. /\ M \in Nat /\ U \in Nat /\ V \in Nat /\ H \in Nat /\ B \in Nat
      /\ U = Len(q.url) /\ V = Len(HTTP_VER) /\ H = Len(Rest(q)) /\ B = Len(q.body)
  BY DEF Lengths
<1>3. /\ W \in Seq(Int) /\ Len(W) = M + U + V + H + B
      /\ StandsIn(q.url, W, M) /\ StandsIn(HTTP_VER, W, M + U)
      /\ StandsIn(Rest(q), W, M + U + V) /\ StandsIn(q.body, W, M + U + V + H)
  BY <1>1, Parts
<1>4. Len(W) \in Nat
  BY <1>3, LenProperties
<1>5. i = U
  <2>1. StandsIn(q.url \o HTTP_VER, W, M)
    BY <1>1, <1>2, <1>3, Constants, StandsJoined
  <2>2. \A x \in 0 .. Len(q.url) - 1 : ~ StandsIn(HTTP_VER, q.url \o HTTP_VER, x)
    BY <1>1, ClientAssumption
  <2> QED BY <2>1, <2>2, <1>1, <1>2, <1>4, Constants, FirstPlace
<1>6. PICK p \in Nat : p = M + U + V
  BY <1>2
<1>7. /\ StandsIn(Rest(q), W, p) /\ StandsIn(q.body, W, p + H) /\ StandsIn(HTTP_BREAK, W, p + j)
      /\ \A x \in 0 .. j - 1 : ~ StandsIn(HTTP_BREAK, W, p + x)
      /\ Len(W) = p + H + B
  BY <1>2, <1>3, <1>5, <1>6
<1>8. CASE q.hdr = << >>
  <2>1. PICK r : r = <<CR, LF>>
    OBVIOUS
  <2>2. r \in Seq(Int) /\ Len(r) = 2 /\ Rest(q) = r /\ H = 2
    BY <1>2, <1>8, <2>1 DEF Rest, CR, LF
  <2>3. StandsIn(r \o q.body, W, p)
    BY <1>1, <1>7, <2>2, StandsJoined
  <2>4. r \o q.body \in Seq(Int) /\ Len(r \o q.body) = 2 + B
    <3>1. r \o q.body \in Seq(Int) /\ Len(r \o q.body) = Len(r) + Len(q.body)
      BY <1>1, <2>2, Joined
    <3> QED BY <3>1, <1>2, <2>2
  <2>5. j + Len(HTTP_BREAK) <= 2 + B
    <3>1. p + j + Len(HTTP_BREAK) <= Len(W)
      BY <1>7 DEF StandsIn
    <3>2. Len(W) = p + 2 + B
      BY <1>7, <2>2
    <3>3. Len(HTTP_BREAK) \in Nat
      BY Constants
    <3>4. j \in Nat /\ B \in Nat /\ p \in Nat
      BY <1>2, <1>6
    <3> QED BY <3>1, <3>2, <3>3, <3>4
  <2>6. StandsIn(HTTP_BREAK, r \o q.body, j)
    BY <1>7, <2>3, <2>4, <2>5, Constants, StandsWithin
  <2>7. j \in 0 .. Len(q.body) + 1
    BY <1>2, <2>5, Constants
  <2> QED BY <1>1, <2>1, <2>6, <2>7, ClientAssumption
<1>9. CASE q.hdr # << >>
  <2>1. Rest(q) = q.hdr \o HTTP_BREAK
    BY <1>9 DEF Rest
  <2>2. \A x \in 0 .. Len(q.hdr) - 1 : ~ StandsIn(HTTP_BREAK, q.hdr \o HTTP_BREAK, x)
    BY <1>1, ClientAssumption
  <2>3. j = Len(q.hdr)
    <3>1. StandsIn(q.hdr \o HTTP_BREAK, W, p)
      BY <1>7, <2>1
    <3> QED BY <3>1, <1>1, <1>4, <1>7, <2>2, Constants, FirstPlace
  <2>4. H = Len(q.hdr) + Len(HTTP_BREAK)
    BY <1>1, <1>2, <2>1, Constants, Joined
  <2> QED BY <1>5, <1>9, <2>3, <2>4
<1> QED BY <1>8, <1>9

\* A search for the separator that ends a finds it there.
LEMMA SearchFinds ==
  ASSUME NEW a \in Seq(Int), NEW s \in Seq(Int), Len(s) > 0, NEW m, NEW p \in Nat, NEW n \in Nat, NEW allowed,
         Len(a) < Bound(n, s),
         NEW w, Len(w) \in Nat, StandsIn(a \o s, w, p),
         \A x \in p .. p + Len(a) + Len(s) - 1 : Char(m, x) = w[x + 1],
         \A k \in DOMAIN a : a[k] \in allowed, s[1] \in allowed,
         \A x \in 0 .. Len(a) - 1 : ~ StandsIn(s, a \o s, x)
  PROVE  SearchEnd(s, m, p, n, allowed) = Len(a) /\ Char(m, p + Len(a)) \in allowed
<1>0. PICK e : e = SearchEnd(s, m, p, n, allowed)
  OBVIOUS
<1>1. a \o s \in Seq(Int) /\ Len(a \o s) = Len(a) + Len(s) /\ Len(a) \in Nat /\ Len(s) \in Nat
  BY Joined
<1>2. /\ e \in Nat /\ Bound(n, s) \in Nat
      /\ e < Bound(n, s) => Char(m, p + e) \notin allowed \/ StartsAt(s, m, p + e)
      /\ \A x \in 0 .. e - 1 : ~ StartsAt(s, m, p + x)
  BY <1>0, SearchResult
<1>3. ASSUME NEW x \in 0 .. Len(a) PROVE StartsAt(s, m, p + x) <=> StandsIn(s, w, p + x)
  <2>1. p + x \in Nat /\ p + x + Len(s) <= Len(w)
    BY <1>1 DEF StandsIn
  <2>2. \A y \in p + x .. p + x + Len(s) - 1 : Char(m, y) = w[y + 1]
    <3> SUFFICES ASSUME NEW y \in p + x .. p + x + Len(s) - 1 PROVE Char(m, y) = w[y + 1]
      OBVIOUS
    <3>1. y \in p .. p + Len(a) + Len(s) - 1
      BY <1>1
    <3> QED BY <3>1
  <2> QED BY <2>1, <2>2, StartsStands
<1>4. StandsIn(s, w, p + Len(a))
  BY <1>1, StandsLast, StandsThrough
<1>5. e <= Len(a)
  <2> SUFFICES ASSUME e > Len(a) PROVE FALSE
    BY <1>1, <1>2
  <2>1. Len(a) \in 0 .. e - 1 /\ Len(a) \in 0 .. Len(a)
    BY <1>1, <1>2
  <2> QED BY <2>1, <1>2, <1>3, <1>4
<1>6. ASSUME NEW k \in 1 .. Len(a) + Len(s) PROVE Char(m, p + k - 1) = (a \o s)[k]
  <2>1. PICK x : x = p + k - 1
    OBVIOUS
  <2>2. x \in p .. p + Len(a) + Len(s) - 1 /\ x + 1 = p + k
    BY <1>1, <2>1
  <2>3. w[p + k] = (a \o s)[k]
    BY <1>1 DEF StandsIn
  <2> QED BY <2>1, <2>2, <2>3
<1>7. ASSUME e < Len(a) PROVE FALSE
  <2>1. e + 1 \in 1 .. Len(a) /\ p + (e + 1) - 1 = p + e /\ e \in 0 .. Len(a) - 1
    BY <1>1, <1>2, <1>7
  <2>2. Char(m, p + e) = a[e + 1]
    <3>1. Char(m, p + (e + 1) - 1) = (a \o s)[e + 1]
      <4>1. e + 1 \in 1 .. Len(a) + Len(s)
        BY <2>1, <1>1
      <4> QED BY <4>1, <1>6
    <3>2. (a \o s)[e + 1] = a[e + 1]
      BY <2>1, Joined
    <3> QED BY <2>1, <3>1, <3>2
  <2>3. Char(m, p + e) \in allowed
    BY <2>1, <2>2, LenProperties
  <2>4. StandsIn(s, w, p + e)
    <3>1. StartsAt(s, m, p + e)
      BY <2>3, <1>1, <1>2, <1>7
    <3>2. e \in 0 .. Len(a)
      BY <1>1, <1>2, <1>7
    <3> QED BY <3>1, <3>2, <1>3
  <2>5. e + Len(s) <= Len(a \o s)
    BY <1>1, <1>7, <1>2
  <2>6. StandsIn(s, a \o s, e)
    BY <1>1, <1>2, <2>4, <2>5, StandsWithin
  <2> QED BY <2>1, <2>6
<1>8. e = Len(a)
  BY <1>1, <1>2, <1>5, <1>7
<1>9. Char(m, p + e) = s[1]
  <2>1. PICK k : k = Len(a) + 1
    OBVIOUS
  <2>2. k \in 1 .. Len(a) + Len(s) /\ k \in Len(a) + 1 .. Len(a) + Len(s) /\ k - Len(a) = 1 /\ p + k - 1 = p + e
    BY <1>1, <1>8, <2>1
  <2>3. Char(m, p + k - 1) = (a \o s)[k]
    BY <2>2, <1>6
  <2>4. (a \o s)[k] = s[1]
    BY <2>2, Joined
  <2> QED BY <2>2, <2>3, <2>4
<1> QED BY <1>8, <1>9, <1>0
-----------------------------------------------------------------------------
(* What is sent.                                                           *)

\* A message is taken from the packet that httpd looks at: it is its last
\* bytes, which are digits, and the headers end before them.
LastBytes == SubSeq(Whole(req), len - 2 * PAYLOADSZ + 1, len)
FromPacket ==
  out.msg # << >> => len >= 2 * PAYLOADSZ /\ IsHex(LastBytes) /\ out.msg = Decoded(LastBytes)

\* One look at a request whose method is known.
LEMMA Look ==
  ASSUME Looking, NEW s \in {HTTP_GET, HTTP_POST}, HasMethod(s), Requested(Len(s), len - Len(s))
  PROVE  /\ DOMAIN mem' = DOMAIN mem
         /\ \E i, m1, j, m2 :
              /\ Parse(Len(s), len - Len(s), i, m1, j, m2)
              /\ ~ Clean(Len(s), len - Len(s), i, m1, j) => out' = Bailout
              /\ Clean(Len(s), len - Len(s), i, m1, j) =>
                   out' = Dispatch(m2, Len(s), DataAt(Len(s), i, j), Dlen(len - Len(s), i, j))
<1>1. Len(s) \in Nat /\ len - Len(s) \in Nat
  BY Constants, PacketFacts DEF HasMethod
<1>2. PICK i, m1, j, m2 :
        /\ Parse(Len(s), len - Len(s), i, m1, j, m2)
        /\ mem' \in {mem, m1, m2}
        /\ ~ Clean(Len(s), len - Len(s), i, m1, j) => out' = Bailout
        /\ Clean(Len(s), len - Len(s), i, m1, j) =>
             out' = Dispatch(m2, Len(s), DataAt(Len(s), i, j), Dlen(len - Len(s), i, j))
  BY Parsed
<1>3. DOMAIN mem' = DOMAIN mem
  BY <1>1, <1>2, ParseMem DEF Looking
<1> QED BY <1>2, <1>3

\* Whatever the dispatcher finds, httpd has then looked.
LEMMA Answered ==
  ASSUME NEW m, NEW url, NEW data, NEW dlen, NEW o, o = Dispatch(m, url, data, dlen)
  PROVE  /\ o # Waiting
         /\ o.msg # << >> => o.msg = Sendraw(m, data, dlen)
<1>1. CASE o = NotFound
  BY <1>1 DEF NotFound, Answer, Waiting
<1>2. CASE o # NotFound
  <2>1. PICK p \in Paths : o = Answer(p, IF p = SendPath THEN Sendraw(m, data, dlen) ELSE << >>)
    BY <1>2 DEF Dispatch
  <2>2. p # << >>
    BY RequestAssumption
  <2> QED BY <2>1, <2>2 DEF Answer, Waiting
<1> QED BY <1>1, <1>2

\* The separators that the searches found are in the packet, at their first
\* places.
FirstSeparators(url, i, j) ==
  /\ i \in Nat /\ j \in Nat
  /\ StandsIn(HTTP_VER, Whole(req), url + i)
  /\ \A x \in 0 .. i - 1 : ~ StandsIn(HTTP_VER, Whole(req), url + x)
  /\ StandsIn(HTTP_BREAK, Whole(req), url + i + Len(HTTP_VER) + j)
  /\ \A x \in 0 .. j - 1 : ~ StandsIn(HTTP_BREAK, Whole(req), url + i + Len(HTTP_VER) + x)

\* A look at a request sends the end of its packet or nothing.
LEMMA LookSends ==
  ASSUME Looking, NEW s \in {HTTP_GET, HTTP_POST}, HasMethod(s), Requested(Len(s), len - Len(s)),
         out'.msg # << >>
  PROVE  /\ len >= 2 * PAYLOADSZ /\ IsHex(LastBytes) /\ out'.msg = Decoded(LastBytes)
         /\ Len(s) \in Nat /\ len \in Nat
         /\ \E i, j :
              /\ FirstSeparators(Len(s), i, j)
              /\ DataAt(Len(s), i, j) + 2 * PAYLOADSZ = len
              /\ \A t : (\A k \in 1 .. 2 * PAYLOADSZ : t[k] = Whole(req)[DataAt(Len(s), i, j) + k])
                        => out'.msg = Decoded(t)
<1>1. PICK u : u = Len(s)
  OBVIOUS
<1>2. PICK n : n = len - u
  OBVIOUS
<1>3. PICK W : W = Whole(req)
  OBVIOUS
<1>4. PICK P : P = 2 * PAYLOADSZ
  OBVIOUS
<1>5. PICK i, m1, j, m2 :
        /\ Parse(u, n, i, m1, j, m2)
        /\ ~ Clean(u, n, i, m1, j) => out' = Bailout
        /\ Clean(u, n, i, m1, j) => out' = Dispatch(m2, u, DataAt(u, i, j), Dlen(n, i, j))
  BY <1>1, <1>2, Look
<1>7. u \in Nat /\ u <= len /\ len \in Nat /\ n \in Nat /\ P \in Nat \ {0} /\ PAYLOADSZ \in Nat
  <2>1. u \in Nat /\ len \in Nat /\ PAYLOADSZ \in Nat \ {0}
    BY <1>1, Constants, PacketFacts
  <2>2. u <= len
    BY <2>1, <1>1 DEF HasMethod
  <2> QED BY <2>1, <2>2, <1>2, <1>4
<1>8. /\ W \in Seq(Int) /\ Len(W) \in Nat /\ len <= Len(W)
  BY <1>3, PacketFacts
<1>9. Clean(u, n, i, m1, j) /\ out' = Dispatch(m2, u, DataAt(u, i, j), Dlen(n, i, j))
  BY <1>5 DEF Bailout, Answer
<1>10. out'.msg = Sendraw(m2, DataAt(u, i, j), Dlen(n, i, j))
  BY <1>9, Answered
<1>11. Dlen(n, i, j) = P
  BY <1>4, <1>10 DEF Sendraw
<1>12. PICK V : V = Len(HTTP_VER)
  OBVIOUS
<1>13. PICK K : K = Len(HTTP_BREAK)
  OBVIOUS
<1>14. PICK hdr : hdr = u + i + V
  OBVIOUS
<1>15. PICK data : data = hdr + j + K
  OBVIOUS
<1>16. /\ i \in Nat /\ j \in Nat
       /\ DataAt(u, i, j) = data /\ data + P = len
       /\ \A x \in data .. len - 1 : Char(m2, x) = W[x + 1]
       /\ StandsIn(HTTP_VER, W, u + i)
       /\ \A x \in 0 .. i - 1 : ~ StandsIn(HTTP_VER, W, u + x)
       /\ StandsIn(HTTP_BREAK, W, hdr + j)
       /\ \A x \in 0 .. j - 1 : ~ StandsIn(HTTP_BREAK, W, hdr + x)
  BY SMTT(20), <1>1, <1>2, <1>3, <1>4, <1>5, <1>7, <1>9, <1>11, <1>12, <1>13, <1>14, <1>15, MessageEnds
<1>17. data \in Nat /\ V \in Nat \ {0} /\ K \in Nat \ {0}
  <2>1. V \in Nat \ {0} /\ K \in Nat \ {0}
    BY <1>12, <1>13, Constants
  <2>2. i \in Nat /\ j \in Nat
    BY <1>16
  <2> QED BY <2>1, <2>2, <1>7, <1>14, <1>15
<1>18. ASSUME NEW t, \A k \in 1 .. P : t[k] = W[data + k]
       PROVE  out'.msg = Decoded(t) /\ \A k \in 1 .. P : Values(t[k]) # {}
  <2>1. ASSUME NEW k \in 1 .. P PROVE Char(m2, data + k - 1) = t[k]
    <3>1. PICK x : x = data + k - 1
      OBVIOUS
    <3>2. x \in data .. len - 1 /\ x + 1 = data + k
      BY <3>1, <1>7, <1>16, <1>17
    <3> QED BY <3>1, <3>2, <1>16, <1>18
  <2>2. Sendraw(m2, data, P) = IF P = 2 * PAYLOADSZ /\ \A k \in 1 .. 2 * PAYLOADSZ : Values(t[k]) # {}
                                 THEN Decoded(t) ELSE << >>
    <3>1. P = 2 * PAYLOADSZ => \A k \in 1 .. 2 * PAYLOADSZ : Char(m2, data + k - 1) = t[k]
      BY <2>1, <1>4
    <3>2. data \in Nat
      BY <1>17
    <3> QED BY <3>1, <3>2, SendsDecoded
  <2> QED BY <2>2, <1>4, <1>10, <1>11, <1>16
<1>19. len >= P /\ IsHex(LastBytes) /\ out'.msg = Decoded(LastBytes)
  <2>1. LastBytes = SubSeq(W, data + 1, len) /\ data + P = len
    <3>1. LastBytes = SubSeq(W, len - P + 1, len)
      BY <1>3, <1>4 DEF LastBytes
    <3>2. data + P = len
      BY <1>16
    <3>3. len - P + 1 = data + 1
      BY <3>2, <1>7, <1>17
    <3> QED BY <3>1, <3>2, <3>3
  <2>2. /\ LastBytes \in Seq(Int) /\ Len(LastBytes) = P
        /\ \A k \in 1 .. P : LastBytes[k] = W[data + k]
    <3>1. data + 1 \in Int /\ len \in Int /\ \A k \in data + 1 .. len : W[k] \in Int
      BY <2>1, <1>7, <1>8, <1>17, ElementOfSeq
    <3>2. /\ SubSeq(W, data + 1, len) \in Seq(Int)
          /\ Len(SubSeq(W, data + 1, len)) = P
          /\ \A k \in 1 .. len - (data + 1) + 1 : SubSeq(W, data + 1, len)[k] = W[data + 1 + k - 1]
      BY <3>1, <2>1, <1>7, <1>17, SubSeqProperties
    <3>3. \A k \in 1 .. P : k \in 1 .. len - (data + 1) + 1 /\ data + 1 + k - 1 = data + k
      BY <2>1, <1>7, <1>17
    <3> QED BY <2>1, <3>2, <3>3
  <2>3. out'.msg = Decoded(LastBytes) /\ \A k \in 1 .. P : Values(LastBytes[k]) # {}
    BY <2>2, <1>18
  <2>4. DOMAIN LastBytes = 1 .. P
    BY <2>2, LenProperties
  <2>5. len >= P
    BY <2>1, <1>7, <1>17
  <2> QED BY <2>3, <2>4, <2>5 DEF IsHex
<1>20. FirstSeparators(u, i, j)
  BY <1>3, <1>12, <1>14, <1>16 DEF FirstSeparators
<1>21. DataAt(u, i, j) + P = len
  BY <1>16
<1>22. \A t : (\A k \in 1 .. P : t[k] = Whole(req)[DataAt(u, i, j) + k]) => out'.msg = Decoded(t)
  BY <1>3, <1>16, <1>18
<1> QED BY <1>1, <1>4, <1>7, <1>19, <1>20, <1>21, <1>22

\* What is sent is the body, and no more than the body's first message has
\* come.
LEMMA LookSendsBody ==
  ASSUME Looking, NEW s \in {HTTP_GET, HTTP_POST}, HasMethod(s), Requested(Len(s), len - Len(s)),
         out'.msg # << >>
  PROVE  /\ len = Len(Whole([req EXCEPT !.body = SubSeq(@, 1, 2 * PAYLOADSZ)]))
         /\ Len(req.body) >= 2 * PAYLOADSZ
         /\ out'.msg = Decoded(req.body)
<1>1. PICK u : u = Len(s)
  OBVIOUS
<1>2. PICK W : W = Whole(req)
  OBVIOUS
<1>3. PICK P : P = 2 * PAYLOADSZ
  OBVIOUS
<1>4. PICK i, j :
        /\ FirstSeparators(u, i, j) /\ DataAt(u, i, j) + P = len
        /\ \A t : (\A k \in 1 .. P : t[k] = W[DataAt(u, i, j) + k]) => out'.msg = Decoded(t)
  BY <1>1, <1>2, <1>3, LookSends
<1>5. req.method = s /\ req \in AllRequests /\ req \in AnyRequest
  BY MethodKnown, PacketFacts
<1>6. /\ u \in Nat /\ len \in Nat /\ P \in Nat /\ P > 0
      /\ W \in Seq(Int) /\ Len(W) \in Nat /\ len <= Len(W)
  BY <1>1, <1>2, <1>3, Constants, PacketFacts
<1>7. PICK M, U, V, H, B : Lengths(req, M, U, V, H, B)
  BY <1>5, HaveLengths
<1>8. M = u /\ V = Len(HTTP_VER) /\ B = Len(req.body)
  BY <1>1, <1>5, <1>7 DEF Lengths
<1>9. U \in Nat /\ V \in Nat /\ H \in Nat /\ B \in Nat
  BY <1>7 DEF Lengths
<1>10. Len(W) = M + U + V + H + B /\ StandsIn(req.body, W, M + U + V + H)
  BY <1>2, <1>5, <1>7, Parts
<1>11. PICK K : K = Len(HTTP_BREAK)
  OBVIOUS
<1>12. i = U /\ j + K = H
  <2>1. /\ i \in Nat /\ j \in Nat
        /\ StandsIn(HTTP_VER, W, M + i) /\ \A x \in 0 .. i - 1 : ~ StandsIn(HTTP_VER, W, M + x)
        /\ StandsIn(HTTP_BREAK, W, M + i + V + j)
        /\ \A x \in 0 .. j - 1 : ~ StandsIn(HTTP_BREAK, W, M + i + V + x)
    BY <1>2, <1>4, <1>8 DEF FirstSeparators
  <2> QED BY <2>1, <1>2, <1>5, <1>7, <1>11, SeparatorPlaces
<1>13. PICK data : data = DataAt(u, i, j)
  OBVIOUS
<1>14. data = M + U + V + H /\ len = M + U + V + H + P /\ P <= B
  <2>1. data = u + i + V + j + K
    BY <1>8, <1>11, <1>13 DEF DataAt
  <2>2. data + P = len
    BY <1>4, <1>13
  <2>3. j \in Nat /\ K \in Nat
    BY <1>4, <1>11, Constants DEF FirstSeparators
  <2>4. data = u + U + V + H
    BY <2>1, <2>3, <1>6, <1>9, <1>12
  <2>5. M = u
    BY <1>8
  <2> QED BY <2>2, <2>4, <2>5, <1>6, <1>9, <1>10
<1>15. out'.msg = Decoded(req.body)
  <2>1. ASSUME NEW k \in 1 .. P PROVE req.body[k] = W[data + k]
    <3>1. k \in 1 .. B
      BY <1>6, <1>9, <1>14
    <3> QED BY <3>1, <1>8, <1>10, <1>14 DEF StandsIn
  <2> QED BY <2>1, <1>4, <1>13
<1>16. len = Len(Whole([req EXCEPT !.body = SubSeq(@, 1, P)]))
  <2>1. PICK c : c = [req EXCEPT !.body = SubSeq(@, 1, P)]
    OBVIOUS
  <2>2. SubSeq(req.body, 1, P) \in Seq(Int) /\ Len(SubSeq(req.body, 1, P)) = P
    <3>1. req.body \in Seq(Int)
      BY <1>5 DEF AnyRequest
    <3> QED BY SMTT(20), <3>1, <1>6, <1>8, <1>9, <1>14, SubSeqProperties
  <2>3. c \in AnyRequest /\ c.method = req.method /\ c.url = req.url /\ c.hdr = req.hdr
        /\ c.body = SubSeq(req.body, 1, P)
    BY <1>5, <2>1, <2>2 DEF AnyRequest
  <2>4. Lengths(c, M, U, V, H, P)
    BY <2>2, <2>3, <1>6, <1>7 DEF Lengths, Rest
  <2>5. Len(Whole(c)) = M + U + V + H + P
    BY <2>3, <2>4, Parts
  <2> QED BY <2>1, <2>5, <1>14
<1> QED BY <1>3, <1>8, <1>14, <1>15, <1>16

\* With a NUL behind it in the buffer, the url is compared as a whole.
LEMMA PathFound ==
  ASSUME NEW a \in Seq(Int), \A k \in DOMAIN a : a[k] # NUL,
         NEW p \in Seq(Int), \A k \in DOMAIN p : p[k] # NUL,
         NEW m, NEW u \in Nat, \A k \in 1 .. Len(a) : Char(m, u + k - 1) = a[k], Char(m, u + Len(a)) = NUL
  PROVE  StartsAt(Append(p, NUL), m, u) <=> p = a
<1>1. Len(a) \in Nat /\ Len(p) \in Nat /\ DOMAIN a = 1 .. Len(a) /\ DOMAIN p = 1 .. Len(p)
  BY LenProperties
<1>2. /\ Len(Append(p, NUL)) = Len(p) + 1
      /\ \A k \in 1 .. Len(p) : Append(p, NUL)[k] = p[k]
      /\ Append(p, NUL)[Len(p) + 1] = NUL
  BY AppendProperties DEF NUL
<1>3. ASSUME StartsAt(Append(p, NUL), m, u) PROVE p = a
  <2>1. \A k \in 1 .. Len(p) + 1 : Char(m, u + k - 1) = Append(p, NUL)[k]
    BY <1>2, <1>3 DEF StartsAt
  <2>2. ASSUME Len(p) < Len(a) PROVE FALSE
    <3>1. PICK k : k = Len(p) + 1
      OBVIOUS
    <3>2. k \in 1 .. Len(p) + 1 /\ k \in 1 .. Len(a)
      BY <3>1, <1>1, <2>2
    <3>3. a[k] = NUL
      BY <3>1, <3>2, <2>1, <1>2
    <3> QED BY <3>2, <3>3, <1>1
  <2>3. ASSUME Len(a) < Len(p) PROVE FALSE
    <3>1. PICK k : k = Len(a) + 1
      OBVIOUS
    <3>2. k \in 1 .. Len(p) + 1 /\ k \in 1 .. Len(p) /\ u + k - 1 = u + Len(a)
      BY <3>1, <1>1, <2>3
    <3>3. p[k] = NUL
      BY <3>2, <2>1, <1>2
    <3> QED BY <3>2, <3>3, <1>1
  <2>4. Len(p) = Len(a)
    <3>1. Len(p) \in Nat /\ Len(a) \in Nat
      BY <1>1
    <3> QED BY <2>2, <2>3, <3>1
  <2>5. ASSUME NEW k \in 1 .. Len(p) PROVE p[k] = a[k]
    <3>1. k \in 1 .. Len(p) + 1 /\ k \in 1 .. Len(a)
      BY <2>4, <1>1
    <3> QED BY <3>1, <2>1, <1>2
  <2> QED BY <2>4, <2>5, SeqEqual
<1>4. ASSUME p = a, NEW k \in 1 .. Len(p) + 1 PROVE Char(m, u + k - 1) = Append(p, NUL)[k]
  <2>1. CASE k \in 1 .. Len(p)
    BY <2>1, <1>2, <1>4
  <2>2. CASE k = Len(p) + 1
    <3>1. u + k - 1 = u + Len(a)
      BY <2>2, <1>1, <1>4
    <3> QED BY <3>1, <2>2, <1>2
  <2> QED BY <2>1, <2>2, <1>1
<1> QED BY <1>2, <1>3, <1>4 DEF StartsAt

\* A look at a whole request with headers understands it.
LEMMA LookFull ==
  ASSUME Looking, NEW s \in {HTTP_GET, HTTP_POST}, HasMethod(s), Requested(Len(s), len - Len(s)),
         len = Len(Whole(req)), req.hdr # << >>
  PROVE  out' = IF req.url \notin Paths THEN NotFound
                ELSE Answer(req.url,
                            IF req.url = SendPath /\ Len(req.body) = 2 * PAYLOADSZ /\ IsHex(req.body)
                              THEN Decoded(req.body) ELSE << >>)
<1>1. PICK u : u = Len(s)
  OBVIOUS
<1>2. PICK n : n = len - u
  OBVIOUS
<1>3. PICK W : W = Whole(req)
  OBVIOUS
<1>4. PICK K : K = Len(HTTP_BREAK)
  OBVIOUS
<1>5. PICK i, m1, j, m2 :
        /\ Parse(u, n, i, m1, j, m2)
        /\ ~ Clean(u, n, i, m1, j) => out' = Bailout
        /\ Clean(u, n, i, m1, j) => out' = Dispatch(m2, u, DataAt(u, i, j), Dlen(n, i, j))
  BY <1>1, <1>2, Look
<1>6. /\ req.method = s /\ req \in AllRequests /\ req \in AnyRequest
      /\ req.url \in Urls /\ req.hdr \in Headers
      /\ req.url \in Seq(Int) /\ req.hdr \in Seq(Int) /\ req.body \in Seq(Int)
  BY MethodKnown, PacketFacts DEF AllRequests, AnyRequest
<1>7. PICK M, U, V, H, B : Lengths(req, M, U, V, H, B)
  BY <1>6, HaveLengths
<1>8. /\ u \in Nat /\ U \in Nat /\ V \in Nat /\ V > 0 /\ H \in Nat /\ B \in Nat /\ K \in Nat /\ K > 0
  BY <1>1, <1>4, <1>7, Constants DEF Lengths
<1>9. /\ M = u /\ U = Len(req.url) /\ V = Len(HTTP_VER) /\ B = Len(req.body) /\ H = Len(Rest(req))
  BY <1>1, <1>6, <1>7 DEF Lengths
<1>10. PICK h \in Nat : h = Len(req.hdr) /\ H = h + K
  <2>1. Len(Rest(req)) = Len(req.hdr) + Len(HTTP_BREAK)
    BY <1>6, HaveLengths
  <2> QED BY <2>1, <1>4, <1>6, <1>9, LenProperties
<1>11. h \in Nat /\ H = h + K
  BY <1>10
<1>12. /\ StandsIn(req.url, W, u) /\ StandsIn(HTTP_VER, W, u + U)
       /\ StandsIn(req.hdr \o HTTP_BREAK, W, u + U + V) /\ StandsIn(req.body, W, u + U + V + H)
       /\ Len(W) = u + U + V + H + B
  <2>1. Rest(req) = req.hdr \o HTTP_BREAK
    BY DEF Rest
  <2>2. /\ StandsIn(req.url, W, M) /\ StandsIn(HTTP_VER, W, M + U)
        /\ StandsIn(Rest(req), W, M + U + V) /\ StandsIn(req.body, W, M + U + V + H)
        /\ Len(W) = M + U + V + H + B
    BY <1>3, <1>6, <1>7, Parts
  <2>3. M = u
    BY <1>9
  <2> QED BY <2>1, <2>2, <2>3
<1>13. len = u + U + V + H + B /\ n = U + V + H + B /\ len <= MemSize
  <2>1. len = Len(W) /\ len <= MemSize
    BY <1>3, PacketFacts
  <2>2. len = u + U + V + H + B
    BY <2>1, <1>12
  <2> QED BY <2>1, <2>2, <1>2, <1>8
<1>14. MemSize \in Nat /\ Len(W) \in Nat /\ n \in Nat
  BY <1>3, <1>8, <1>13, Constants, PacketFacts
<1>15. \A x \in 0 .. len - 1 : Char(mem, x) = W[x + 1]
  BY <1>3, PacketFacts
<1>16. Bound(n, HTTP_VER) = n - V /\ U < n - V /\ Bound(n, HTTP_BREAK) = n - K /\ h < n - K
  <2>1. U < n - V /\ h < n - K /\ ~ (n < V) /\ ~ (n < K)
    BY <1>8, <1>11, <1>13
  <2>2. V = Len(HTTP_VER) /\ K = Len(HTTP_BREAK)
    BY <1>4, <1>9
  <2> QED BY <2>1, <2>2 DEF Bound
<1>17. i = U /\ Char(mem, u + i) \in Printable
  <2>1. StandsIn(req.url \o HTTP_VER, W, u)
    BY <1>6, <1>8, <1>9, <1>12, Constants, StandsJoined
  <2>2. i = SearchEnd(HTTP_VER, mem, u, n, Printable)
    BY <1>5 DEF Parse
  <2>3. /\ \A k \in DOMAIN req.url : req.url[k] \in Printable
        /\ \A x \in 0 .. Len(req.url) - 1 : ~ StandsIn(HTTP_VER, req.url \o HTTP_VER, x)
    BY <1>6, ClientAssumption
  <2>4. \A x \in u .. u + Len(req.url) + Len(HTTP_VER) - 1 : Char(mem, x) = W[x + 1]
    <3>1. \A x \in u .. u + U + V - 1 : x \in 0 .. len - 1
      BY <1>8, <1>13
    <3> QED BY <3>1, <1>9, <1>15
  <2>5. /\ n \in Nat /\ Len(req.url) < Bound(n, HTTP_VER) /\ Len(HTTP_VER) > 0 /\ Len(W) \in Nat
        /\ HTTP_VER \in Seq(Int) /\ HTTP_VER[1] \in Printable
    BY <1>9, <1>14, <1>16, Constants, SeparatorAssumption
  <2>6. /\ SearchEnd(HTTP_VER, mem, u, n, Printable) = Len(req.url)
        /\ Char(mem, u + Len(req.url)) \in Printable
    <3>1. u \in Nat /\ req.url \in Seq(Int)
      BY <1>6, <1>8
    <3> QED BY <3>1, <2>1, <2>3, <2>4, <2>5, SearchFinds
  <2> QED BY <2>2, <2>6, <1>9
<1>18. m1 = Terminated(mem, u + U)
  BY <1>5, <1>16, <1>17 DEF Parse
<1>19. /\ DOMAIN m1 = 0 .. MemSize - 1 /\ Char(m1, u + U) = NUL
       /\ \A x \in 0 .. len - 1 : x # u + U => Char(m1, x) = W[x + 1]
  <2>1. DOMAIN mem = 0 .. MemSize - 1
    BY DEF Looking, TypeInv
  <2>2. u + U \in 0 .. MemSize - 1
    BY <1>8, <1>13, <1>14
  <2> QED BY <2>1, <2>2, <1>15, <1>18 DEF Terminated, Char
<1>20. PICK hdr \in Nat : hdr = u + U + V
  BY <1>8
<1>21. j = h /\ Char(m1, hdr + j) \in HeaderChar
  <2>1. StandsIn(req.hdr \o HTTP_BREAK, W, hdr)
    BY <1>12, <1>20
  <2>2. j = SearchEnd(HTTP_BREAK, m1, hdr, n, HeaderChar)
    BY <1>5, <1>9, <1>17, <1>20 DEF Parse
  <2>3. /\ \A k \in DOMAIN req.hdr : req.hdr[k] \in HeaderChar
        /\ \A x \in 0 .. Len(req.hdr) - 1 : ~ StandsIn(HTTP_BREAK, req.hdr \o HTTP_BREAK, x)
    BY <1>6, ClientAssumption
  <2>4. \A x \in hdr .. hdr + Len(req.hdr) + Len(HTTP_BREAK) - 1 : Char(m1, x) = W[x + 1]
    <3>1. \A x \in hdr .. hdr + h + K - 1 : x \in 0 .. len - 1 /\ x # u + U
      BY <1>8, <1>11, <1>13, <1>20
    <3> QED BY <3>1, <1>4, <1>10, <1>19
  <2>5. /\ n \in Nat /\ Len(req.hdr) < Bound(n, HTTP_BREAK) /\ Len(HTTP_BREAK) > 0 /\ Len(W) \in Nat
        /\ HTTP_BREAK \in Seq(Int) /\ HTTP_BREAK[1] \in HeaderChar
    BY <1>4, <1>10, <1>14, <1>16, Constants, SeparatorAssumption
  <2>6. /\ SearchEnd(HTTP_BREAK, m1, hdr, n, HeaderChar) = Len(req.hdr)
        /\ Char(m1, hdr + Len(req.hdr)) \in HeaderChar
    <3>1. hdr \in Nat /\ req.hdr \in Seq(Int)
      BY <1>6, <1>20
    <3> QED BY <3>1, <2>1, <2>3, <2>4, <2>5, SearchFinds
  <2> QED BY <2>2, <2>6, <1>10
<1>22. m2 = Terminated(m1, hdr + h)
  BY <1>5, <1>9, <1>16, <1>17, <1>20, <1>21 DEF Parse
<1>23. Clean(u, n, i, m1, j)
  BY <1>9, <1>17, <1>20, <1>21 DEF Clean
<1>24. PICK data \in Nat : data = hdr + h + K
  BY <1>8, <1>11, <1>20
<1>25. /\ Char(m2, u + U) = NUL
       /\ \A x \in 0 .. len - 1 : x # u + U /\ x # hdr + h => Char(m2, x) = W[x + 1]
  <2>1. hdr + h # u + U
    BY <1>8, <1>11, <1>20
  <2> QED BY <2>1, <1>19, <1>22 DEF Terminated, Char
<1>26. out' = Dispatch(m2, u, data, B)
  <2>1. DataAt(u, i, j) = data
    BY <1>4, <1>9, <1>17, <1>20, <1>21, <1>24 DEF DataAt
  <2>2. Dlen(n, i, j) = B
    <3>1. Dlen(n, i, j) = n - U - V - h - K
      BY <1>4, <1>9, <1>17, <1>21 DEF Dlen
    <3> QED BY <3>1, <1>8, <1>11, <1>13
  <2> QED BY <2>1, <2>2, <1>5, <1>23
<1>27. ASSUME NEW p \in Paths PROVE StartsAt(Append(p, NUL), m2, u) <=> p = req.url
  <2>1. p \in Seq(Int) /\ \A k \in DOMAIN p : p[k] # NUL
    BY RequestAssumption, SeparatorAssumption
  <2>2. \A k \in DOMAIN req.url : req.url[k] # NUL
    <3>1. \A k \in DOMAIN req.url : req.url[k] \in Printable
      BY <1>6, ClientAssumption
    <3>2. NUL \notin Printable
      BY DEF Printable, NUL
    <3> QED BY <3>1, <3>2
  <2>3. ASSUME NEW k \in 1 .. Len(req.url) PROVE Char(m2, u + k - 1) = req.url[k]
    <3>1. PICK x : x = u + k - 1 /\ k \in 1 .. U
      BY <1>9
    <3>2. x \in 0 .. len - 1 /\ x # u + U /\ x # hdr + h /\ x + 1 = u + k
      BY <3>1, <1>8, <1>11, <1>13, <1>20
    <3>3. W[u + k] = req.url[k]
      BY <1>12 DEF StandsIn
    <3> QED BY <3>1, <3>2, <3>3, <1>25
  <2>4. Char(m2, u + Len(req.url)) = NUL
    BY <1>9, <1>25
  <2> QED BY <2>1, <2>2, <2>3, <2>4, <1>6, <1>8, PathFound
<1>28. Sendraw(m2, data, B) =
         IF Len(req.body) = 2 * PAYLOADSZ /\ IsHex(req.body) THEN Decoded(req.body) ELSE << >>
  <2>1. ASSUME B = 2 * PAYLOADSZ, NEW k \in 1 .. 2 * PAYLOADSZ PROVE Char(m2, data + k - 1) = req.body[k]
    <3>1. PICK x : x = data + k - 1
      OBVIOUS
    <3>2. x \in 0 .. len - 1 /\ x # u + U /\ x # hdr + h /\ x + 1 = data + k /\ data = u + U + V + H
      <4>1. k \in 1 .. B
        BY <2>1
      <4> QED BY <4>1, <3>1, <1>8, <1>11, <1>13, <1>20, <1>24
    <3>3. W[data + k] = req.body[k]
      BY <3>2, <2>1, <1>9, <1>12 DEF StandsIn
    <3> QED BY <3>1, <3>2, <3>3, <1>25
  <2>2. Sendraw(m2, data, B) =
          IF B = 2 * PAYLOADSZ /\ \A k \in 1 .. 2 * PAYLOADSZ : Values(req.body[k]) # {}
            THEN Decoded(req.body) ELSE << >>
    BY <2>1, SendsDecoded
  <2>3. DOMAIN req.body = 1 .. B
    BY <1>6, <1>9, LenProperties
  <2> QED BY <2>2, <2>3, <1>9 DEF IsHex
<1>29. PICK Same : Same = {p \in Paths : StartsAt(Append(p, NUL), m2, u)}
  OBVIOUS
<1>30. CASE req.url \notin Paths
  <2>1. Same = {}
    BY <1>27, <1>29, <1>30
  <2> QED BY <2>1, <1>26, <1>29, <1>30 DEF Dispatch
<1>31. CASE req.url \in Paths
  <2>1. Same = {req.url}
    BY <1>27, <1>29, <1>31
  <2>2. out' = Answer(req.url, IF req.url = SendPath THEN Sendraw(m2, data, B) ELSE << >>)
    <3>1. Same # {} /\ (CHOOSE p \in Same : TRUE) = req.url
      BY <2>1
    <3>2. Dispatch(m2, u, data, B) =
            IF Same = {} THEN NotFound
            ELSE Answer(CHOOSE p \in Same : TRUE,
                        IF (CHOOSE p \in Same : TRUE) = SendPath THEN Sendraw(m2, data, B) ELSE << >>)
      BY <1>29 DEF Dispatch
    <3> QED BY <3>1, <3>2, <1>26
  <2> QED BY <2>2, <1>28, <1>31
<1> QED BY <1>30, <1>31
-----------------------------------------------------------------------------
(* The theorems.                                                           *)

\* What holds whoever the client is.
PacketInv == TypeInv /\ Packet /\ FromPacket
IInv == PacketInv /\ ParsedRight /\ NoStaleMessage

LEMMA Initial == Init => IInv
BY Constants DEF Init, IInv, PacketInv, TypeInv, Packet, ParsedRight, NoStaleMessage, FromPacket, Waiting

\* A packet arrives: what it does not reach stays in the buffer.
LEMMA ReceiveStep == PacketInv /\ Receive => PacketInv' /\ out' = Waiting
<1> SUFFICES ASSUME PacketInv, Receive PROVE PacketInv' /\ out' = Waiting
  OBVIOUS
<1>1. PICK q \in AllRequests : \E n \in 1 .. Len(Whole(q)) :
        /\ req' = q /\ len' = n
        /\ mem' = [i \in DOMAIN mem |-> IF i < n THEN Whole(q)[i + 1] ELSE mem[i]]
  BY DEF Receive
<1>2. PICK n \in 1 .. Len(Whole(q)) :
        /\ req' = q /\ len' = n
        /\ mem' = [i \in DOMAIN mem |-> IF i < n THEN Whole(q)[i + 1] ELSE mem[i]]
  BY <1>1
<1>3. Len(Whole(q)) \in Nat /\ Len(Whole(q)) <= MemSize
  BY Constants, HaveLengths, Parts, BufferAssumption, LenProperties
<1>4. TypeInv'
  BY <1>2, <1>3 DEF PacketInv, TypeInv
<1>5. ASSUME NEW x \in 0 .. n - 1 PROVE Char(mem', x) = Whole(q)[x + 1]
  <2>1. x \in DOMAIN mem /\ x < n
    BY <1>2, <1>3, Constants DEF PacketInv, TypeInv
  <2> QED BY <2>1, <1>2 DEF Char
<1>6. Packet'
  BY <1>2, <1>5 DEF Packet
<1>7. out' = Waiting
  BY DEF Receive
<1> QED BY <1>4, <1>6, <1>7 DEF PacketInv, FromPacket, Waiting

\* httpd looks at the packet: it knows the method or not.
LEMMA ProcessCases ==
  ASSUME PacketInv, Process
  PROVE  /\ Looking /\ req' = req /\ len' = len
         /\ \/ \E s \in {HTTP_GET, HTTP_POST} : HasMethod(s) /\ Requested(Len(s), len - Len(s))
            \/ /\ ~ HasMethod(HTTP_GET) /\ ~ HasMethod(HTTP_POST)
               /\ out' = Bailout /\ mem' = mem
BY DEF Process, PacketInv, Looking, TypeInv

LEMMA ProcessStep == PacketInv /\ Process => PacketInv'
<1> SUFFICES ASSUME PacketInv, Process PROVE PacketInv'
  OBVIOUS
<1>1. Looking /\ req' = req /\ len' = len
  BY ProcessCases
<1>2. Bailout # Waiting /\ Bailout.msg = << >>
  BY DEF Bailout, Answer, Waiting
<1>3. CASE \E s \in {HTTP_GET, HTTP_POST} : HasMethod(s) /\ Requested(Len(s), len - Len(s))
  <2>1. PICK s \in {HTTP_GET, HTTP_POST} : HasMethod(s) /\ Requested(Len(s), len - Len(s))
    BY <1>3
  <2>2. TypeInv'
    BY <1>1, <2>1, Look DEF Looking, TypeInv
  <2>3. out' # Waiting
    BY <1>1, <1>2, <2>1, Look, Answered
  <2>4. FromPacket'
    <3>1. LastBytes' = LastBytes
      BY <1>1 DEF LastBytes
    <3> QED BY <1>1, <2>1, <3>1, LookSends DEF FromPacket
  <2> QED BY <2>2, <2>3, <2>4 DEF PacketInv, Packet
<1>4. CASE out' = Bailout /\ mem' = mem
  BY <1>1, <1>2, <1>4 DEF PacketInv, TypeInv, Packet, FromPacket
<1> QED BY <1>3, <1>4, ProcessCases

\* What is made of the requests of the clients.
LEMMA MeaningStep == PacketInv /\ Process => ParsedRight' /\ NoStaleMessage'
<1> SUFFICES ASSUME PacketInv, Process PROVE ParsedRight' /\ NoStaleMessage'
  OBVIOUS
<1>1. Looking /\ req' = req /\ len' = len
  BY ProcessCases
<1>2. CASE \E s \in {HTTP_GET, HTTP_POST} : HasMethod(s) /\ Requested(Len(s), len - Len(s))
  <2>1. PICK s \in {HTTP_GET, HTTP_POST} : HasMethod(s) /\ Requested(Len(s), len - Len(s))
    BY <1>2
  <2>2. ParsedRight'
    BY <1>1, <2>1, LookFull DEF ParsedRight
  <2>3. NoStaleMessage'
    BY <1>1, <2>1, LookSendsBody DEF NoStaleMessage
  <2> QED BY <2>2, <2>3
<1>3. CASE /\ ~ HasMethod(HTTP_GET) /\ ~ HasMethod(HTTP_POST)
           /\ out' = Bailout /\ mem' = mem
  <2>1. ~ (len = Len(Whole(req)) /\ req.method \in {HTTP_GET, HTTP_POST})
    BY <1>1, <1>3, MethodKnown
  <2> QED BY <1>1, <1>3, <2>1 DEF ParsedRight, NoStaleMessage, Bailout, Answer
<1> QED BY <1>2, <1>3, ProcessCases

\* path_sendraw: a message is the end of the packet that asked for it, whatever
\* the clients send and the buffer held before.
THEOREM SentFromPacket == Spec => []FromPacket
<1>1. Init => PacketInv
  BY Initial DEF IInv
<1>2. PacketInv /\ UNCHANGED vars => PacketInv'
  BY DEF vars, PacketInv, TypeInv, Packet, FromPacket, LastBytes
<1>3. PacketInv => FromPacket
  BY DEF PacketInv
<1> QED BY <1>1, <1>2, <1>3, ReceiveStep, ProcessStep, PTL DEF Spec, Next

\* The invariant holds.
THEOREM Inductive == Spec => []IInv
<1>1. IInv /\ Receive => IInv'
  <2>1. out' = Waiting => ParsedRight' /\ NoStaleMessage'
    BY DEF ParsedRight, NoStaleMessage, Waiting
  <2> QED BY <2>1, ReceiveStep DEF IInv
<1>2. IInv /\ Process => IInv'
  BY ProcessStep, MeaningStep DEF IInv
<1>3. IInv /\ UNCHANGED vars => IInv'
  BY DEF vars, IInv, PacketInv, TypeInv, Packet, ParsedRight, NoStaleMessage, FromPacket, LastBytes
<1> QED BY <1>1, <1>2, <1>3, Initial, PTL DEF Spec, Next

\* httpd_process and path_sendraw: a request with headers that comes in one
\* packet is understood, whatever the buffer held before.
THEOREM Understood == Spec => []ParsedRight
BY Inductive, PTL DEF IInv

\* path_sendraw: what is sent is the body that the packet brought, however the
\* request is cut off and whatever an earlier one left in the buffer.
THEOREM NothingStale == Spec => []NoStaleMessage
BY Inductive, PTL DEF IInv
=============================================================================
