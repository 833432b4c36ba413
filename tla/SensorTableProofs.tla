------------------------- MODULE SensorTableProofs -------------------------
(***************************************************************************)
(* Safety of the sensor table for every table size and time to live.       *)
(***************************************************************************)
EXTENDS SensorTable, SequenceTheorems, TLAPS

IInv ==
  /\ TypeOK /\ FreeIsZero /\ OneEntryPerKey /\ ListsTheRecent /\ ZeroKeyListed

\* data_init establishes the invariant.
LEMMA InitInv == Init => IInv
<1> SUFFICES ASSUME Init PROVE IInv
  OBVIOUS
<1>1. Zero \in Entries
  BY TableAssumption DEF Zero, Entries
<1>2. TypeOK
  BY <1>1, TableAssumption, EmptySeq DEF Init, TypeOK, Slots
<1>3. \A i \in Slots : table[i] = Zero /\ ~Live(i)
  BY DEF Init, Live, Zero
<1>4. \A k \in Keys \ {ZeroKey} : Match(k) = {}
  BY <1>3 DEF Match, Zero
<1>5. FreeIsZero /\ OneEntryPerKey
  BY <1>3 DEF FreeIsZero, OneEntryPerKey
<1>6. ListsTheRecent /\ ZeroKeyListed
  BY <1>4, TableAssumption DEF ListsTheRecent, ZeroKeyListed, Init
<1> QED BY <1>2, <1>5, <1>6 DEF IInv

\* update_table keeps the invariant when it stores a frame in slot i.
LEMMA StoreStep ==
  ASSUME IInv, NEW i \in Slots, rx \in Frames, IsTarget(i, rx.key), Store(i, rx),
         Heard(rx), UNCHANGED <<owner, at, seen>>, rx' = NoFrame
  PROVE  IInv'
<1>0. PICK k \in Keys, v \in Vals : k = rx.key /\ v = rx.val
  BY DEF Frames
<1> DEFINE e == [ttl |-> TTL, key |-> k, val |-> v]
<1>1. e \in Entries /\ e.ttl = TTL /\ e.key = k /\ TTL # 0
  BY TableAssumption DEF Frames, Entries
<1>2. /\ table' = [table EXCEPT ![i] = e]
      /\ age' = [age EXCEPT ![k] = 0]
      /\ last' = [last EXCEPT ![k] = v]
  <2>1. ~NoRoom(rx.key)
    BY DEF IsTarget, Candidates, Match, FreeSlots, Live, NoRoom
  <2> QED BY <2>1, <1>0 DEF Store, NewEntry, Heard
<1>3. TypeOK'
  BY <1>1, <1>2, TableAssumption DEF IInv, TypeOK
<1>4. /\ table'[i] = e
      /\ \A j \in Slots : j # i => table'[j] = table[j]
      /\ age'[k] = 0 /\ last'[k] = v
      /\ \A h \in Keys : h # k => age'[h] = age[h] /\ last'[h] = last[h]
  BY <1>1, <1>2 DEF IInv, TypeOK
<1> HIDE DEF e
<1>5. FreeIsZero'
  BY <1>1, <1>4 DEF IInv, FreeIsZero, Live
<1>6. k # ZeroKey => \A j \in Slots : table[j].key = k => j = i
  <2> SUFFICES ASSUME k # ZeroKey, NEW j \in Slots, table[j].key = k
               PROVE  j = i
    OBVIOUS
  <2>1. Match(k) # {} /\ table[i].key = k
    BY <1>0 DEF IsTarget, Candidates, Match
  <2>2. Live(i) /\ Live(j)
    BY <2>1 DEF IInv, FreeIsZero, Zero
  <2> QED BY <2>1, <2>2 DEF IInv, OneEntryPerKey
<1>7. OneEntryPerKey'
  BY <1>1, <1>4, <1>6 DEF IInv, OneEntryPerKey, Live
<1>8. ASSUME NEW h \in Keys, h # k, Match(h) = {}
      PROVE  Match(h)' = {}
  BY <1>8, <1>1, <1>4 DEF Match
<1>8a. ASSUME NEW h \in Keys, h # k, age[h] < TTL, Current(h)
       PROVE  Current(h)'
  <2>1. PICK j \in Slots : table[j] = [ttl |-> TTL - age[h], key |-> h, val |-> last[h]]
    BY <1>8a DEF Current
  <2>2. table[j].key = h /\ Live(j)
    BY <1>8a, <2>1, TableAssumption DEF Live, IInv, TypeOK
  <2>3. j # i
    BY <1>0, <1>8a, <2>2 DEF IsTarget, Candidates, Match, FreeSlots
  <2> QED BY <1>8a, <2>1, <2>3, <1>4 DEF Current
<1>9. Current(k)'
  <2>1. TTL - age'[k] = TTL
    BY <1>4, TableAssumption
  <2>2. table'[i] = [ttl |-> TTL - age'[k], key |-> k, val |-> last'[k]]
    BY <2>1, <1>4 DEF e
  <2> QED BY <2>2 DEF Current
<1>10. ListsTheRecent' /\ ZeroKeyListed'
  <2>1. ASSUME NEW h \in Keys \ {ZeroKey}
        PROVE  IF age'[h] < TTL THEN Current(h)' ELSE Match(h)' = {}
    <3>1. CASE h = k
      BY <3>1, <1>4, <1>9, TableAssumption
    <3>2. CASE h # k
      <4>1. age'[h] = age[h]
        BY <3>2, <1>4
      <4>2. IF age[h] < TTL THEN Current(h) ELSE Match(h) = {}
        BY DEF IInv, ListsTheRecent
      <4>3. age[h] < TTL => Current(h)'
        BY <3>2, <4>2, <1>8a DEF Current
      <4>4. ~(age[h] < TTL) => Match(h)' = {}
        BY <3>2, <4>2, <1>8 DEF Match
      <4> QED BY <4>1, <4>3, <4>4
    <3> QED BY <3>1, <3>2
  <2>2. age'[ZeroKey] < TTL => Current(ZeroKey)'
    <3>1. CASE ZeroKey = k
      BY <3>1, <1>9
    <3>2. CASE ZeroKey # k
      <4>1. age'[ZeroKey] = age[ZeroKey] /\ ZeroKey \in Keys
        BY <3>2, <1>4, TableAssumption
      <4>2. age[ZeroKey] < TTL => Current(ZeroKey)
        BY DEF IInv, ZeroKeyListed
      <4>3. age[ZeroKey] < TTL => Current(ZeroKey)'
        BY <3>2, <4>1, <4>2, <1>8a DEF Current
      <4> QED BY <4>1, <4>3
    <3> QED BY <3>1, <3>2
  <2> QED BY <2>1, <2>2 DEF ListsTheRecent, ZeroKeyListed
<1> QED BY <1>3, <1>5, <1>7, <1>10 DEF IInv

\* A sweep of data_clean keeps the invariant.
LEMMA SweepStep ==
  ASSUME IInv, Sweep
  PROVE  IInv'
<1>1. /\ \A i \in Slots : table'[i] = IF Live(i) THEN Aged(table[i]) ELSE table[i]
      /\ \A h \in Keys : age'[h] = IF age[h] < TTL THEN age[h] + 1 ELSE TTL
      /\ \A h \in Keys : last'[h] = IF age'[h] < TTL THEN last[h] ELSE ZeroVal
  BY DEF Sweep
<1>2. \A i \in Slots : /\ table[i] \in Entries
                        /\ table[i].ttl \in 0 .. TTL /\ table[i].key \in Keys
                        /\ table[i].val \in Vals
  BY DEF IInv, TypeOK, Entries
<1>3. \A h \in Keys : age[h] \in 0 .. TTL /\ last[h] \in Vals
  BY DEF IInv, TypeOK
<1>4. ASSUME NEW i \in Slots, table[i].ttl <= 1
      PROVE  table'[i] = Zero
  <2>1. CASE Live(i)
    BY <2>1, <1>4, <1>1 DEF Aged
  <2>2. CASE ~Live(i)
    BY <2>2, <1>1 DEF IInv, FreeIsZero
  <2> QED BY <2>1, <2>2
<1>4a. ASSUME NEW i \in Slots, table[i].ttl > 1
       PROVE  /\ table'[i] = [ttl |-> table[i].ttl - 1, key |-> table[i].key,
                              val |-> table[i].val]
              /\ table'[i].ttl = table[i].ttl - 1
              /\ table'[i].key = table[i].key
  <2>1. Live(i) /\ ~(table[i].ttl <= 1)
    BY <1>4a, <1>2 DEF Live
  <2>2. table'[i] = [table[i] EXCEPT !.ttl = @ - 1]
    BY <2>1, <1>1 DEF Aged
  <2>3. table'[i] = [ttl |-> table[i].ttl - 1, key |-> table[i].key,
                     val |-> table[i].val]
    BY <2>2, <1>2 DEF Entries
  <2> QED BY <2>3
<1>4b. ASSUME NEW i \in Slots, Live(i)'
       PROVE  table[i].ttl > 1
  <2>1. table[i].ttl <= 1 => FALSE
    BY <1>4, <1>4b DEF Live, Zero
  <2> QED BY <2>1, <1>2, TableAssumption
<1>5. TypeOK'
  <2>1. Zero \in Entries
    BY TableAssumption DEF Zero, Entries
  <2>2. \A i \in Slots : table'[i] \in Entries
    <3> TAKE i \in Slots
    <3>1. CASE table[i].ttl <= 1
      BY <3>1, <2>1, <1>4
    <3>2. CASE table[i].ttl > 1
      <4>1. table[i].ttl - 1 \in 0 .. TTL
        BY <3>2, <1>2, TableAssumption
      <4>2. table'[i] = [ttl |-> table[i].ttl - 1, key |-> table[i].key,
                         val |-> table[i].val]
        BY <3>2, <1>4a
      <4>3. table[i].key \in Keys /\ table[i].val \in Vals
        BY <1>2
      <4> QED BY <4>1, <4>2, <4>3 DEF Entries
    <3>3. table[i].ttl <= 1 \/ table[i].ttl > 1
      BY <1>2, TableAssumption
    <3> QED BY <3>1, <3>2, <3>3
  <2>3. table' \in [Slots -> Entries]
    BY <2>2 DEF Sweep
  <2>4. age' \in [Keys -> 0 .. TTL]
    BY <1>3, TableAssumption DEF Sweep
  <2>5. last' \in [Keys -> Vals]
    BY <1>3, TableAssumption DEF Sweep
  <2> QED BY <2>3, <2>4, <2>5 DEF Sweep, IInv, TypeOK
<1>6. FreeIsZero'
  <2> SUFFICES ASSUME NEW i \in Slots, table'[i].ttl = 0
               PROVE  table'[i] = Zero
    BY DEF FreeIsZero, Live
  <2>1. CASE table[i].ttl <= 1
    BY <2>1, <1>4
  <2>2. CASE table[i].ttl > 1
    <3>1. table'[i].ttl = table[i].ttl - 1
      BY <2>2, <1>4a
    <3>2. table[i].ttl \in Int
      BY <1>2, TableAssumption
    <3> QED BY <2>2, <3>1, <3>2
  <2>3. table[i].ttl <= 1 \/ table[i].ttl > 1
    BY <1>2, TableAssumption
  <2> QED BY <2>1, <2>2, <2>3
<1>7. ASSUME NEW i \in Slots, Live(i)'
      PROVE  Live(i) /\ table'[i].key = table[i].key
  <2>1. table[i].ttl > 1
    BY <1>7, <1>4b
  <2>2. table[i].ttl # 0
    BY <2>1, <1>2, TableAssumption
  <2> QED BY <2>1, <2>2, <1>4a DEF Live
<1>8. OneEntryPerKey'
  BY <1>7 DEF IInv, OneEntryPerKey, Live
<1>9. \A h \in Keys : age'[h] < TTL /\ Current(h) => Current(h)'
  <2> SUFFICES ASSUME NEW h \in Keys, age'[h] < TTL, Current(h)
               PROVE  Current(h)'
    OBVIOUS
  <2>1. age'[h] = age[h] + 1 /\ last'[h] = last[h]
    BY <1>1, <1>3, TableAssumption
  <2>2. PICK j \in Slots : table[j] = [ttl |-> TTL - age[h], key |-> h, val |-> last[h]]
    BY DEF Current
  <2>3. TTL - age[h] > 1 /\ TTL - age[h] - 1 = TTL - age'[h]
    BY <2>1, <1>3, TableAssumption
  <2>4. table'[j] = [ttl |-> TTL - age'[h], key |-> h, val |-> last'[h]]
    <3>1. table[j].ttl > 1 /\ table[j].ttl - 1 = TTL - age'[h]
      BY <2>2, <2>3
    <3> QED BY <2>1, <2>2, <3>1, <1>4a
  <2> QED BY <2>4 DEF Current
<1>10. ASSUME NEW h \in Keys \ {ZeroKey}, ~(age'[h] < TTL)
       PROVE  Match(h)' = {}
  <2> SUFFICES ASSUME NEW j \in Slots, table'[j].key = h
               PROVE  FALSE
    BY DEF Match
  <2>0. table[j].ttl <= 1 => FALSE
    BY <1>4 DEF Zero
  <2>1. table[j].ttl > 1
    <3>1. table[j].ttl \in Int
      BY <1>2, TableAssumption
    <3> QED BY <2>0, <3>1
  <2>1a. table[j].key = h
    BY <2>1, <1>4a
  <2>2. age[h] + 1 = TTL
    <3>1. age[h] < TTL
      BY <2>1a DEF IInv, ListsTheRecent, Match
    <3>2. age'[h] = age[h] + 1
      BY <3>1, <1>1
    <3> QED BY <3>1, <3>2, <1>3, <1>10, TableAssumption
  <2>3. PICK i \in Slots : table[i] = [ttl |-> TTL - age[h], key |-> h, val |-> last[h]]
    BY <2>2, <1>3, TableAssumption DEF IInv, ListsTheRecent, Current
  <2>4. table[i].ttl = 1 /\ table[i].key = h
    BY <2>2, <2>3, <1>3, TableAssumption
  <2>5. i = j
    BY <2>1, <2>1a, <2>4 DEF IInv, OneEntryPerKey, Live
  <2> QED BY <2>1, <2>4, <2>5
<1>11. ListsTheRecent' /\ ZeroKeyListed'
  <2>1. \A h \in Keys : age'[h] < TTL => age[h] < TTL
    BY <1>1, <1>3, TableAssumption
  <2>2. ASSUME NEW h \in Keys \ {ZeroKey}, age'[h] < TTL
        PROVE  Current(h)'
    BY <2>1, <2>2, <1>9 DEF IInv, ListsTheRecent, Current
  <2>3. age'[ZeroKey] < TTL => Current(ZeroKey)'
    BY <2>1, <1>9, TableAssumption DEF IInv, ZeroKeyListed, Current
  <2> QED BY <2>2, <2>3, <1>10 DEF ListsTheRecent, ZeroKeyListed
<1> QED BY <1>5, <1>6, <1>8, <1>11 DEF IInv

\* Receiving and reading leave the table alone.
LEMMA OtherStep ==
  ASSUME IInv, UNCHANGED <<table, heardVars>>, TypeOK'
  PROVE  IInv'
BY DEF IInv, FreeIsZero, OneEntryPerKey, ListsTheRecent, ZeroKeyListed, Live,
   Match, Current, heardVars

\* The readers neither change the table nor lose the type of their output.
LEMMA ReaderType ==
  ASSUME IInv, NEW r \in Readers, Reader(r)
  PROVE  UNCHANGED <<table, heardVars>> /\ TypeOK'
<1> USE DEF IInv, TypeOK, heardVars
<1>1. CASE ReaderLock(r)
  BY <1>1 DEF ReaderLock
<1>2. CASE ReaderEntry(r)
  <2>1. at[r] \in Slots /\ at[r] + 1 \in 0 .. N
    BY <1>2, TableAssumption DEF ReaderEntry, Slots
  <2>2. Append(seen[r], table[at[r]]) \in Seq(Entries)
    BY <2>1, AppendProperties
  <2> QED BY <1>2, <2>1, <2>2 DEF ReaderEntry
<1>3. CASE ReaderUnlock(r)
  <2>1. << >> \in Seq(Entries) /\ 0 \in 0 .. N
    BY EmptySeq, TableAssumption
  <2> QED BY <1>3, <2>1 DEF ReaderUnlock, Unlock, Nobody
<1> QED BY <1>1, <1>2, <1>3 DEF Reader

\* A frame that update_table finds no slot for is one there was no room for.
LEMMA DropStep ==
  ASSUME IInv, Candidates(rx.key) = {}, UNCHANGED table, Heard(rx),
         UNCHANGED <<owner, at, seen>>, rx' = NoFrame
  PROVE  IInv'
<1>1. NoRoom(rx.key)
  BY DEF Candidates, Match, FreeSlots, Live, NoRoom
<1>2. UNCHANGED <<table, heardVars>>
  BY <1>1 DEF Heard
<1>3. TypeOK'
  BY <1>2 DEF IInv, TypeOK, heardVars
<1> QED BY <1>2, <1>3, OtherStep

\* Every action of the table keeps the invariant.
LEMMA Step == IInv /\ [Next]_vars => IInv'
<1> SUFFICES ASSUME IInv, [Next]_vars PROVE IInv'
  OBVIOUS
<1>1. CASE Recv
  BY <1>1, OtherStep DEF Recv, heardVars, IInv, TypeOK
<1>2. CASE UpdateTable
  <2>1. rx \in Frames /\ rx' = NoFrame /\ UNCHANGED <<owner, at, seen>>
    BY <1>2 DEF UpdateTable, IInv, TypeOK
  <2>2. CASE \E i \in Slots : IsTarget(i, rx.key) /\ Store(i, rx)
    BY <1>2, <2>1, <2>2, StoreStep DEF UpdateTable
  <2>3. CASE Candidates(rx.key) = {} /\ UNCHANGED table
    BY <1>2, <2>1, <2>3, DropStep DEF UpdateTable
  <2> QED BY <1>2, <2>2, <2>3 DEF UpdateTable
<1>3. CASE Sweep
  BY <1>3, SweepStep
<1>4. CASE \E r \in Readers : Reader(r)
  BY <1>4, ReaderType, OtherStep
<1>5. CASE UNCHANGED vars
  BY <1>5, OtherStep DEF vars, heardVars, IInv, TypeOK
<1> QED BY <1>1, <1>2, <1>3, <1>4, <1>5 DEF Next

\* The types, and the four statements about what the table lists.
THEOREM Inductive == Spec => []IInv
BY InitInv, Step, PTL DEF Spec

\* Every variable keeps its type: in particular a ttl fits its byte.
THEOREM TypeCorrect == Spec => []TypeOK
<1>1. IInv => TypeOK
  BY DEF IInv
<1> QED BY Inductive, <1>1, PTL

\* The table lists exactly the keys heard within the last TTL sweeps, each
\* once, though what update_table was given is recorded apart from what it
\* stored; only a frame that found every slot in use for another key does not
\* count: update_table and data_clean of data.c.
THEOREM Recent == Spec => []ListsRight
<1>1. IInv => ListsRight
  BY DEF IInv, ListsRight
<1> QED BY Inductive, <1>1, PTL

\* A full table never evicts an entry.
THEOREM NeverEvicts == Spec => NoEviction
<1>1. IInv /\ [Next]_vars =>
        [\A i \in Slots : Live(i) /\ Live(i)' => table[i].key = table[i].key']_vars
  <2> SUFFICES ASSUME IInv, [Next]_vars, NEW i \in Slots, Live(i), Live(i)'
               PROVE  table[i].key = table[i].key'
    OBVIOUS
  <2>1. CASE UNCHANGED table
    BY <2>1
  <2>2. CASE UpdateTable
    <3>1. ASSUME NEW j \in Slots, IsTarget(j, rx.key), Store(j, rx)
          PROVE  table[i].key = table[i].key'
      <4>1. CASE j = i
        <5>1. table[i].key = rx.key
          BY <3>1, <4>1 DEF IsTarget, Candidates, Match, FreeSlots
        <5>2. table'[i] = NewEntry(rx)
          BY <3>1, <4>1 DEF Store, IInv, TypeOK
        <5> QED BY <5>1, <5>2 DEF NewEntry
      <4>2. CASE j # i
        BY <3>1, <4>2 DEF Store, IInv, TypeOK
      <4> QED BY <4>1, <4>2
    <3> QED BY <2>2, <3>1 DEF UpdateTable
  <2>3. CASE Sweep
    <3>1. table'[i] = Aged(table[i]) /\ table[i] \in Entries
      BY <2>3 DEF Sweep, IInv, TypeOK
    <3> QED BY <3>1 DEF Aged, Live, Zero, Entries
  <2>4. CASE \E r \in Readers : Reader(r)
    BY <2>4, <2>1, ReaderType
  <2> QED BY <2>1, <2>2, <2>3, <2>4 DEF Next, Recv, vars
<1> QED BY Inductive, <1>1, PTL DEF Spec, NoEviction
-----------------------------------------------------------------------------
(* What the readers see.                                                   *)

\* A reader without the mutex is at the start of its loop and has no output;
\* with it, its output is that of one instant.
Away(r) == at[r] = 0 /\ seen[r] = << >>
ReaderInv == (\A r \in Readers : owner # r => Away(r)) /\ Snapshot

\* One entry more: the listing is extended or the entry left out.
LEMMA ListingGrows ==
  ASSUME TypeOK, NEW r \in Readers, ReaderEntry(r), IsListing(r, seen[r])
  PROVE  IsListing(r, seen[r])'
<1> DEFINE s == seen[r]  n == at[r]  e == table[n]
<1>1. /\ n \in 0 .. N - 1 /\ at'[r] = n + 1 /\ table' = table
      /\ seen'[r] = IF Listed(r, e) THEN Append(s, e) ELSE s
  BY TableAssumption DEF TypeOK, ReaderEntry
<1>2. s \in Seq(Entries) /\ e \in Entries /\ Len(s) \in Nat
  BY <1>1, LenProperties DEF TypeOK, Slots
<1>3. PICK place \in [1 .. Len(s) -> 0 .. n - 1] :
        /\ \A j \in 1 .. Len(s) : s[j] = table[place[j]]
        /\ \A j, k \in 1 .. Len(s) : j < k => place[j] < place[k]
        /\ \A i \in 0 .. n - 1 :
             Listed(r, table[i]) <=> \E j \in 1 .. Len(s) : place[j] = i
  BY DEF IsListing
<1> HIDE DEF n, e, s
<1>3a. ASSUME NEW t \in Seq(Entries), seen'[r] = t,
              NEW map \in [1 .. Len(t) -> 0 .. n + 1 - 1],
              \A j \in 1 .. Len(t) : t[j] = table[map[j]],
              \A j, k \in 1 .. Len(t) : j < k => map[j] < map[k],
              \A i \in 0 .. n + 1 - 1 :
                Listed(r, table[i]) <=> \E j \in 1 .. Len(t) : map[j] = i
       PROVE  IsListing(r, seen[r])'
  <2>1. n \in Nat /\ at'[r] = n + 1 /\ table' = table /\ Len(t) \in Nat
    BY <1>1, LenProperties, TableAssumption
  <2> SUFFICES \E f \in [1 .. Len(seen'[r]) -> 0 .. at'[r] - 1] :
                 /\ \A j \in 1 .. Len(seen'[r]) : seen'[r][j] = table'[f[j]]
                 /\ \A j, k \in 1 .. Len(seen'[r]) : j < k => f[j] < f[k]
                 /\ \A i \in 0 .. at'[r] - 1 :
                      Listed(r, table'[i]) <=> \E j \in 1 .. Len(seen'[r]) : f[j] = i
    BY DEF IsListing, Listed
  <2>2. map \in [1 .. Len(seen'[r]) -> 0 .. at'[r] - 1]
    <3>1. Len(seen'[r]) = Len(t) /\ at'[r] - 1 = n + 1 - 1
      BY <1>3a, <2>1
    <3> QED BY <1>3a, <3>1
  <2>3. \A j \in 1 .. Len(seen'[r]) : seen'[r][j] = table'[map[j]]
    BY <1>3a, <2>1
  <2>4. \A j, k \in 1 .. Len(seen'[r]) : j < k => map[j] < map[k]
    BY <1>3a
  <2>5. \A i \in 0 .. at'[r] - 1 :
          Listed(r, table'[i]) <=> \E j \in 1 .. Len(seen'[r]) : map[j] = i
    <3>1. at'[r] - 1 = n + 1 - 1
      BY <2>1
    <3> QED BY <1>3a, <2>1, <3>1
  <2> QED BY <2>2, <2>3, <2>4, <2>5
<1>4. CASE Listed(r, e)
  <2> DEFINE t == Append(s, e)
             more == [j \in 1 .. Len(t) |-> IF j = Len(s) + 1 THEN n ELSE place[j]]
  <2>1. /\ Len(t) = Len(s) + 1 /\ t[Len(s) + 1] = e
        /\ \A j \in 1 .. Len(s) : t[j] = s[j]
    BY <1>2, AppendProperties
  <2>1a. t \in Seq(Entries)
    BY <1>2, AppendProperties
  <2> HIDE DEF t
  <2>2. /\ \A j \in 1 .. Len(s) : more[j] = place[j] /\ more[j] \in 0 .. n - 1
        /\ more[Len(s) + 1] = n
        /\ 1 .. Len(t) = 1 .. Len(s) \union {Len(s) + 1}
    <3>1. 1 .. Len(t) = 1 .. Len(s) \union {Len(s) + 1}
      BY <1>2, <2>1
    <3>2. \A j \in 1 .. Len(t) : more[j] = IF j = Len(s) + 1 THEN n ELSE place[j]
      OBVIOUS
    <3> HIDE DEF more
    <3>3. \A j \in 1 .. Len(s) : j # Len(s) + 1 /\ place[j] \in 0 .. n - 1
      BY <1>2, <1>3
    <3> QED BY <3>1, <3>2, <3>3
  <2>3. more \in [1 .. Len(t) -> 0 .. n + 1 - 1]
    BY <1>1, <1>2, <1>3, <2>1
  <2> HIDE DEF more
  <2>4. \A j \in 1 .. Len(t) : t[j] = table[more[j]]
    BY <1>3, <2>1, <2>2 DEF e
  <2>5. \A j, k \in 1 .. Len(t) : j < k => more[j] < more[k]
    <3> TAKE j, k \in 1 .. Len(t)
    <3> HAVE j < k
    <3>1. j \in 1 .. Len(s)
      BY <1>2, <2>1
    <3>2. CASE k = Len(s) + 1
      BY <3>1, <3>2, <2>2, <1>1
    <3>3. CASE k \in 1 .. Len(s)
      BY <3>1, <3>3, <2>2, <1>3
    <3> QED BY <3>2, <3>3, <2>2
  <2>6. \A i \in 0 .. n + 1 - 1 :
          Listed(r, table[i]) <=> \E j \in 1 .. Len(t) : more[j] = i
    <3> TAKE i \in 0 .. n + 1 - 1
    <3>1. CASE i = n
      BY <3>1, <1>4, <2>2 DEF e
    <3>2. CASE i \in 0 .. n - 1
      <4>1. i # n
        BY <3>2, <1>1
      <4>2. (\E j \in 1 .. Len(t) : more[j] = i) <=> \E j \in 1 .. Len(s) : place[j] = i
        BY <4>1, <2>2
      <4> QED BY <3>2, <4>2, <1>3
    <3> QED BY <3>1, <3>2, <1>1
  <2>7. seen'[r] = t
    BY <1>1, <1>4 DEF t
  <2> QED BY <1>3a, <2>1a, <2>3, <2>4, <2>5, <2>6, <2>7
<1>5. CASE ~Listed(r, e)
  <2>1. seen'[r] = s
    BY <1>1, <1>5
  <2>2. place \in [1 .. Len(s) -> 0 .. n + 1 - 1]
    BY <1>1, <1>3
  <2>3. \A i \in 0 .. n + 1 - 1 :
          Listed(r, table[i]) <=> \E j \in 1 .. Len(s) : place[j] = i
    <3> TAKE i \in 0 .. n + 1 - 1
    <3>1. CASE i = n
      <4>1. \A j \in 1 .. Len(s) : place[j] # n
        BY <1>1, <1>3
      <4> QED BY <3>1, <4>1, <1>5 DEF e
    <3>2. CASE i \in 0 .. n - 1
      BY <3>2, <1>3
    <3> QED BY <3>1, <3>2, <1>1
  <2> QED BY <1>2, <1>3, <1>3a, <2>1, <2>2, <2>3
<1> QED BY <1>4, <1>5

\* A listing depends on nothing but the table and the reader's own variables.
LEMMA ListingStays ==
  ASSUME NEW r \in Readers, IsListing(r, seen[r]),
         table' = table, at'[r] = at[r], seen'[r] = seen[r]
  PROVE  IsListing(r, seen[r])'
BY DEF IsListing, Listed

\* Nobody else changes the table while a reader has the mutex.
LEMMA ReaderStep == TypeOK /\ ReaderInv /\ [Next]_vars => ReaderInv'
<1> SUFFICES ASSUME TypeOK, ReaderInv, [Next]_vars, NEW r \in Readers
             PROVE  (owner' # r => Away(r)') /\ (owner' = r => IsListing(r, seen[r])')
  BY DEF ReaderInv, Snapshot
<1>0. (owner # r => Away(r)) /\ (owner = r => IsListing(r, seen[r]))
  BY DEF ReaderInv, Snapshot
<1>1. CASE Recv
  BY <1>0, <1>1, ListingStays DEF Recv, Away
<1>2. CASE UpdateTable \/ Sweep
  <2>1. owner # r /\ owner' = owner /\ at' = at /\ seen' = seen
    BY <1>2 DEF UpdateTable, Sweep, MutexFree, Readers, Nobody
  <2> QED BY <2>1, <1>0 DEF Away
<1>3. ASSUME NEW q \in Readers, Reader(q)
      PROVE  (owner' # r => Away(r)') /\ (owner' = r => IsListing(r, seen[r])')
  <2>1. CASE q = r
    <3>1. CASE ReaderLock(r)
      <4>1. owner # r /\ at' = at /\ seen' = seen /\ table' = table /\ owner' = r
        BY <3>1 DEF ReaderLock, MutexFree, Readers, Nobody
      <4>2. at[r] = 0 /\ seen[r] = << >>
        BY <4>1, <1>0 DEF Away
      <4>3. PICK f : f \in [1 .. 0 -> 0 .. 0 - 1]
        <5>1. [j \in 1 .. 0 |-> 0] \in [1 .. 0 -> 0 .. 0 - 1]
          OBVIOUS
        <5> QED BY <5>1
      <4>4. IsListing(r, seen[r])
        <5>1. Len(<< >>) = 0 /\ 1 .. 0 = {} /\ 0 .. 0 - 1 = {}
          OBVIOUS
        <5> QED BY <4>2, <4>3, <5>1, Zenon DEF IsListing
      <4> QED BY <4>1, <4>4, ListingStays
    <3>2. CASE ReaderEntry(r)
      <4>1. owner = r /\ owner' = r
        BY <3>2 DEF ReaderEntry
      <4> QED BY <4>1, <3>2, <1>0, ListingGrows
    <3>3. CASE ReaderUnlock(r)
      BY <3>3 DEF ReaderUnlock, Unlock, Away, TypeOK, Readers, Nobody
    <3> QED BY <2>1, <1>3, <3>1, <3>2, <3>3 DEF Reader
  <2>2. CASE q # r
    <3>1. owner # r /\ owner' # r
      BY <1>3, <2>2 DEF Reader, ReaderLock, ReaderEntry, ReaderUnlock, MutexFree, Unlock,
                        Readers, Nobody
    <3>2. at'[r] = at[r] /\ seen'[r] = seen[r]
      BY <1>3, <2>2 DEF Reader, ReaderLock, ReaderEntry, ReaderUnlock, TypeOK
    <3> QED BY <3>1, <3>2, <1>0 DEF Away
  <2> QED BY <2>1, <2>2
<1>4. CASE UNCHANGED vars
  BY <1>0, <1>4, ListingStays DEF vars, Away
<1> QED BY <1>1, <1>2, <1>3, <1>4 DEF Next

\* What a reader has listed is the table at one instant: nothing changes it
\* while the reader blocks between two entries.
THEOREM OneInstant == Spec => []Snapshot
<1>1. Init => ReaderInv
  BY DEF Init, ReaderInv, Away, Snapshot, Readers, Nobody
<1>2. ReaderInv => Snapshot
  BY DEF ReaderInv
<1> QED BY TypeCorrect, ReaderStep, <1>1, <1>2, PTL DEF Spec
=============================================================================
