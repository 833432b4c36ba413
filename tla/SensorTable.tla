---------------------------- MODULE SensorTable ----------------------------
(***************************************************************************)
(* The table of sensors, firmware/data.c: data_rx stores the frames it     *)
(* receives, data_clean ages the entries once per TTL_DELAY, and two       *)
(* readers list them: data_json (for the web server) and data_dump (for    *)
(* the console).  All of them take data_mutex.                             *)
(*                                                                         *)
(* update_table and the loop of data_clean do not block while they hold    *)
(* the mutex, so each is one action.  A reader writes to a network or USB  *)
(* stream while it holds the mutex and may block at every entry.           *)
(*                                                                         *)
(* A key is the pair (board_id, msg_id) of a frame; a value stands for its *)
(* seq and data.  memset to zero leaves ZeroKey, the pair (0, 0), which is *)
(* also the key of a generic message of board 0.                           *)
(***************************************************************************)
EXTENDS Integers, Sequences

CONSTANTS
  Keys,     \* the keys of the frames on the air
  ZeroKey,  \* board 0, message 0
  Vals,     \* the values of the frames
  ZeroVal,  \* all bytes 0
  N,        \* TABLE_SIZE (32)
  TTL,      \* NEW_TTL (180), in sweeps of data_clean
  NoFrame   \* not a frame

ASSUME TableAssumption ==
  /\ ZeroKey \in Keys /\ ZeroVal \in Vals
  /\ N \in Nat \ {0}
  /\ TTL \in 1 .. 255  \* it fits the uint8_t ttl
  /\ NoFrame \notin [key : Keys, val : Vals]

VARIABLES
  table,  \* data_table
  owner,  \* data_mutex: Nobody, or the reader that holds it
  rx,     \* data_rx: NoFrame, or the frame it is to store
  at,     \* each reader's loop index
  seen,   \* each reader's output: the entries listed so far
  age,    \* history: sweeps since the key was last heard with room for it,
          \* up to TTL
  last    \* history: the value it had then, while it is recent

heardVars == <<age, last>>
vars == <<table, owner, rx, at, seen, heardVars>>

Slots == 0 .. N - 1
Entries == [ttl : 0 .. TTL, key : Keys, val : Vals]
Zero == [ttl |-> 0, key |-> ZeroKey, val |-> ZeroVal]
Frames == [key : Keys, val : Vals]
Readers == {"json", "dump"}
Nobody == "nobody"

TypeOK ==
  /\ table \in [Slots -> Entries]
  /\ owner \in Readers \union {Nobody}
  /\ rx \in Frames \union {NoFrame}
  /\ at \in [Readers -> 0 .. N]
  /\ seen \in [Readers -> Seq(Entries)]
  /\ age \in [Keys -> 0 .. TTL]
  /\ last \in [Keys -> Vals]

\* data_init.
Init ==
  /\ table = [i \in Slots |-> Zero]
  /\ owner = Nobody
  /\ rx = NoFrame
  /\ at = [r \in Readers |-> 0]
  /\ seen = [r \in Readers |-> << >>]
  /\ age = [k \in Keys |-> TTL]
  /\ last = [k \in Keys |-> ZeroVal]
-----------------------------------------------------------------------------
(* Faulty variants of the definitions below.  Nothing uses them: each shows*)
(* that some property notices when the code is wrong in that way.          *)

FaultyNoClear(e) == [e EXCEPT !.ttl = @ - 1]
FaultyNoExpiry(e) == IF e.ttl <= 1 THEN e ELSE [e EXCEPT !.ttl = @ - 1]
FaultyMutexFree == owner \in Readers \union {Nobody}
FaultyFreeSlots == IF table[0].ttl = 0 THEN {} ELSE {i \in Slots : table[i].ttl = 0}
-----------------------------------------------------------------------------
(* update_table.                                                           *)

Live(i) == table[i].ttl # 0

\* The slots whose key is that of the frame, free ones included.
Match(k) == {i \in Slots : table[i].key = k}
FreeSlots == {i \in Slots : ~Live(i)}

\* The slot update_table writes: the first match, else the first free slot.
Candidates(k) == IF Match(k) # {} THEN Match(k) ELSE FreeSlots
IsTarget(i, k) == i \in Candidates(k) /\ \A j \in Candidates(k) : i <= j

\* update_entry.
NewEntry(f) == [ttl |-> TTL, key |-> f.key, val |-> f.val]

MutexFree == owner = Nobody

\* nrf_recv returns a frame to data_rx.
Recv ==
  /\ rx = NoFrame
  /\ rx' \in Frames
  /\ UNCHANGED <<table, owner, at, seen, heardVars>>

\* The history of what is heard: each frame update_table is given, whatever
\* that makes of it, unless every slot is in use for another key.
NoRoom(k) == \A i \in Slots : table[i].ttl # 0 /\ table[i].key # k
Heard(f) ==
  IF NoRoom(f.key) THEN UNCHANGED heardVars
  ELSE /\ age' = [age EXCEPT ![f.key] = 0]
       /\ last' = [last EXCEPT ![f.key] = f.val]

Store(i, f) == table' = [table EXCEPT ![i] = NewEntry(f)]

\* The frame is written to a slot, or dropped if there is none for it.
UpdateTable ==
  /\ rx # NoFrame
  /\ MutexFree
  /\ \/ \E i \in Slots : IsTarget(i, rx.key) /\ Store(i, rx)
     \/ Candidates(rx.key) = {} /\ UNCHANGED table
  /\ Heard(rx)
  /\ rx' = NoFrame
  /\ UNCHANGED <<owner, at, seen>>
-----------------------------------------------------------------------------
(* data_clean.                                                             *)

\* One entry, one sweep older; at the end of its time it is zeroed.
Aged(e) == IF e.ttl <= 1 THEN Zero ELSE [e EXCEPT !.ttl = @ - 1]

Sweep ==
  /\ MutexFree
  /\ table' = [i \in Slots |-> IF Live(i) THEN Aged(table[i]) ELSE table[i]]
  /\ age' = [k \in Keys |-> IF age[k] < TTL THEN age[k] + 1 ELSE TTL]
  /\ last' = [k \in Keys |-> IF age'[k] < TTL THEN last[k] ELSE ZeroVal]
  /\ UNCHANGED <<owner, rx, at, seen>>
-----------------------------------------------------------------------------
(* The readers.                                                            *)

\* data_json leaves out the free slots.
Listed(r, e) == r = "dump" \/ e.ttl # 0

Unlock(r) == owner' = Nobody

ReaderLock(r) ==
  /\ MutexFree
  /\ owner' = r
  /\ UNCHANGED <<table, rx, at, seen, heardVars>>

ReaderEntry(r) ==
  /\ owner = r /\ at[r] < N
  /\ seen' = IF Listed(r, table[at[r]])
               THEN [seen EXCEPT ![r] = Append(@, table[at[r]])] ELSE seen
  /\ at' = [at EXCEPT ![r] = @ + 1]
  /\ UNCHANGED <<table, owner, rx, heardVars>>

ReaderUnlock(r) ==
  /\ owner = r /\ at[r] = N
  /\ Unlock(r)
  /\ at' = [at EXCEPT ![r] = 0]
  /\ seen' = [seen EXCEPT ![r] = << >>]
  /\ UNCHANGED <<table, rx, heardVars>>

Reader(r) == ReaderLock(r) \/ ReaderEntry(r) \/ ReaderUnlock(r)

Next == Recv \/ UpdateTable \/ Sweep \/ \E r \in Readers : Reader(r)

Spec == Init /\ [][Next]_vars

(***************************************************************************)
(* Fairness.  A ChibiOS mutex is handed over, when it is unlocked, to the  *)
(* waiting thread of the highest priority, and data_rx (NORMALPRIO) and    *)
(* data_clean are not outranked by a reader: a thread that waits for it    *)
(* gets it although the readers keep coming back.  Nothing is said of the  *)
(* readers: the streams they write to have no timeout.                     *)
(***************************************************************************)
Fairness == SF_vars(UpdateTable) /\ SF_vars(Sweep)

FairSpec == Spec /\ Fairness
-----------------------------------------------------------------------------
(* Safety.                                                                 *)

\* A slot out of use is all zero: data_clean leaves nothing behind.
FreeIsZero == \A i \in Slots : ~Live(i) => table[i] = Zero

\* No key but ZeroKey is listed twice.  (A zeroed slot matches ZeroKey, so a
\* frame of that key may take a free slot in front of the entry it has.)
OneEntryPerKey ==
  \A i, j \in Slots :
    Live(i) /\ Live(j) /\ table[i].key = table[j].key => i = j \/ table[i].key = ZeroKey

\* The table lists exactly the keys heard within the last TTL sweeps, each
\* with its last value and the time it has left.  The one frame that does not
\* count is one that found every slot in use for another key.
Current(k) ==
  \E i \in Slots : table[i] = [ttl |-> TTL - age[k], key |-> k, val |-> last[k]]
ListsTheRecent ==
  \A k \in Keys \ {ZeroKey} : IF age[k] < TTL THEN Current(k) ELSE Match(k) = {}

\* ZeroKey too is listed with its last value as long as it is recent, though
\* older entries of it may be listed as well.
ZeroKeyListed == age[ZeroKey] < TTL => Current(ZeroKey)

\* What a reader of the table may rely on: every key heard recently is listed,
\* no other and none twice, save the older entries of ZeroKey.  update_table
\* loses a frame to a table in full use only, and the key is listed as soon as
\* it is heard again with room for it.
ListsRight == OneEntryPerKey /\ ListsTheRecent /\ ZeroKeyListed

\* A slot in use keeps its key until it expires: a full table drops the frame
\* of a new key rather than an entry.
NoEviction ==
  [][\A i \in Slots : Live(i) /\ Live(i)' => table[i].key = table[i].key']_vars

\* What a reader has listed is the table as it is at one instant, although it
\* blocks between entries: each slot it has passed that is to be listed, once
\* and in the order of the table.  (place[j] is the slot entry j comes from.)
IsListing(r, s) ==
  \E place \in [1 .. Len(s) -> 0 .. at[r] - 1] :
    /\ \A j \in 1 .. Len(s) : s[j] = table[place[j]]
    /\ \A j, k \in 1 .. Len(s) : j < k => place[j] < place[k]
    /\ \A i \in 0 .. at[r] - 1 :
         Listed(r, table[i]) <=> \E j \in 1 .. Len(s) : place[j] = i
Snapshot == \A r \in Readers : owner = r => IsListing(r, seen[r])
-----------------------------------------------------------------------------
(* Liveness.                                                               *)

\* No reader is held up for ever by the other end of its stream.
ReadersReturn == \A r \in Readers : []<>(owner # r)

\* A sensor that falls silent leaves the table, however often the readers take
\* the mutex and however the other keys fill it, as long as the readers return;
\* one that stays listed is heard again.
SilentForgotten ==
  ReadersReturn =>
    \A k \in Keys :
      age[k] = 1 ~> age[k] = 0 \/ ~\E i \in Slots : Live(i) /\ table[i].key = k
=============================================================================
