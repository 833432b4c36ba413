---------------------------- MODULE LossyQueue -----------------------------
(***************************************************************************)
(* What the receive mailbox of firmware/nrf24l01p.c promises data_rx: a    *)
(* bounded FIFO of numbered packets.  A packet may be dropped only when    *)
(* the queue is full, and then it is the oldest one ("if full, drop        *)
(* oldest"); a new packet always finds room; nothing is repeated, reordered*)
(* or changed.                                                             *)
(***************************************************************************)
EXTENDS Integers, Sequences

CONSTANTS
  Cap,     \* slots
  Packets  \* the packets' numbers, a set of naturals

VARIABLES
  chan,  \* the packets queued, oldest first
  out    \* history: the packets taken out

LQInit == chan = << >> /\ out = << >>

\* Packet p, newer than every packet before it.
Put(p) ==
  /\ Len(chan) < Cap
  /\ \A i \in DOMAIN (out \o chan) : (out \o chan)[i] < p
  /\ chan' = Append(chan, p)
  /\ UNCHANGED out

DropOldest ==
  /\ Len(chan) = Cap
  /\ chan' = Tail(chan)
  /\ UNCHANGED out

Get ==
  /\ chan # << >>
  /\ out' = Append(out, Head(chan))
  /\ chan' = Tail(chan)

LQNext == (\E p \in Packets : Put(p)) \/ DropOldest \/ Get

LQSpec == LQInit /\ [][LQNext]_<<chan, out>>
=============================================================================
