----------------------------- MODULE PacketBuffer -----------------------------
(***************************************************************************)
(* PacketBuffer (webrtc/packet_buffer.go): the ring of the last packets of *)
(* a host, in which a viewer's NACKs are looked up.  A packet stands here  *)
(* for its sequence number.  Every method runs under pb.mu: one step each. *)
(***************************************************************************)
EXTENDS Naturals, Sequences

CONSTANTS
  Capacity,   \* length of the ring, 512 in the code
  Packets,    \* sequence numbers
  NoPacket

ASSUME BufferOK == Capacity \in Nat \ {0} /\ NoPacket \notin Packets

Slots == 0 .. Capacity - 1

Turn(i) == i % Capacity

VARIABLES packets, head, tail, size

ring == <<packets, head, tail, size>>

RingInit ==
  /\ packets = [i \in Slots |-> NoPacket]
  /\ head = 0 /\ tail = 0 /\ size = 0

\* Mutant of Push: the tail stays behind when the oldest packet is overwritten.
PushKeepsTail(p) ==
  /\ packets' = [packets EXCEPT ![head] = p]
  /\ head' = Turn(head + 1)
  /\ size' = IF size = Capacity THEN size ELSE size + 1
  /\ UNCHANGED tail

Push(p) ==
  /\ packets' = [packets EXCEPT ![head] = p]
  /\ head' = Turn(head + 1)
  /\ \/ /\ size = Capacity
        /\ tail' = Turn(tail + 1)
        /\ UNCHANGED size
     \/ /\ size < Capacity
        /\ size' = size + 1
        /\ UNCHANGED tail

Pop ==
  /\ size > 0
  /\ packets' = [packets EXCEPT ![tail] = NoPacket]
  /\ tail' = Turn(tail + 1)
  /\ size' = size - 1
  /\ UNCHANGED head

Clear ==
  /\ packets' = [i \in Slots |-> NoPacket]
  /\ head' = 0 /\ tail' = 0 /\ size' = 0

\* Mutant of Cached: the search begins at the head, where the next packet goes.
CachedFromHead(n) ==
  \E i \in 0 .. size - 1 : packets[Turn(head - i + Capacity)] = n

\* Get(n) finds a packet: the search goes from the newest place to the oldest.
Cached(n) ==
  \E i \in 0 .. size - 1 : packets[Turn(head - 1 - i + Capacity)] = n

RingNext == Pop \/ Clear \/ \E p \in Packets : Push(p)

RingSpec == RingInit /\ [][RingNext]_ring

-----------------------------------------------------------------------------
\* The packets from the oldest to the newest.
Contents == [i \in 1 .. size |-> packets[Turn(tail + i - 1)]]

Window == INSTANCE PacketWindow WITH window <- Contents

\* What every method leaves behind: head is size places after tail, and the
\* places between them hold packets.
RingOK ==
  /\ packets \in [Slots -> Packets \cup {NoPacket}]
  /\ head \in Slots /\ tail \in Slots /\ size \in 0 .. Capacity
  /\ head = Turn(tail + size)
  /\ \A i \in 1 .. size : packets[Turn(tail + i - 1)] \in Packets

\* The ring implements the window: head, tail and size never come apart, also
\* when the ring is full and the oldest packet is overwritten.
BufferIsWindow == Window!WindowSpec

\* Get, which counts back from head and across the end of the ring, finds the
\* packets of the window, the oldest and the newest among them, and no others.
GetFindsTheWindow ==
  \A n \in Packets : Cached(n) <=> \E i \in 1 .. size : Contents[i] = n
=============================================================================
