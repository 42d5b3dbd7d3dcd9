--------------------------- MODULE MediaPathProofs ---------------------------
(***************************************************************************)
(* Machine-checked facts about the media path, for any ring, queue,        *)
(* sequence numbers and streams: the ring of PacketBuffer implements the   *)
(* window of PacketWindow and stays a window of the host's packets         *)
(* whatever viewers and host do, a loss raises no VP9 layer, and of what a *)
(* viewer misses BuildNackPairs asks the host for exactly the packets that *)
(* the ring does not hold.                                                 *)
(***************************************************************************)
EXTENDS MediaPath, SequenceTheorems, FiniteSetTheorems, WellFoundedInduction, TLAPS

-----------------------------------------------------------------------------
(* PacketBuffer: any capacity, any packets. *)

\* One turn around the ring.
LEMMA TurnOnce ==
  ASSUME NEW n \in 0 .. 2 * Capacity - 1
  PROVE  /\ Turn(n) = IF n < Capacity THEN n ELSE n - Capacity
         /\ Turn(n) \in Slots
<1> USE BufferOK DEF BufferOK, Turn, Slots
<1>1. CASE n < Capacity
  BY <1>1
<1>2. CASE n >= Capacity
  <2>1. n - Capacity \in 0 .. Capacity - 1
    BY <1>2
  <2>2. n = 1 * Capacity + (n - Capacity)
    BY <1>2
  <2>3. n % Capacity = n - Capacity
    BY <2>1, <2>2
  <2> QED
    BY <1>2, <2>1, <2>3
<1> QED
  BY <1>1, <1>2

\* The contents are a sequence of packets.
LEMMA ContentsIsSeq ==
  ASSUME RingOK
  PROVE  /\ Contents \in Seq(Packets)
         /\ Len(Contents) = size
         /\ \A i \in 1 .. size : Contents[i] = packets[Turn(tail + i - 1)]
<1>1. size \in Nat
  BY BufferOK DEF RingOK, BufferOK
<1>2. Contents \in [1 .. size -> Packets]
  BY DEF RingOK, Contents
<1>3. Contents \in Seq(Packets)
  BY <1>1, <1>2, SeqDef
<1>4. DOMAIN Contents = 1 .. size /\ DOMAIN Contents = 1 .. Len(Contents)
  BY <1>2, <1>3, LenProperties
<1>5. Len(Contents) = size
  BY <1>1, <1>3, <1>4, LenProperties
<1> QED
  BY <1>3, <1>5 DEF Contents

LEMMA InitOK == RingInit => RingOK /\ Window!WindowInit
<1> SUFFICES ASSUME RingInit PROVE RingOK /\ Window!WindowInit
  OBVIOUS
<1> USE BufferOK DEF BufferOK
<1>1. Turn(0) = 0
  BY TurnOnce
<1>2. RingOK
  BY <1>1 DEF RingInit, RingOK, Slots
<1>3. Len(Contents) = 0 /\ Contents \in Seq(Packets)
  BY <1>2, ContentsIsSeq DEF RingInit
<1> QED
  BY <1>2, <1>3, EmptySeq DEF Window!WindowInit

\* Where the packets lie after Push: the oldest is passed over when the ring
\* is full, the newest lies in the slot that head was at, and no other there.
LEMMA PushPlaces ==
  ASSUME NEW t \in Slots, NEW sz \in 0 .. Capacity, NEW t2, NEW sz2,
         \/ sz = Capacity /\ t2 = Turn(t + 1) /\ sz2 = sz
         \/ sz < Capacity /\ t2 = t /\ sz2 = sz + 1
  PROVE  /\ t2 \in Slots /\ sz2 \in 1 .. Capacity
         /\ Turn(t + sz) \in Slots
         /\ Turn(Turn(t + sz) + 1) = Turn(t2 + sz2)
         /\ Turn(t2 + sz2 - 1) = Turn(t + sz)
         /\ \A i \in 1 .. sz2 - 1 :
              /\ Turn(t2 + i - 1) = Turn(t + (IF sz = Capacity THEN i + 1 ELSE i) - 1)
              /\ Turn(t2 + i - 1) # Turn(t + sz) /\ Turn(t2 + i - 1) \in Slots
              /\ (IF sz = Capacity THEN i + 1 ELSE i) \in 1 .. sz
<1> USE BufferOK DEF BufferOK, Slots
<1>1. \A n \in 0 .. 2 * Capacity - 1 :
        Turn(n) = (IF n < Capacity THEN n ELSE n - Capacity) /\ Turn(n) \in Slots
  BY TurnOnce
<1>2. CASE sz = Capacity /\ t + 1 < Capacity
  <2>1. t2 = t + 1 /\ sz2 = Capacity /\ Turn(t + sz) = t
    BY <1>1, <1>2
  <2> QED
    BY <1>1, <1>2, <2>1
<1>3. CASE sz = Capacity /\ t + 1 = Capacity
  <2>1. t2 = 0 /\ sz2 = Capacity /\ Turn(t + sz) = t
    BY <1>1, <1>3
  <2> QED
    BY <1>1, <1>3, <2>1
<1>4. CASE sz < Capacity
  BY <1>1, <1>4
<1> QED
  BY <1>2, <1>3, <1>4

LEMMA PushOK ==
  ASSUME RingOK, NEW p \in Packets, Push(p)
  PROVE  RingOK' /\ Window!WindowPush(p)
<1> DEFINE from(i) == IF size = Capacity THEN i + 1 ELSE i
<1>1. /\ head \in Slots /\ tail \in Slots /\ size \in 0 .. Capacity
      /\ head = Turn(tail + size) /\ head' = Turn(head + 1)
      /\ packets \in [Slots -> Packets \cup {NoPacket}]
      /\ packets' = [packets EXCEPT ![head] = p]
      /\ Capacity \in Nat
  BY BufferOK DEF RingOK, Push, BufferOK
<1>2. \/ size = Capacity /\ tail' = Turn(tail + 1) /\ size' = size
      \/ size < Capacity /\ tail' = tail /\ size' = size + 1
  BY DEF Push
<1>3. /\ tail' \in Slots /\ size' \in 1 .. Capacity
      /\ head' = Turn(tail' + size')
      /\ Turn(tail' + size' - 1) = head
      /\ \A i \in 1 .. size' - 1 :
           /\ Turn(tail' + i - 1) = Turn(tail + from(i) - 1)
           /\ Turn(tail' + i - 1) # head /\ Turn(tail' + i - 1) \in Slots
           /\ from(i) \in 1 .. size
  BY <1>1, <1>2, PushPlaces
<1>4. head' \in Slots
  <2>1. head + 1 \in 0 .. 2 * Capacity - 1
    BY <1>1 DEF Slots
  <2> QED
    BY <1>1, <2>1, TurnOnce
<1> HIDE DEF from
<1>5. /\ packets' \in [Slots -> Packets \cup {NoPacket}]
      /\ packets'[Turn(tail' + size' - 1)] = p
      /\ \A i \in 1 .. size' - 1 :
           packets'[Turn(tail' + i - 1)] = packets[Turn(tail + from(i) - 1)]
  BY <1>1, <1>3
<1>6. \A i \in 1 .. size' : i = size' \/ i \in 1 .. size' - 1
  <2>1. \A m \in 1 .. Capacity : \A i \in 1 .. m : i = m \/ i \in 1 .. m - 1
    BY <1>1
  <2> QED
    BY <1>3, <2>1
<1>7. \A i \in 1 .. size' : packets'[Turn(tail' + i - 1)] \in Packets
  <2>1. \A j \in 1 .. size : packets[Turn(tail + j - 1)] \in Packets
    BY DEF RingOK
  <2> QED
    BY <2>1, <1>3, <1>5, <1>6
<1>8. RingOK'
  <2>1. size' \in 0 .. Capacity
    BY <1>1, <1>3
  <2> QED
    BY <2>1, <1>3, <1>4, <1>5, <1>7 DEF RingOK
<1>9. Window!WindowPush(p)
  <2> DEFINE c == Contents
             kept == IF Len(c) = Capacity THEN Tail(c) ELSE c
             d == c'
  <2>1. /\ c \in Seq(Packets) /\ Len(c) = size
        /\ \A i \in 1 .. size : c[i] = packets[Turn(tail + i - 1)]
    BY ContentsIsSeq
  <2>2. /\ d \in Seq(Packets) /\ Len(d) = size'
        /\ \A i \in 1 .. size' : d[i] = packets'[Turn(tail' + i - 1)]
    <3>1. size' \in Nat
      BY <1>1, <1>3
    <3>2. d \in [1 .. size' -> Packets]
      BY <1>7 DEF Contents
    <3>3. d \in Seq(Packets)
      BY <3>1, <3>2, SeqDef
    <3>4. DOMAIN d = 1 .. size' /\ DOMAIN d = 1 .. Len(d) /\ Len(d) \in Nat
      BY <3>2, <3>3, LenProperties
    <3>5. Len(d) = size'
      BY <3>1, <3>4
    <3> QED
      BY <3>3, <3>5 DEF Contents
  <2>3. c' = d
    OBVIOUS
  <2> HIDE DEF c, d
  <2>4. /\ kept \in Seq(Packets) /\ Len(kept) = size' - 1 /\ Len(kept) \in Nat
        /\ \A i \in 1 .. size' - 1 : kept[i] = c[from(i)]
    <3>1. CASE size = Capacity
      <4>1. size # 0 /\ size' = size
        BY <3>1, <1>1, <1>2, <1>3
      <4>2. c # << >>
        BY <2>1, <4>1, EmptySeq
      <4>3. Tail(c) \in Seq(Packets) /\ Len(Tail(c)) = size' - 1
            /\ \A i \in 1 .. size' - 1 : Tail(c)[i] = c[i + 1]
        BY <2>1, <4>1, <4>2, HeadTailProperties
      <4> QED
        BY <2>1, <3>1, <4>3, LenProperties DEF from
    <3>2. CASE size < Capacity
      <4>1. size' - 1 = size /\ size # Capacity
        BY <3>2, <1>1, <1>2
      <4>2. \A i : from(i) = i
        BY <4>1 DEF from
      <4> QED
        BY <2>1, <4>1, <4>2, LenProperties
    <3> QED
      BY <3>1, <3>2, <1>2
  <2> HIDE DEF kept
  <2>5. /\ Append(kept, p) \in Seq(Packets) /\ Len(Append(kept, p)) = size'
        /\ \A i \in 1 .. size' - 1 : Append(kept, p)[i] = kept[i]
        /\ Append(kept, p)[size'] = p
    <3>1. \A s \in Seq(Packets) : Len(s) \in Nat =>
             /\ Append(s, p) \in Seq(Packets) /\ Len(Append(s, p)) = Len(s) + 1
             /\ \A i \in 1 .. Len(s) : Append(s, p)[i] = s[i]
             /\ Append(s, p)[Len(s) + 1] = p
      OBVIOUS
    <3>2. Len(kept) + 1 = size'
      <4>1. size' \in Int
        BY <1>1, <1>3
      <4>2. \A m, n \in Int : m = n - 1 => m + 1 = n
        OBVIOUS
      <4>3. Len(kept) = size' - 1 /\ Len(kept) \in Int
        BY <2>4
      <4> QED
        BY <4>1, <4>2, <4>3
    <3> QED
      BY <2>4, <3>1, <3>2
  <2>6. \A i \in 1 .. size' : d[i] = Append(kept, p)[i]
    <3>1. d[size'] = Append(kept, p)[size']
      BY <2>2, <2>5, <1>3, <1>5, <1>6
    <3>2. \A i \in 1 .. size' - 1 : c[from(i)] = packets[Turn(tail + from(i) - 1)]
      BY <1>3, <2>1
    <3>3. \A i \in 1 .. size' - 1 : d[i] = Append(kept, p)[i]
      <4>1. \A i \in 1 .. size' - 1 : i \in 1 .. size'
        <5>1. \A m \in 1 .. Capacity : \A i \in 1 .. m - 1 : i \in 1 .. m
          BY <1>1
        <5> QED
          BY <5>1, <1>3
      <4> QED
        BY <4>1, <3>2, <2>2, <2>4, <2>5, <1>5
    <3> QED
      BY <3>1, <3>3, <1>6
  <2>7. d = Append(kept, p)
    BY <2>2, <2>5, <2>6, SeqEqual
  <2> QED
    BY <2>3, <2>7 DEF c, kept, Window!WindowPush
<1> QED
  BY <1>8, <1>9

LEMMA ClearOK ==
  ASSUME Clear
  PROVE  RingOK' /\ Window!WindowClear
<1>1. Turn(0) = 0
  BY BufferOK, TurnOnce DEF BufferOK
<1>2. RingOK'
  BY BufferOK, <1>1 DEF BufferOK, Clear, RingOK, Slots
<1>3. Contents' = << >>
  <2>1. Contents' \in [1 .. 0 -> Packets]
    BY DEF Clear, Contents
  <2>2. Contents' \in Seq(Packets)
    BY <2>1, SeqDef
  <2>3. Len(Contents') = 0
    BY <2>1, <2>2, LenProperties
  <2> QED
    BY <2>2, <2>3, EmptySeq
<1> QED
  BY <1>2, <1>3 DEF Window!WindowClear

\* Where the packets lie after Pop: each one place nearer to the tail.
LEMMA PopPlaces ==
  ASSUME NEW t \in Slots, NEW sz \in 1 .. Capacity
  PROVE  /\ Turn(t + 1) \in Slots /\ sz - 1 \in 0 .. Capacity
         /\ Turn(t + sz) = Turn(Turn(t + 1) + (sz - 1))
         /\ \A i \in 1 .. sz - 1 :
              /\ i + 1 \in 1 .. sz
              /\ Turn(Turn(t + 1) + i - 1) = Turn(t + (i + 1) - 1)
              /\ Turn(t + (i + 1) - 1) \in Slots
              /\ Turn(t + (i + 1) - 1) # t
<1> USE BufferOK DEF BufferOK, Slots
<1>1. \A n \in 0 .. 2 * Capacity - 1 :
        Turn(n) = (IF n < Capacity THEN n ELSE n - Capacity) /\ Turn(n) \in Slots
  BY TurnOnce
<1>2. CASE t + 1 < Capacity
  <2>1. Turn(t + 1) = t + 1
    BY <1>1, <1>2
  <2> QED
    BY <1>1, <1>2, <2>1
<1>3. CASE t + 1 = Capacity
  <2>1. Turn(t + 1) = 0
    BY <1>1, <1>3
  <2> QED
    BY <1>1, <1>3, <2>1
<1> QED
  BY <1>2, <1>3

LEMMA PopOK ==
  ASSUME RingOK, Pop
  PROVE  RingOK' /\ Window!WindowPop
<1>1. /\ tail \in Slots /\ size \in 1 .. Capacity /\ Capacity \in Nat
      /\ head \in Slots /\ head = Turn(tail + size) /\ head' = head
      /\ packets \in [Slots -> Packets \cup {NoPacket}]
      /\ packets' = [packets EXCEPT ![tail] = NoPacket]
      /\ tail' = Turn(tail + 1) /\ size' = size - 1
      /\ \A i \in 1 .. size : packets[Turn(tail + i - 1)] \in Packets
  BY BufferOK DEF RingOK, Pop, BufferOK
<1>2. /\ tail' \in Slots /\ size' \in 0 .. Capacity /\ head' = Turn(tail' + size')
      /\ \A i \in 1 .. size' :
           /\ i + 1 \in 1 .. size
           /\ Turn(tail' + i - 1) = Turn(tail + (i + 1) - 1)
           /\ Turn(tail + (i + 1) - 1) \in Slots
           /\ Turn(tail + (i + 1) - 1) # tail
  BY <1>1, PopPlaces
<1>3. /\ packets' \in [Slots -> Packets \cup {NoPacket}]
      /\ \A i \in 1 .. size' :
           packets'[Turn(tail' + i - 1)] = packets[Turn(tail + (i + 1) - 1)]
  BY <1>1, <1>2
<1>4. \A i \in 1 .. size' : packets'[Turn(tail' + i - 1)] \in Packets
  BY <1>1, <1>2, <1>3
<1>5. RingOK'
  BY <1>1, <1>2, <1>3, <1>4 DEF RingOK
<1>6. Window!WindowPop
  <2> DEFINE c == Contents
             d == c'
  <2>1. /\ c \in Seq(Packets) /\ Len(c) = size
        /\ \A i \in 1 .. size : c[i] = packets[Turn(tail + i - 1)]
    BY ContentsIsSeq
  <2>2. /\ d \in Seq(Packets) /\ Len(d) = size'
        /\ \A i \in 1 .. size' : d[i] = packets'[Turn(tail' + i - 1)]
    <3>1. size' \in Nat
      BY <1>1
    <3>2. d \in [1 .. size' -> Packets]
      BY <1>4 DEF Contents
    <3>3. d \in Seq(Packets)
      BY <3>1, <3>2, SeqDef
    <3>4. DOMAIN d = 1 .. size' /\ DOMAIN d = 1 .. Len(d) /\ Len(d) \in Nat
      BY <3>2, <3>3, LenProperties
    <3>5. Len(d) = size'
      BY <3>1, <3>4
    <3> QED
      BY <3>3, <3>5 DEF Contents
  <2>3. c' = d
    OBVIOUS
  <2> HIDE DEF c, d
  <2>4. c # << >>
    BY <2>1, <1>1, EmptySeq
  <2>5. Tail(c) \in Seq(Packets) /\ Len(Tail(c)) = size'
        /\ \A i \in 1 .. size' : Tail(c)[i] = c[i + 1]
    BY <2>1, <2>4, <1>1, HeadTailProperties
  <2>6. \A i \in 1 .. size' : d[i] = Tail(c)[i]
    BY <2>1, <2>2, <2>5, <1>2, <1>3
  <2>7. d = Tail(c)
    BY <2>2, <2>5, <2>6, SeqEqual
  <2> QED
    BY <2>3, <2>4, <2>7 DEF c, Window!WindowPop
<1> QED
  BY <1>5, <1>6

\* A step that leaves the ring alone leaves the window alone.
LEMMA RingUnchanged ==
  ASSUME RingOK, UNCHANGED ring
  PROVE  RingOK' /\ UNCHANGED Contents
<1>1. packets' = packets /\ head' = head /\ tail' = tail /\ size' = size
  BY DEF ring
<1> QED
  BY <1>1 DEF RingOK, Contents

LEMMA RingStep ==
  ASSUME RingOK, [RingNext]_ring
  PROVE  RingOK' /\ [Window!WindowNext]_Contents
<1>1. CASE Pop
  BY <1>1, PopOK DEF Window!WindowNext
<1>2. CASE Clear
  BY <1>2, ClearOK DEF Window!WindowNext
<1>3. ASSUME NEW p \in Packets, Push(p)
      PROVE  RingOK' /\ [Window!WindowNext]_Contents
  BY <1>3, PushOK DEF Window!WindowNext
<1>4. CASE UNCHANGED ring
  BY <1>4, RingUnchanged
<1> QED
  BY <1>1, <1>2, <1>3, <1>4 DEF RingNext

\* In any sequence of Push, Pop and Clear head, tail and size stay together
\* (packet_buffer.go:39-60, 96-110, 139-149).
THEOREM RingKeepsOrder == RingSpec => []RingOK
<1>1. RingInit => RingOK
  BY InitOK
<1>2. RingOK /\ [RingNext]_ring => RingOK'
  BY RingStep
<1> QED
  BY <1>1, <1>2, PTL DEF RingSpec

\* The ring implements the window: Push gives up the oldest packet, and only
\* when Capacity packets are held, Pop returns the oldest, for any capacity.
THEOREM RingImplementsWindow == RingSpec => BufferIsWindow
<1>1. RingInit => Window!WindowInit
  BY InitOK
<1>2. RingOK /\ [RingNext]_ring => [Window!WindowNext]_Contents
  BY RingStep
<1> QED
  BY <1>1, <1>2, RingKeepsOrder, PTL DEF RingSpec, BufferIsWindow, Window!WindowSpec

\* The i-th packet back from head is the one size - i places after the oldest.
LEMMA BackFromHead ==
  ASSUME RingOK, NEW i \in 0 .. size - 1
  PROVE  /\ size - i \in 1 .. size
         /\ Turn(head - 1 - i + Capacity) = Turn(tail + (size - i) - 1)
<1> USE BufferOK DEF BufferOK
<1>1. /\ head \in 0 .. Capacity - 1 /\ tail \in 0 .. Capacity - 1 /\ size \in 0 .. Capacity
      /\ head = Turn(tail + size) /\ Capacity \in Nat \ {0}
  BY DEF RingOK, Slots
<1>2. /\ tail + size \in 0 .. 2 * Capacity - 1
      /\ head - 1 - i + Capacity \in 0 .. 2 * Capacity - 1
      /\ tail + (size - i) - 1 \in 0 .. 2 * Capacity - 1
  BY <1>1
<1> DEFINE back == head - 1 - i + Capacity
           forth == tail + (size - i) - 1
<1>3. head = IF tail + size < Capacity THEN tail + size ELSE tail + size - Capacity
  BY <1>1, <1>2, TurnOnce
<1>4. Turn(back) = IF back < Capacity THEN back ELSE back - Capacity
  <2> HIDE DEF back
  <2> QED BY <1>2, TurnOnce DEF back
<1>5. Turn(forth) = IF forth < Capacity THEN forth ELSE forth - Capacity
  <2> HIDE DEF forth
  <2> QED BY <1>2, TurnOnce DEF forth
<1>6. Turn(back) = Turn(forth)
  <2>1. CASE tail + size < Capacity
    BY <1>1, <1>3, <1>4, <1>5, <2>1
  <2>2. CASE tail + size >= Capacity
    BY <1>1, <1>3, <1>4, <1>5, <2>2
  <2> QED BY <1>1, <2>1, <2>2
<1>7. size - i \in 1 .. size
  BY <1>1
<1> QED BY <1>6, <1>7

LEMMA GetOfRing == RingOK => GetFindsTheWindow
<1> SUFFICES ASSUME RingOK, NEW n \in Packets
             PROVE  Cached(n) <=> \E j \in 1 .. size : Contents[j] = n
  BY DEF GetFindsTheWindow
<1>1. size \in Nat /\ \A j \in 1 .. size : Contents[j] = packets[Turn(tail + j - 1)]
  BY BufferOK, ContentsIsSeq DEF RingOK, BufferOK
<1>2. ASSUME NEW i \in 0 .. size - 1, packets[Turn(head - 1 - i + Capacity)] = n
      PROVE  \E j \in 1 .. size : Contents[j] = n
  <2>1. size - i \in 1 .. size /\ Contents[size - i] = n
    BY <1>1, <1>2, BackFromHead
  <2> QED BY <2>1
<1>3. ASSUME NEW j \in 1 .. size, Contents[j] = n
      PROVE  \E i \in 0 .. size - 1 : packets[Turn(head - 1 - i + Capacity)] = n
  <2> DEFINE i == size - j
  <2>1. i \in 0 .. size - 1 /\ size - i = j
    BY <1>1
  <2> HIDE DEF i
  <2>2. packets[Turn(head - 1 - i + Capacity)] = n
    BY <1>1, <1>3, <2>1, BackFromHead
  <2> QED BY <2>1, <2>2
<1> QED BY <1>2, <1>3 DEF Cached

-----------------------------------------------------------------------------
(* MediaPath. *)

\* Every step pushes a packet, starts a new ring or leaves the ring alone.
LEMMA RingOfStep ==
  ASSUME [Next]_vars
  PROVE  [RingNext]_ring
<1>1. CASE UNCHANGED vars
  BY <1>1 DEF vars, ring
<1>2. ASSUME NEW l \in Layers, TrackArrives(l) \/ HostRejoins(l) \/ Bandwidth(l)
      PROVE  [RingNext]_ring
  BY <1>2 DEF TrackArrives, HostRejoins, Bandwidth, RingNext
<1>3. ASSUME NEW l \in Layers, NEW n \in Packets, NEW kind, NEW s \in Layers,
             Arrive(l, n, kind, s)
      PROVE  [RingNext]_ring
  BY <1>3 DEF Arrive, RingNext
<1>4. ASSUME NEW pair, Nack(pair)
      PROVE  [RingNext]_ring
  BY <1>4 DEF Nack
<1>5. CASE Deliver \/ Congested \/ Leave \/ AnotherAttaches \/ AnotherLeaves
  BY <1>5 DEF Deliver, Congested, Leave, AnotherAttaches, AnotherLeaves
<1> QED
  BY <1>1, <1>2, <1>3, <1>4, <1>5 DEF Next

\* The ring in which NACKs are looked up is, at any time, the window of the
\* packets of the host's connection (packet_buffer.go, host_handler.go:126-252).
THEOREM MediaBufferIsWindow == Spec => BufferIsWindow
<1>1. Init => RingInit
  BY DEF Init
<1>2. [Next]_vars => [RingNext]_ring
  BY RingOfStep
<1>3. Spec => RingSpec
  BY <1>1, <1>2, PTL DEF Spec, RingSpec
<1> QED
  BY <1>3, RingImplementsWindow, PTL

\* Whatever the host has sent and however often the ring has turned over, a NACK
\* is looked up in exactly the packets of the window (packet_buffer.go:64-82).
THEOREM GetSearchesTheWindow == Spec => []GetFindsTheWindow
<1>1. Init => RingInit
  BY DEF Init
<1>2. [Next]_vars => [RingNext]_ring
  BY RingOfStep
<1>3. Spec => RingSpec
  BY <1>1, <1>2, PTL DEF Spec, RingSpec
<1>4. RingOK => GetFindsTheWindow
  BY GetOfRing
<1> QED
  BY <1>3, <1>4, RingKeepsOrder, PTL

-----------------------------------------------------------------------------
(* The layer of a VP9 viewer.                                              *)

LEMMA LayerInit == Init => LayerOK
<1> SUFFICES ASSUME Init, vp9
             PROVE  current = spatial /\ spatial \in Layers /\ target \in Layers
  BY DEF LayerOK
<1>1. published = {High}
  BY DEF Init
<1>2. Max({High}) = High
  BY DEF Max, High
<1> QED
  BY <1>1, <1>2 DEF Init, High, Layers

\* A packet written to the switcher keeps name and number of the layer equal.
LEMMA WriteKeepsLayer ==
  ASSUME LayerOK, NEW l, NEW n, NEW kind, NEW s, WriteRTP(l, n, kind, s),
         vp9' = vp9
  PROVE  LayerOK'
<1> SUFFICES ASSUME vp9
             PROVE  /\ current' = spatial' /\ spatial' \in Layers
                    /\ target' \in Layers
  BY DEF LayerOK
<1>1. current = spatial /\ spatial \in Layers /\ target \in Layers
  BY DEF LayerOK
<1>2. CASE AwaitKeyframe(n, kind)
  BY <1>1, <1>2 DEF AwaitKeyframe, switcher, layer
<1>3. CASE ForwardVP9(n, kind, s)
  BY <1>1, <1>3 DEF ForwardVP9
<1>4. CASE kind = "empty" /\ ForwardSimulcast(l, n, kind)
  BY <1>1, <1>4 DEF ForwardSimulcast, switcher, layer
<1> QED
  BY <1>2, <1>3, <1>4 DEF WriteRTP

\* A report of loss lowers name and number of the layer together.
LEMMA DropLowers ==
  ASSUME LayerOK, vp9, DropHighestSpatialLayer
  PROVE  /\ current' = spatial' /\ spatial' \in Layers /\ target' \in Layers
         /\ ~(current' > current)
<1>1. current = spatial /\ spatial \in Layers /\ target \in Layers
  BY DEF LayerOK
<1> QED
  BY <1>1 DEF DropHighestSpatialLayer, layer, Layers

LEMMA SwitchKeeps ==
  ASSUME LayerOK, vp9, NEW l \in Layers, SwitchLayer(l)
  PROVE  /\ current' = spatial' /\ spatial' \in Layers /\ target' \in Layers
         /\ ~(current' > current)
BY DEF LayerOK, SwitchLayer, Layers

LEMMA LayerStep ==
  ASSUME LayerOK, [Next]_vars
  PROVE  LayerOK' /\ (vp9 /\ current' > current => \E n \in Packets : Push(n))
<1> DEFINE Goal == LayerOK' /\ (vp9 /\ current' > current => \E n \in Packets : Push(n))
<1> SUFFICES Goal
  OBVIOUS
<1>1. ASSUME vp9' = vp9, UNCHANGED layer
      PROVE  Goal
  BY <1>1 DEF LayerOK, layer, Layers
<1>2. CASE UNCHANGED vars
  BY <1>1, <1>2 DEF vars, switcher
<1>3. ASSUME NEW l \in Layers, TrackArrives(l) \/ HostRejoins(l)
      PROVE  Goal
  BY <1>1, <1>3 DEF TrackArrives, HostRejoins
<1>4. ASSUME NEW l \in Layers, Bandwidth(l)
      PROVE  Goal
  BY <1>4, SwitchKeeps DEF Bandwidth, LayerOK
<1>5. ASSUME NEW l \in Layers, NEW n \in Packets, NEW kind, NEW s \in Layers,
             Arrive(l, n, kind, s)
      PROVE  Goal
  <2>1. Push(n) /\ vp9' = vp9
    BY <1>5 DEF Arrive
  <2>2. CASE WriteRTP(l, n, kind, s)
    BY <2>1, <2>2, WriteKeepsLayer
  <2>3. CASE UNCHANGED switcher
    BY <2>1, <2>3, <1>1 DEF switcher
  <2> QED
    BY <1>5, <2>2, <2>3 DEF Arrive
<1>6. ASSUME NEW pair, Nack(pair)
      PROVE  Goal
  <2>1. vp9' = vp9 /\ LowerOnLoss
    BY <1>6 DEF Nack
  <2>2. CASE UNCHANGED layer
    BY <2>1, <2>2, <1>1
  <2>3. CASE DropHighestSpatialLayer
    BY <2>1, <2>3, DropLowers DEF LayerOK
  <2>4. CASE SwitchLayer(Medium)
    <3>1. Medium \in Layers
      BY DEF Medium, Layers
    <3> QED
      BY <2>1, <2>4, <3>1, SwitchKeeps DEF LayerOK
  <2> QED
    BY <2>1, <2>2, <2>3, <2>4 DEF LowerOnLoss
<1>7. CASE Congested
  BY <1>7, DropLowers DEF Congested, LayerOK
<1>8. CASE Leave
  <2>1. vp9' = vp9 /\ current' = 0 /\ spatial' = 0 /\ target' = 0
    BY <1>8 DEF Leave
  <2> QED
    BY <2>1 DEF LayerOK, Layers
<1>9. CASE Deliver \/ AnotherAttaches \/ AnotherLeaves
  BY <1>1, <1>9 DEF Deliver, AnotherAttaches, AnotherLeaves, switcher
<1> HIDE DEF Goal
<1> QED
  <2>1. CASE \E l \in Layers : TrackArrives(l) \/ HostRejoins(l) \/ Bandwidth(l)
    BY <2>1, <1>3, <1>4
  <2>2. CASE \E l \in Layers, n \in Packets, kind \in Kinds, s \in Layers :
               Arrive(l, n, kind, s)
    BY <2>2, <1>5
  <2>3. CASE \E pair : Nack(pair)
    BY <2>3, <1>6
  <2>4. Next => \/ \E l \in Layers : TrackArrives(l) \/ HostRejoins(l) \/ Bandwidth(l)
                \/ \E l \in Layers, n \in Packets, kind \in Kinds, s \in Layers :
                     Arrive(l, n, kind, s)
                \/ \E pair : Nack(pair)
                \/ Deliver \/ Congested \/ Leave \/ AnotherAttaches \/ AnotherLeaves
    BY DEF Next
  <2> QED
    BY <2>1, <2>2, <2>3, <2>4, <1>2, <1>7, <1>8, <1>9

\* A VP9 viewer's layer rises only with a packet of the host; NACKs and loss
\* reports lower it or leave it (track_switcher.go:182-210, viewer_handler.go:466-482).
THEOREM LossLowersVP9 == Spec => LossNeverRaisesLayer
<1>1. LayerOK /\ [Next]_vars
        => LayerOK' /\ [vp9 /\ current' > current => \E n \in Packets : Push(n)]_vars
  BY LayerStep
<1> QED
  BY <1>1, LayerInit, PTL DEF Spec, LossNeverRaisesLayer

-----------------------------------------------------------------------------
(* BuildNackPairs, for any finite set of numbers.  What is defined and what  *)
(* is proved by recursion over the set goes by its size: a smallest size at  *)
(* which it fails, NatLeast, leads to a smaller one.                         *)

LEMMA NatLeast ==
  ASSUME NEW T \in SUBSET Nat, T # {}
  PROVE  \E x \in T : \A y \in T : x <= y
<1> DEFINE R == {ss \in Nat \X Nat : ss[1] < ss[2]}
<1>1. IsWellFoundedOn(R, Nat)
  BY NatLessThanWellFounded DEF OpToRel
<1>2. \A x, y \in Nat : y < x => <<y, x>> \in R
  OBVIOUS
<1> HIDE DEF R
<1>3. PICK x \in T : \A y \in T : ~ (<<y, x>> \in R)
  BY <1>1, WFMin
<1>4. ASSUME NEW y \in T PROVE x <= y
  <2>1. x \in Nat /\ y \in Nat
    OBVIOUS
  <2>2. ~ (y < x)
    BY <1>2, <1>3, <2>1
  <2> QED BY <2>1, <2>2
<1> QED BY <1>4

LEMMA MinIs ==
  ASSUME NEW S \in SUBSET Nat, S # {}
  PROVE  Min(S) \in S /\ \A n \in S : Min(S) <= n
BY NatLeast DEF Min

\* What the mask of the smallest number reaches, and the pair for it.
Near(S) == {n \in S : n - Min(S) <= MaskBits}
FirstPair(S) == [id |-> Min(S), mask |-> {n - Min(S) : n \in Near(S)} \ {0}]

\* f is the function of BuildNackPairs.
ArePairs(f, M) ==
  f = [S \in SUBSET M |-> IF S = {} THEN {} ELSE {FirstPair(S)} \cup f[S \ Near(S)]]

LEMMA BuildIs ==
  ASSUME NEW M, \E f : ArePairs(f, M)
  PROVE  \E f : ArePairs(f, M) /\ BuildNackPairs(M) = f[M]
<1> DEFINE g == CHOOSE f : ArePairs(f, M)
<1>1. ArePairs(g, M)
  OBVIOUS
<1>2. BuildNackPairs(M) = g[M]
  BY DEF BuildNackPairs, ArePairs, FirstPair, Near
<1> QED BY <1>1, <1>2

LEMMA NearIs ==
  ASSUME NEW S \in SUBSET Nat, S # {}
  PROVE  /\ Min(S) \in Near(S) /\ Near(S) \subseteq S
         /\ S \ Near(S) \subseteq S /\ S \ Near(S) # S
<1>1. Min(S) \in S /\ Min(S) \in Nat
  BY MinIs
<1>2. Min(S) - Min(S) <= MaskBits
  BY <1>1, MediaOK DEF MediaOK
<1> QED BY <1>1, <1>2 DEF Near

LEMMA LostOfOne ==
  ASSUME NEW p
  PROVE  Lost({p}) = {p.id} \cup {p.id + d : d \in p.mask}
BY DEF Lost

\* One pair asks for what is near the smallest number.
LEMMA FirstAsks ==
  ASSUME NEW S \in SUBSET Nat, S # {}
  PROVE  Lost({FirstPair(S)}) = Near(S)
<1>1. /\ Min(S) \in Nat /\ Near(S) \in SUBSET Nat /\ Min(S) \in Near(S)
      /\ \A n \in Near(S) : Min(S) <= n
  BY MinIs, NearIs
<1> DEFINE b == Min(S)
           near == Near(S)
<1>2. Lost({FirstPair(S)}) = {b} \cup {b + d : d \in {n - b : n \in near} \ {0}}
  <2>1. FirstPair(S).id = b /\ FirstPair(S).mask = {n - b : n \in near} \ {0}
    BY DEF FirstPair
  <2> HIDE DEF b, near
  <2> QED BY <2>1, LostOfOne
<1> HIDE DEF b, near
<1>3. b \in Nat /\ near \in SUBSET Nat /\ b \in near /\ \A n \in near : b <= n
  BY <1>1 DEF b, near
<1> DEFINE gaps == {n - b : n \in near} \ {0}
           lost == {b} \cup {b + d : d \in gaps}
<1>4. lost = near
  <2>1. ASSUME NEW n \in near PROVE n \in lost
    <3>1. n \in Nat /\ n - b \in Nat /\ b + (n - b) = n
      BY <1>3
    <3>2. CASE n = b
      BY <3>2
    <3>3. CASE n # b
      <4>1. n - b \in {m - b : m \in near} \ {0}
        BY <1>3, <3>1, <3>3
      <4> QED BY <3>1, <4>1
    <3> QED BY <3>2, <3>3
  <2>2. ASSUME NEW d \in gaps PROVE b + d \in near
    <3>1. PICK m \in near : d = m - b
      OBVIOUS
    <3>2. b + (m - b) = m
      BY <1>3
    <3> QED BY <3>1, <3>2
  <2>3. ASSUME NEW x \in lost PROVE x \in near
    <3>1. x = b \/ \E d \in gaps : x = b + d
      <4> HIDE DEF gaps
      <4> QED OBVIOUS
    <3> HIDE DEF gaps
    <3> QED BY <1>3, <2>2, <3>1
  <2> HIDE DEF lost
  <2> QED BY <2>1, <2>3
<1> QED BY <1>2, <1>4 DEF near

LEMMA LostOfUnion ==
  ASSUME NEW P, NEW Q
  PROVE  Lost(P \cup Q) = Lost(P) \cup Lost(Q)
BY DEF Lost

LEMMA LostOfMember ==
  ASSUME NEW P, NEW p \in P
  PROVE  Lost({p}) \subseteq Lost(P)
BY DEF Lost

UpTo(M, n) == {S \in SUBSET M : Cardinality(S) <= n}

\* The function that BuildNackPairs defines by recursion exists.
LEMMA PairsExist ==
  ASSUME NEW M \in SUBSET Nat, IsFiniteSet(M)
  PROVE  \E f : ArePairs(f, M)
<1> DEFINE Step(f, S) == IF S = {} THEN {} ELSE {FirstPair(S)} \cup f[S \ Near(S)]
           Bad == {n \in Nat : ~ \E f : f = [S \in UpTo(M, n) |-> Step(f, S)]}
<1>1. \A S \in SUBSET M : /\ S \in SUBSET Nat /\ IsFiniteSet(S) /\ Cardinality(S) \in Nat
                          /\ Cardinality(S) <= Cardinality(M)
                          /\ Cardinality(S) = 0 <=> S = {}
  BY FS_Subset, FS_CardinalityType, FS_EmptySet
<1>2. ASSUME NEW n \in Nat, NEW S \in UpTo(M, n), S # {}
      PROVE  n # 0 /\ S \ Near(S) \in UpTo(M, n - 1)
  <2>1. S \in SUBSET M /\ Cardinality(S) <= n
    BY DEF UpTo
  <2>2. S \ Near(S) \in SUBSET S /\ S \ Near(S) # S
    BY <1>1, <1>2, <2>1, NearIs
  <2>3. Cardinality(S \ Near(S)) <= Cardinality(S) /\ Cardinality(S \ Near(S)) # Cardinality(S)
    BY <1>1, <2>1, <2>2, FS_Subset
  <2>4. S \ Near(S) \in SUBSET M
    BY <2>1
  <2> QED BY <1>1, <1>2, <2>1, <2>3, <2>4 DEF UpTo
<1>3. ASSUME Bad # {} PROVE FALSE
  <2>1. PICK n \in Bad : \A m \in Bad : n <= m
    BY <1>3, NatLeast
  <2>2. n \in Nat
    OBVIOUS
  <2>3. \E f : f = [S \in UpTo(M, n) |-> Step(f, S)]
    <3>1. CASE n = 0
      <4>1. \A S \in UpTo(M, n) : S = {}
        BY <1>2, <2>2, <3>1
      <4> DEFINE f == [S \in UpTo(M, n) |-> {}]
      <4>2. f = [S \in UpTo(M, n) |-> Step(f, S)]
        BY <4>1
      <4> QED BY <4>2
    <3>2. CASE n # 0
      <4>1. n - 1 \in Nat /\ n - 1 \notin Bad
        <5> HIDE DEF Bad
        <5> QED BY <2>1, <2>2, <3>2
      <4>2. PICK g : g = [S \in UpTo(M, n - 1) |-> Step(g, S)]
        BY <4>1
      <4> DEFINE f == [S \in UpTo(M, n) |-> Step(g, S)]
      <4>3. \A S \in UpTo(M, n - 1) : f[S] = g[S]
        <5>1. UpTo(M, n - 1) \subseteq UpTo(M, n)
          BY <1>1, <2>2 DEF UpTo
        <5>2. \A S \in UpTo(M, n - 1) : g[S] = Step(g, S)
          BY <4>2
        <5>3. \A S \in UpTo(M, n) : f[S] = Step(g, S)
          OBVIOUS
        <5> HIDE DEF f, Step
        <5> QED BY <5>1, <5>2, <5>3
      <4>4. \A S \in UpTo(M, n) : Step(g, S) = Step(f, S)
        <5>1. ASSUME NEW S \in UpTo(M, n), S # {} PROVE f[S \ Near(S)] = g[S \ Near(S)]
          <6> HIDE DEF f
          <6> QED BY <1>2, <2>2, <4>3, <5>1
        <5> HIDE DEF f
        <5> QED BY <5>1
      <4>5. f = [S \in UpTo(M, n) |-> Step(f, S)]
        <5>1. f = [S \in UpTo(M, n) |-> Step(g, S)]
          OBVIOUS
        <5> HIDE DEF f, Step
        <5> QED BY <4>4, <5>1
      <4> QED BY <4>5
    <3> QED BY <3>1, <3>2
  <2> QED BY <2>1, <2>3
<1>4. UpTo(M, Cardinality(M)) = SUBSET M /\ Cardinality(M) \in Nat
  BY <1>1, FS_CardinalityType DEF UpTo
<1>5. PICK f : f = [S \in UpTo(M, Cardinality(M)) |-> Step(f, S)]
  BY <1>3, <1>4
<1>6. ArePairs(f, M)
  BY <1>4, <1>5 DEF ArePairs
<1> QED BY <1>6

\* No number is asked for twice; a pair has the bits of its mask.
Disjoint(pairs) == \A r, t \in pairs : r # t => Lost({r}) \cap Lost({t}) = {}
Fit(pairs) == pairs \subseteq [id : Nat, mask : SUBSET (1 .. MaskBits)]

LEMMA FirstFits ==
  ASSUME NEW S \in SUBSET Nat, S # {}
  PROVE  Fit({FirstPair(S)})
<1>1. Min(S) \in Nat /\ \A n \in Near(S) : n \in Nat /\ Min(S) <= n /\ n - Min(S) <= MaskBits
  BY MinIs DEF Near
<1>2. \A n \in Near(S) : n - Min(S) # 0 => n - Min(S) \in 1 .. MaskBits
  BY <1>1, MediaOK DEF MediaOK
<1>3. {n - Min(S) : n \in Near(S)} \ {0} \in SUBSET (1 .. MaskBits)
  BY <1>2
<1> QED BY <1>1, <1>3 DEF Fit, FirstPair

LEMMA PairsAsk ==
  ASSUME NEW M \in SUBSET Nat, IsFiniteSet(M), NEW f, ArePairs(f, M)
  PROVE  Lost(f[M]) = M /\ Disjoint(f[M]) /\ Fit(f[M])
<1> DEFINE Good(S) == Lost(f[S]) = S /\ Disjoint(f[S]) /\ Fit(f[S])
           Bad == {n \in Nat : \E S \in SUBSET M : Cardinality(S) = n /\ ~Good(S)}
<1>1. \A S \in SUBSET M : S \in SUBSET Nat /\ IsFiniteSet(S) /\ Cardinality(S) \in Nat
  BY FS_Subset, FS_CardinalityType
<1>2. ASSUME NEW S \in SUBSET M, S # {}, Good(S \ Near(S)) PROVE Good(S)
  <2> DEFINE R == S \ Near(S)
  <2>1. S \in SUBSET Nat /\ R \in SUBSET M /\ Near(S) \cup R = S
    BY <1>1, <1>2, NearIs
  <2>2. f[S] = {FirstPair(S)} \cup f[R]
    BY <1>2 DEF ArePairs
  <2>3. Lost({FirstPair(S)}) = Near(S)
    BY <1>2, <2>1, FirstAsks
  <2>4. Lost(f[R]) = R /\ Disjoint(f[R]) /\ Fit(f[R])
    BY <1>2
  <2>5. Lost(f[S]) = S
    <3> HIDE DEF R
    <3> QED BY <2>1, <2>2, <2>3, <2>4, LostOfUnion
  <2>6. ASSUME NEW r \in f[S], NEW t \in f[S], r # t PROVE Lost({r}) \cap Lost({t}) = {}
    <3>1. ASSUME NEW x \in f[R] PROVE Lost({x}) \cap Lost({FirstPair(S)}) = {}
      <4>1. Lost({x}) \subseteq R
        BY <2>4, LostOfMember
      <4> QED BY <2>3, <4>1
    <3> HIDE DEF R
    <3>2. CASE r \in f[R] /\ t \in f[R]
      BY <2>4, <2>6, <3>2 DEF Disjoint
    <3>3. CASE r = FirstPair(S) /\ t \in f[R]
      BY <3>1, <3>3
    <3>4. CASE r \in f[R] /\ t = FirstPair(S)
      BY <3>1, <3>4
    <3> QED BY <2>2, <2>6, <3>2, <3>3, <3>4
  <2>7. Fit(f[S])
    BY <1>2, <2>1, <2>2, <2>4, FirstFits DEF Fit
  <2> QED BY <2>5, <2>6, <2>7 DEF Disjoint
<1>3. Good({})
  BY DEF ArePairs, Lost, Disjoint, Fit
<1>4. ASSUME Bad # {} PROVE FALSE
  <2>1. PICK n \in Bad : \A m \in Bad : n <= m
    BY <1>4, NatLeast
  <2>2. PICK S \in SUBSET M : Cardinality(S) = n /\ ~Good(S)
    BY <2>1
  <2>3. S # {}
    <3> HIDE DEF Good
    <3> QED BY <1>3, <2>2
  <2> DEFINE R == S \ Near(S)
  <2>4. R \in SUBSET S /\ R # S /\ R \in SUBSET M
    BY <1>1, <2>3, NearIs
  <2>5. Cardinality(R) \in Nat /\ Cardinality(R) < n
    <3>1. /\ Cardinality(R) \in Nat /\ Cardinality(S) \in Nat /\ IsFiniteSet(S)
          /\ Cardinality(R) <= Cardinality(S) /\ Cardinality(R) # Cardinality(S)
      BY <1>1, <2>4, FS_Subset
    <3> QED BY <2>2, <3>1
  <2>6. Cardinality(R) \notin Bad
    <3>1. n \in Nat
      BY <2>1
    <3> HIDE DEF Bad, R
    <3> QED BY <2>1, <2>5, <3>1
  <2>7. Good(R)
    <3> HIDE DEF Good, R
    <3> QED BY <2>4, <2>5, <2>6
  <2>8. Good(S)
    <3> HIDE DEF Good
    <3> QED BY <1>2, <2>3, <2>7
  <2> QED BY <2>2, <2>8
<1> HIDE DEF Good
<1>5. Good(M)
  BY <1>1, <1>4
<1> QED BY <1>5 DEF Good

\* Whatever packets are missing, the pairs of BuildNackPairs ask for all of
\* them, for nothing else and for none twice, and each mask has its bits.
THEOREM NackPairsCover ==
  ASSUME NEW missing \in SUBSET Nat, IsFiniteSet(missing)
  PROVE  LET pairs == BuildNackPairs(missing)
         IN /\ Lost(pairs) = missing
            /\ \A r, t \in pairs : r # t => Lost({r}) \cap Lost({t}) = {}
            /\ pairs \subseteq [id : Nat, mask : SUBSET (1 .. MaskBits)]
<1>1. PICK f : ArePairs(f, missing) /\ BuildNackPairs(missing) = f[missing]
  BY PairsExist, BuildIs
<1>2. Lost(f[missing]) = missing /\ Disjoint(f[missing]) /\ Fit(f[missing])
  BY <1>1, PairsAsk
<1> QED BY <1>1, <1>2 DEF Disjoint, Fit

LEMMA LostIsFinite ==
  ASSUME NEW p \in [id : Nat, mask : SUBSET (1 .. MaskBits)]
  PROVE  Lost({p}) \in SUBSET Nat /\ IsFiniteSet(Lost({p}))
<1> USE MediaOK DEF MediaOK
<1>1. Lost({p}) \in SUBSET (p.id .. p.id + MaskBits)
  <2>1. p.id \in Nat /\ p.mask \in SUBSET (1 .. MaskBits)
    OBVIOUS
  <2>2. \A d \in p.mask : p.id + d \in p.id .. p.id + MaskBits
    BY <2>1
  <2>3. p.id \in p.id .. p.id + MaskBits
    BY <2>1
  <2> QED BY <2>2, <2>3, LostOfOne
<1>2. p.id \in Nat /\ p.id + MaskBits \in Nat
  OBVIOUS
<1>3. p.id .. p.id + MaskBits \subseteq Nat
  BY <1>2
<1>4. IsFiniteSet(p.id .. p.id + MaskBits)
  BY <1>2, FS_Interval
<1>5. Lost({p}) \in SUBSET Nat
  BY <1>1, <1>3
<1> DEFINE all == p.id .. p.id + MaskBits
<1> HIDE DEF all
<1>6. IsFiniteSet(all) /\ Lost({p}) \in SUBSET all
  BY <1>1, <1>4 DEF all
<1>7. IsFiniteSet(Lost({p}))
  BY <1>6, FS_Subset
<1> QED BY <1>5, <1>7

\* Of what a viewer's NACK of two pairs asks for, the pairs sent to the host
\* name the packets the ring does not hold: all, no other, and each once
\* (viewer_handler.go, ExtractLostSequenceNumbers and BuildNackPairs).
THEOREM MissingIsAskedFor == Spec => []NackPairsNameTheMissing
<1>1. NackPairsNameTheMissing
  <2> SUFFICES ASSUME NEW p \in [id : NackStarts, mask : SUBSET (1 .. MaskBits)],
                      NEW q \in [id : NackStarts, mask : SUBSET (1 .. MaskBits)]
               PROVE  LET missing == {n \in Lost({p, q}) : ~Cached(Wrap(n))}
                          pairs   == BuildNackPairs(missing)
                      IN /\ Lost(pairs) = missing
                         /\ \A r, t \in pairs : r # t => Lost({r}) \cap Lost({t}) = {}
    BY DEF NackPairsNameTheMissing
  <2>1. PICK missing : missing = {n \in Lost({p, q}) : ~Cached(Wrap(n))}
    OBVIOUS
  <2>2. missing \in SUBSET Nat /\ IsFiniteSet(missing)
    <3>1. p \in [id : Nat, mask : SUBSET (1 .. MaskBits)] /\ q \in [id : Nat, mask : SUBSET (1 .. MaskBits)]
      BY MediaOK DEF MediaOK
    <3>2. Lost({p, q}) = Lost({p}) \cup Lost({q})
      BY DEF Lost
    <3>3. Lost({p, q}) \in SUBSET Nat /\ IsFiniteSet(Lost({p, q}))
      <4>1. Lost({p}) \in SUBSET Nat /\ IsFiniteSet(Lost({p}))
        BY <3>1, LostIsFinite
      <4>2. Lost({q}) \in SUBSET Nat /\ IsFiniteSet(Lost({q}))
        BY <3>1, LostIsFinite
      <4>3. IsFiniteSet(Lost({p}) \cup Lost({q}))
        BY <4>1, <4>2, FS_Union
      <4> QED BY <3>2, <4>1, <4>2, <4>3
    <3> QED BY <2>1, <3>3, FS_Subset
  <2> QED BY <2>1, <2>2, NackPairsCover
<1> QED BY <1>1, PTL
=============================================================================
