------------------------------- MODULE MediaPath -------------------------------
(***************************************************************************)
(* The way of the host's video to one viewer: the ring of the host's last  *)
(* packets, the viewer's TrackSwitcher, its queue, and the goroutine that  *)
(* reads the viewer's RTCP.  The goroutines of the host's tracks           *)
(* (host_handler.go), the worker of the switcher (track_switcher.go) and   *)
(* the RTCP reader (viewer_handler.go) interleave; the methods of the      *)
(* switcher run under ts.mu, one step each.  The reader's comparison with  *)
(* the current layer and the switch it calls for are one step here.        *)
(*                                                                         *)
(* Layers 0, 1, 2 are the RIDs 'q', 'h', 'f' and the spatial layers of     *)
(* VP9.  A packet is its sequence number, the layer whose track brought    *)
(* it, its kind and, in VP9, its spatial layer.  Timestamps are left out,  *)
(* and so are temporal layers: nothing outside the tests changes them.     *)
(* pendingSwitch and waitingKeyframe are only ever read as pendingSwitch   *)
(* or waitingKeyframe, here switching.                                     *)
(***************************************************************************)
EXTENDS PacketBuffer, FiniteSetsExt

CONSTANTS
  SeqMod,      \* sequence numbers wrap at SeqMod, 2^16 in the code
  QueueCap,    \* places of ts.queue, 256 in the code
  MaskBits,    \* bits of the mask of a NACK pair, 16 in the code
  NackStarts,  \* first numbers of the pairs of a NACK that asks for several
  Streams,     \* sets of layers a host's tracks may form, as they arrive
  NoLayer      \* a nil track

Layers == 0 .. 2
High   == 2
Medium == 1

ASSUME MediaOK ==
  /\ SeqMod \in Nat \ {0} /\ Packets = 0 .. SeqMod - 1
  /\ QueueCap \in Nat \ {0} /\ MaskBits \in Nat /\ NoLayer \notin Layers
  /\ NackStarts \subseteq Nat
  /\ Streams \subseteq (SUBSET Layers) \ {{}}

VARIABLES
  vp9,          \* codec of the viewer's track: VP9, or VP8 or H.264
  published,    \* layers whose host track is read by a goroutine
  registered,   \* the room's map still holds this viewer's switcher
  closed,       \* ts.closed; the switcher is garbage then
  seen,         \* ts.hasReceivedKeyframe, ts.started
  current,      \* ts.currentLayer
  spatial,      \* ts.currentSpatialLayer
  target,       \* ts.targetLayer, ts.targetSpatialLayer
  switching,    \* ts.pendingSwitch || ts.waitingKeyframe
  known,        \* layers whose ts.trackQ, trackH, trackF is set
  targetTrack,  \* layer of ts.targetTrack
  offset,       \* ts.seqAdjuster.offset, which VP9 never reads
  lastIn,       \* ts.lastInSeq
  lastOut,      \* ts.lastOutSeq
  queued,       \* packets in ts.queue
  resent        \* packets written again by the last step, for a NACK

layer    == <<current, spatial, target, switching, targetTrack>>
numbers  == <<offset, lastIn, lastOut>>
switcher == <<seen, layer, known, numbers, queued>>
viewer   == <<registered, closed>>
vars     == <<ring, vp9, published, viewer, switcher, resent>>

\* HandleViewerConnectionForRoom: the viewer starts with the highest layer.
Init ==
  /\ RingInit
  /\ vp9 \in BOOLEAN
  /\ published \in IF vp9 THEN {{High}} ELSE Streams
  /\ registered = TRUE /\ closed = FALSE
  /\ seen = FALSE /\ switching = TRUE
  /\ current = Max(published) /\ spatial = current /\ target = current
  /\ known = {} /\ targetTrack = NoLayer
  /\ offset = 0 /\ lastIn = 0 /\ lastOut = 0 /\ queued = 0 /\ resent = {}

-----------------------------------------------------------------------------
(* The host's tracks: one more of the connection the viewer found, or the  *)
(* first of a new connection, which brings a new, empty ring with it.      *)

SetIncomingTrack(l) ==
  known' = IF registered THEN known \cup {l} ELSE known

TrackArrives(l) ==
  /\ ~vp9 /\ l \notin published /\ published \cup {l} \in Streams
  /\ published' = published \cup {l}
  /\ SetIncomingTrack(l)
  /\ resent' = {}
  /\ UNCHANGED <<ring, vp9, viewer, seen, layer, numbers, queued>>

HostRejoins(l) ==
  /\ IF vp9 THEN l = High ELSE {l} \in Streams
  /\ Clear
  /\ published' = {l}
  /\ SetIncomingTrack(l)
  /\ resent' = {}
  /\ UNCHANGED <<vp9, viewer, seen, layer, numbers, queued>>

-----------------------------------------------------------------------------
(* TrackSwitcher.WriteRTP.                                                 *)

Wrap(n) == n % SeqMod

\* A full queue drops the packet.
Enqueue == queued' = IF queued < QueueCap THEN queued + 1 ELSE queued

Forward(n, out) == lastIn' = n /\ lastOut' = Wrap(out) /\ Enqueue

Withhold == UNCHANGED <<lastIn, lastOut, queued>>

\* Nothing passes before the first keyframe, which any layer may bring.
AwaitKeyframe(n, kind) ==
  \/ /\ kind = "key"
     /\ seen' = TRUE /\ switching' = FALSE /\ offset' = 0
     /\ Forward(n, n)
     /\ UNCHANGED <<current, spatial, target, targetTrack, known>>
  \/ kind # "key" /\ UNCHANGED switcher

\* Mutant of ForwardVP9: the layer of the ceiling itself is dropped, too.
ForwardVP9Below(n, kind, s) ==
  LET now     == switching /\ kind \in {"key", "up"}
      ceiling == IF now THEN target ELSE spatial
  IN /\ spatial' = ceiling
     /\ current' = IF now THEN target ELSE current
     /\ switching' = (switching /\ ~now)
     /\ \/ s < ceiling /\ Forward(n, lastOut + 1)
        \/ s >= ceiling /\ Withhold
     /\ UNCHANGED <<seen, target, targetTrack, known, offset>>

\* Mutant of ForwardVP9: the name of the layer is not changed with its number.
ForwardVP9KeepsName(n, kind, s) ==
  LET now     == switching /\ kind \in {"key", "up"}
      ceiling == IF now THEN target ELSE spatial
  IN /\ spatial' = ceiling /\ UNCHANGED current
     /\ switching' = (switching /\ ~now)
     /\ \/ s <= ceiling /\ Forward(n, lastOut + 1)
        \/ s > ceiling /\ Withhold
     /\ UNCHANGED <<seen, target, targetTrack, known, offset>>

ForwardVP9(n, kind, s) ==
  LET now     == switching /\ kind \in {"key", "up"}
      ceiling == IF now THEN target ELSE spatial
  IN /\ spatial' = ceiling
     /\ current' = IF now THEN target ELSE current
     /\ switching' = (switching /\ ~now)
     /\ \/ s <= ceiling /\ Forward(n, lastOut + 1)
        \/ s > ceiling /\ Withhold
     /\ UNCHANGED <<seen, target, targetTrack, known, offset>>

\* The layer waited for begins with a keyframe, renumbered to follow lastOut.
SwitchSimulcast(n) ==
  /\ current' = target /\ switching' = FALSE /\ targetTrack' = NoLayer
  /\ offset' = Wrap(lastOut + 1 - n)
  /\ UNCHANGED <<seen, spatial, target, known>>

\* Mutant of ForwardSimulcast: only the track asked for is awaited, not its RID.
ForwardSimulcastByTrack(l, n, kind) ==
  LET awaited == switching /\ l = targetTrack
  IN \/ /\ awaited /\ kind = "key"
        /\ SwitchSimulcast(n)
        /\ IF l = target THEN Forward(n, n + offset') ELSE Withhold
     \/ /\ awaited /\ kind # "key" /\ UNCHANGED switcher
     \/ /\ ~awaited /\ l # current /\ UNCHANGED switcher
     \/ /\ ~awaited /\ l = current
        /\ Forward(n, IF vp9 THEN lastOut + 1 ELSE n + offset)
        /\ UNCHANGED <<seen, layer, known, offset>>

\* VP9 packets without payload come here too, and are renumbered as VP9.
ForwardSimulcast(l, n, kind) ==
  LET awaited == switching /\ l \in {target, targetTrack}
  IN \/ /\ awaited /\ kind = "key"
        /\ SwitchSimulcast(n)
        /\ IF l = target THEN Forward(n, n + offset') ELSE Withhold
     \/ /\ awaited /\ kind # "key" /\ UNCHANGED switcher
     \/ /\ ~awaited /\ l # current /\ UNCHANGED switcher
     \/ /\ ~awaited /\ l = current
        /\ Forward(n, IF vp9 THEN lastOut + 1 ELSE n + offset)
        /\ UNCHANGED <<seen, layer, known, offset>>

WriteRTP(l, n, kind, s) ==
  \/ ~seen /\ AwaitKeyframe(n, kind)
  \/ seen /\ vp9 /\ kind # "empty" /\ ForwardVP9(n, kind, s)
  \/ seen /\ (vp9 => kind = "empty") /\ ForwardSimulcast(l, n, kind)

\* "up" is a VP9 packet that allows switching up, "empty" one without payload.
Kinds == IF vp9 THEN {"key", "delta", "up", "empty"} ELSE {"key", "delta"}

\* A packet of the host: cached in the ring, then passed to the switchers.
Arrive(l, n, kind, s) ==
  /\ l \in published
  /\ Push(n)
  /\ IF registered /\ ~closed THEN WriteRTP(l, n, kind, s)
     ELSE UNCHANGED switcher
  /\ resent' = {}
  /\ UNCHANGED <<vp9, published, viewer>>

\* The worker of the switcher writes a packet to the viewer's track.
Deliver ==
  /\ queued > 0
  /\ queued' = queued - 1 /\ resent' = {}
  /\ UNCHANGED <<ring, vp9, published, viewer, seen, layer, known, numbers>>

-----------------------------------------------------------------------------
(* The RTCP reader.                                                        *)

\* The callers have compared the layer with the current one: it is another.
SwitchLayer(l) ==
  /\ target' = l /\ switching' = TRUE
  /\ targetTrack' = IF l \in known THEN l ELSE NoLayer
  /\ UNCHANGED <<current, spatial>>

DropHighestSpatialLayer ==
  \/ /\ spatial > 0
     /\ spatial' = spatial - 1 /\ target' = spatial - 1 /\ current' = spatial - 1
     /\ switching' = TRUE
     /\ UNCHANGED targetTrack
  \/ spatial = 0 /\ UNCHANGED layer

\* A bandwidth estimate that allows another layer than the current one.
Bandwidth(l) ==
  /\ ~closed /\ l # current
  /\ SwitchLayer(l)
  /\ resent' = {}
  /\ UNCHANGED <<ring, vp9, published, viewer, seen, known, numbers, queued>>

\* ExtractLostSequenceNumbers: what a list of NACK pairs asks for.
Lost(pairs) == UNION {{p.id} \cup {p.id + d : d \in p.mask} : p \in pairs}

\* Mutant of BuildNackPairs: the last place of the mask is forgotten.
BuildShortMasks(missing) ==
  LET pairs[S \in SUBSET missing] ==
        IF S = {} THEN {}
        ELSE LET near == {n \in S : n - Min(S) <= MaskBits}
             IN {[id |-> Min(S), mask |-> {n - Min(S) : n \in near} \ {0, MaskBits}]}
                  \cup pairs[S \ near]
  IN pairs[missing]

\* BuildNackPairs: from the smallest number on, with those close above it.
BuildNackPairs(missing) ==
  LET pairs[S \in SUBSET missing] ==
        IF S = {} THEN {}
        ELSE LET near == {n \in S : n - Min(S) <= MaskBits}
             IN {[id |-> Min(S), mask |-> {n - Min(S) : n \in near} \ {0}]}
                  \cup pairs[S \ near]
  IN pairs[missing]

\* A NACK is a loss: the layer is lowered.
LowerOnLoss ==
  \/ spatial >= High /\ DropHighestSpatialLayer
  \/ spatial < High /\ current = High /\ SwitchLayer(Medium)
  \/ spatial < High /\ current # High /\ UNCHANGED layer

\* Cached packets are written again, the others asked of the host.
Nack(pair) ==
  /\ ~closed
  /\ resent' = {n \in {Wrap(m) : m \in Lost({pair})} : Cached(n)}
  /\ LowerOnLoss
  /\ UNCHANGED <<ring, vp9, published, viewer, seen, known, numbers, queued>>

\* Transport-wide feedback that reports too much loss.
Congested ==
  /\ ~closed
  /\ DropHighestSpatialLayer
  /\ resent' = {}
  /\ UNCHANGED <<ring, vp9, published, viewer, seen, known, numbers, queued>>

\* Reading fails when the connection is closed.
Leave ==
  /\ ~closed
  /\ closed' = TRUE /\ registered' = FALSE
  /\ seen' = FALSE /\ switching' = FALSE /\ known' = {} /\ targetTrack' = NoLayer
  /\ current' = 0 /\ spatial' = 0 /\ target' = 0
  /\ offset' = 0 /\ lastIn' = 0 /\ lastOut' = 0 /\ queued' = 0 /\ resent' = {}
  /\ UNCHANGED <<ring, vp9, published>>

\* All viewers of a track share one key of the map: another one that attaches
\* replaces this viewer's switcher, one that leaves removes it.
AnotherAttaches ==
  /\ registered' = FALSE /\ resent' = {}
  /\ UNCHANGED <<ring, vp9, published, closed, switcher>>

AnotherLeaves ==
  /\ registered' = FALSE /\ resent' = {}
  /\ UNCHANGED <<ring, vp9, published, closed, switcher>>

Next ==
  \/ \E l \in Layers : TrackArrives(l) \/ HostRejoins(l) \/ Bandwidth(l)
  \/ \E l \in Layers, n \in Packets, kind \in Kinds, s \in Layers :
       (vp9 \/ s = 0) /\ Arrive(l, n, kind, s)
  \/ \E n \in Packets, mask \in SUBSET (1 .. MaskBits) :
       Nack([id |-> n, mask |-> mask])
  \/ Deliver \/ Congested \/ Leave \/ AnotherAttaches \/ AnotherLeaves

Spec == Init /\ [][Next]_vars

\* The host answers the keyframe requests of its tracks, sent every two
\* seconds; the worker is a goroutine that waits for nothing but packets.
Fairness ==
  /\ \A l \in Layers : WF_vars(\E n \in Packets : Arrive(l, n, "key", 0))
  /\ WF_vars(Deliver)

FairSpec == Spec /\ Fairness

-----------------------------------------------------------------------------
\* A viewer whose switcher stays registered gets packets for ever, when the
\* host sends every layer that a loss may switch it to.
Fed == ~closed /\ registered /\ (vp9 \/ published = Layers)

FlowsOn == <>[]Fed => []<><<Deliver>>_vars

\* A switch under way to a layer the host sends does not wait for ever: it is
\* completed or replaced by another.
SwitchesComplete ==
  \A l \in Layers : []<>~(Fed /\ seen /\ switching /\ target = l)

\* In VP9 the layer rises only with a packet of the host, never on a report
\* of loss: the layer's name and the number that is lowered do not come apart.
LossNeverRaisesLayer ==
  [][vp9 /\ current' > current => \E n \in Packets : Push(n)]_vars

\* Why: under VP9 the layer's name is the name of the layer forwarded.
LayerOK ==
  vp9 => /\ current = spatial /\ spatial \in Layers /\ target \in Layers

\* Of what a viewer's NACK of two pairs asks for, the pairs sent to the host
\* name the packets the ring does not hold: all, no other, and each once.
NackPairsNameTheMissing ==
  \A p, q \in [id : NackStarts, mask : SUBSET (1 .. MaskBits)] :
    p.id < q.id =>
      LET missing == {n \in Lost({p, q}) : ~Cached(Wrap(n))}
          pairs   == BuildNackPairs(missing)
      IN /\ Lost(pairs) = missing
         /\ \A r, t \in pairs : r # t => Lost({r}) \cap Lost({t}) = {}
=============================================================================
