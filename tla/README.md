# OmniCast Engine: TLA+ models, checks and proofs

OmniCast Engine is a live-streaming server in Go: hosts publish audio and video
over WebRTC, viewers join over a websocket, and every node keeps its rooms in
memory and mirrors them to Redis. The modules here model the parts of it whose
correctness depends on the order in which goroutines, timers and websockets
act. `PROJECT.json` maps every definition to the lines it stands for.

    tlc -workers 2 -config Room.cfg MCRoomLifecycle      # check
    tlapm RoomLifecycleProofs.tla                        # prove

## 1. Inventory

| Component | State | Operations | Hard behaviour | What makes it correct | Module |
|---|---|---|---|---|---|
| Rooms (`signaling/room_manager.go`, `models/room.go`, handlers of `signaling/client.go`) | `activeRooms`; per Room: host id and client, viewers, `isReconnecting`, three kinds of timers | create (HTTP, publish, join), publish, join, disconnect, kick, end, time-outs | `time.AfterFunc` callbacks against handlers; several sockets of a user; lookups under one lock and updates under another | a lost host or viewer is never forgotten; flag and timer agree; a closed room leaves nothing behind | `RoomLifecycle` |
| Webhook dispatcher (`api/webhook.go`) | bounded channel, running flag, stop channel, 8 workers | `Start`, `Dispatch`, `Stop`, worker loop | `Stop` against `Dispatch`; workers that drain one channel together | an event is taken or refused at once; what is taken is posted once, before `Stop` returns | `WebhookDispatcher`, `EventSink` |
| Hub and zombie collector (`signaling/hub.go`) | clients, unbuffered register and unregister channels, `RoomManager.mu` | register, unregister, collector tick | a read lock taken twice, a channel send next to a lock | nobody stops the hub; silent clients go | `HubLocks`, `RWMutex` |
| Graceful shutdown (`cmd/main.go`) | two drain flags, WaitGroup, fallback timer | signal, wait, tear down | flag tests apart from room creation | running streams are waited for | `ServerDrain` |
| Presence, bans, viewer limit (`client.go`, `models/room.go`) | `Viewers`, `Participants`, ban list, presence queues | join, remove, kick, flush of the batcher | ban list and limit read long before the viewer is added; two tables changed one after the other | a ban holds, the tables agree, the clients are told | `Presence` |
| Seats, media state, room state in Redis (`client.go`, `models/room.go`) | seats, mute states, name, score and PK state, the copy in Redis | accept, leave, kick, mute, join, remove, flush, battle, gift, rename | a free seat looked up in a copy; copies made and written in separate steps, or not at all | a seat has one owner; no change of who is there stays unsaved | `Stage` |
| Renegotiation and `Send` channels (`room_manager.go`, `client.go`) | `Room.mu`, `Send` (256 places), signalling states | co-host tracks, ICE restarts, answers, both pumps, removal | a read lock taken twice, sends that block, dropped offers | one offer at a time; nobody waits for good | `Renegotiation`, `RWMutex` |
| PK battles (`signaling/pk_manager.go`) | sessions, `Room.PKState`, `linkedRoomID`, Redis copy | `StartPK`, `StopPK`, `SyncPKScore`, `GetPKSession` | a session used after the unlock, put back from Redis | sessions are paired; what is shown was given | `PKBattle` |
| Gift scores (`room_manager.go`, `client.go`) | `HostScore`, `pendingScores`, Redis | gift, flush | deltas cleared before the pipeline succeeds | no gift lost or counted twice | `PKBattle` |
| Redis broker, rooms on several nodes (`broker/redis_broker.go`) | subscriptions, `room_node_map`, `room:origin` | publish, subscribe, relay of offers and answers, register, unlink | keys and subscriptions that several nodes and sockets share, nodes that stop | events arrive once and are not lost; registries name open rooms | `Cluster` |
| Packet buffer (`webrtc/packet_buffer.go`) | ring of 512 packets, head, tail, size | `Push`, `Get`, `Pop`, `Clear` | a full ring, the turn of an index | it holds the last packets, oldest first | `PacketBuffer`, `PacketWindow` |
| Track switching and viewer feedback (`webrtc/track_switcher.go`, `viewer_handler.go`, `host_handler.go`, `seq_adjuster.go`) | layer, target layer, pending switch, offset, queue of 256; `Room.TrackSwitchers` | host packet, worker, bandwidth estimate, NACK, congestion report, viewers coming and going | goroutines of several tracks, the worker and the RTCP reader on one switcher | packets flow, switches complete, what is lost is asked for | `MediaPath` |
| SFU cascading, timestamps, ABR, viewport, PLI throttler | sessions by room id, offset modulo 2^32, measured values, last-PLI times | connect, fail, close; adjust; control steps | a session that outlives its room; wrap-around | a session serves the room of its name | not modelled (section 7) |
| Distributed room manager, worker pool, zero-copy fan-out, pacer, bandwidth estimator, speaker detector, audio forwarder, UDP cascade | | | never used by the server | | not modelled (section 7) |
| Engine set-up, codecs, VP9 parser, auth, TURN, config, metrics, browser SDK | | | set-up, cryptography, bit formats, I/O | | not modelled |

How they meet: a websocket's `ReadPump` runs the handlers of `Client`, which
call `RoomManager` and `Room`; when it ends it sends the client to
`Hub.unregister`, and `Hub.Run` calls `RoomManager.HandleClientDisconnect`. That
arms a grace timer whose callback calls `CloseRoomAndNotify` or `RemoveViewer`.
Every room event is handed to the webhook dispatcher, often while
`RoomManager.mu` is held, so `Dispatch` must not block. The zombie collector
reaches into the same locks from a goroutine of its own, and `main` waits for
the rooms when it is told to stop. A gift runs from the client through
`Room.HostScore`, the score buffer, Redis and `PKManager`. A room's events go
through Redis even to the node that publishes them, and an edge sends the offers
of its viewers to the origin the same way.

## 2. Plan

At most a dozen runs are kept, each for a question of its own.

| Order | Modules | Abstract specification, properties | State |
|---|---|---|---|
| 1 | `RoomLifecycle`, `RoomLifecycleProofs` | lost hosts and viewers are timed, then resolved | done |
| 2 | `EventSink`, `WebhookDispatcher`, `WebhookDispatcherProofs` | refinement of the sink, Stop flushes | done |
| 3 | `RWMutex`, `HubLocks`, `LockProofs` | hub served, zombies removed, no lock held at the hub | done |
| 4 | `ServerDrain` | the promise to running streams | done |
| 5 | `PacketWindow`, `PacketBuffer`, `MediaPath`, `MediaPathProofs` | ring against a bounded window; feeding of a viewer, NACKs | done |
| 6 | `PKBattle`, `PKBattleProofs` | sessions paired, scores conserved, what is shown was given | done |
| 7 | `Presence`, `PresenceProofs` | bans, limit, two tables, what the clients are told | done |
| 8 | `Stage`, `StageProofs` | seats, the copy of the room state | done |
| 9 | `Cluster`, `ClusterProofs` | events once and in order, registries, offers | done |
| 10 | `Renegotiation` (on `RWMutex`), `LockProofs` | one offer at a time, nobody waits for good | done |
| 11 | `Cascade` | session identity | open |
| 12 | `Timestamps` | an unbroken clock modulo 2^32 across switches | open |

None of these modules uses a recursive operator, so that all of them stay open
to proofs.

## 3. The modules

### RoomLifecycle

One room name on one node, and the Room objects it successively points to
(`Rooms == 1..MaxRooms`; `active` is `activeRooms[roomID]`). `hostID`,
`hostClient`, `viewers`, `reconnecting`, `hostTimer`, `partTimer`, `emptyTimer`
are the fields of `models.Room`; `sock` and `hasPC` belong to `Client`; `job` is
the program counter of each `ReadPump` and of each timer goroutine, with the
Room object it has looked up. `lastHost` is a history variable.

* A section under `RoomManager.mu` is one step: `CreateRoom`, `CloseRoom`,
  `HandleClientDisconnect`. `hub.go` runs one disconnect at a time and closes
  `Send` only afterwards (`HubIsFree`, `CloseSend`).
* Code that looks a room up and works on it later is cut into steps: publishing
  (`Publish`, then `PublishAsHost`/`PublishAsCoHost`, then `SetHostClient`),
  joining (`JoinCreate`/`JoinViewer`, `AddViewer`, `CountViewers`, `AskHost`,
  `StartEmptyRoomTimer`), removal (`RemoveLookup`, `RemoveViewer`, then the same
  count), kicking (`Kick`, `ShutKicked` or `KickPanics`, then the removal).
* A timer is armed, fires (from then on `Stop` has no effect), runs the locked
  part of its callback (`HostGraceOver`, `ParticipantGraceOver`,
  `EmptyRoomOver`), which forgets whatever timer the room holds, and then
  `onTimeout` without the lock (`TimeoutClosesRoom`, `RemoveLookup`).

Abstracted: the lookup of a join with its two cancels is one step, and so is
lookup-or-create; whether a PeerConnection comes into being is nondeterministic;
`CloseRoom` is one step although it ranges over `Room.Viewers` without
`Room.mu`; a panic in any other handler ends the socket and is a `Drop`. The
websocket library recovers from a handler's panic; that is external. Bans and
the viewer limit only refuse a join, which the model may always do; `Presence`
has them. `RemoveRoom` is called by tests only. An offer made while the server drains is refused; see
`ServerDrain`.

### WebhookDispatcher and EventSink

`Dispatch` is one step because it runs under `mu.RLock` and its send never
blocks; `Stop` is two, the flag and the closing of `stopChan` under the lock,
then `wg.Wait`. A worker's `select`, its length test, its receive and its HTTP
request are separate steps, so two workers may see the same last event. A
request that fails is only logged, so "posted" means the request was made. The
order of events across workers is not promised. `EventSink` is what callers may
rely on; `ImplementsSink` is the refinement, with `held` the events in the
channel or in a worker's hands.

### RWMutex and HubLocks

`RWMutex` is Go's lock: a reader waits for every writer that came before it,
also when it already holds a read lock. `HubLocks` has `Hub.Run` at its
`select`, the readers that wait to be received from, the collector inside
`cleanupZombiePeers`, and the writers of `RoomManager.mu`: the goroutines the
collector spawns to close rooms and other handlers that create rooms
(`Makers`). A `Client` object is called a peer here, as the collector calls it
(`Peers`). Short sections under `Hub.mu`, `Room.mu` and the client mutexes wait
for nobody and are part of their step. Which clients host which room is fixed
at the start and arbitrary.

### ServerDrain

The end of `main()` against the three ways to a room, each with its own look at
a drain flag. `NewRoomManager` leaves `activeRoomsWG` nil and nothing sets it
(`ManagerHasWG == FALSE`), so `GetActiveRoomsWG` hands out a WaitGroup nobody
adds to. The teardown after the wait is one step.

### PacketBuffer, PacketWindow and MediaPath

`PacketBuffer` is the ring with one action per method, all under `pb.mu`; a
packet is its sequence number. `PacketWindow` is the abstract window and
`BufferIsWindow` the refinement, `window` being the places from `tail` on, and
`GetFindsTheWindow` says that the search of `Get` finds these and no others.

`MediaPath` follows the host's video to one viewer. Layers 0, 1, 2 are the RIDs
'q', 'h', 'f' and the spatial layers of VP9; a packet has a number, the layer
whose track brought it, a kind and, under VP9, a spatial layer. `Arrive` is one
turn of a track's goroutine: `Push`, then `WriteRTP` of the switcher if it is
registered, in the code's order of cases (first keyframe, VP9, simulcast).
`Deliver` is the worker. The RTCP reader is `Bandwidth`, `Nack`, `Congested`
and `Leave`. `SwitchLayer` and `DropHighestSpatialLayer` are the methods of that
name. Under VP9 there is one track; otherwise `Streams` says which sets of
tracks a host may form, that is, in which order they arrive.

* Other viewers are present through the one thing they do to this one: the key
  of `Room.TrackSwitchers` is the id of the host's track, the same for all of
  them, so one that attaches replaces this switcher and one that leaves removes
  it (`AnotherAttaches`, `AnotherLeaves`).
* A switcher knows only the tracks that arrive while it is registered
  (`known`). A host that publishes again brings a new, empty ring and new tracks
  (`HostRejoins`); that the goroutine of an old track may push a last packet
  into the old ring is left out.
* The reader compares the layer and calls the method in one step; `pendingSwitch`
  and `waitingKeyframe` are only read together and are one variable.
* `Leave` closes the switcher, which nothing reads any more; its variables are
  reset so that states do not differ in garbage.
* Left out: timestamps, which are rewritten beside the numbers; temporal layers
  and the setters (`SwitchSVCLayers`, `ForceSwitchLayer`) that only tests call;
  the viewer's PLI requests; audio and co-host tracks. The pacer and the fan-out
  dispatcher are never constructed outside the tests.
* `BuildNackPairs` is given a set: a repeated number only makes a further pair.

### PKBattle

A battle is in `PKManager.activePKs`, in Redis (`stored`), in `Room.PKState`,
which clients are shown, and in `Room.linkedRoomID`; a score is in
`Room.HostScore`, `pendingScores` (with `deltas`, what the flusher has taken)
and Redis. Each handler is a record of where it is and of what it has read:
rooms, session, Room objects, scores.

* `StartPK` keeps `PKManager.mu` to its end (`mu`) but works on the Room objects
  it looked up, which may be closed meanwhile (`Current`). `StopPK` takes the
  session out under the lock and clears Redis and the two rooms without it.
* `FindSession`, `ReadStored` and `RestoreSession` are `GetPKSession`: memory,
  then Redis, whose answer is put under the one room that asked.
* A gift is `ReceiveGift`, `AddHostScore`, `BufferScore` and then a
  `SyncPKScore` for the room it counts for and for the one it came from
  (`ReadScores`, and per room `LookupRoom` and `ShowScores`).
* Redis is off, answers, or fails at any command (`redis`), for a whole
  behaviour. A pipeline that fails may have applied any of its commands.
* `Crash` loses everything in memory; `object` counts the Room objects under a
  name, and no room remembers its predecessor except through Redis and the
  score buffer.

Abstracted: every gift is worth one point; the exchange of tracks between the
rooms is `Renegotiation`'s; the closing of a room is one step.

### Presence

One Room object that stays open. `JoinViewer` adds the participant, the viewer
and the queue entry in three sections, `RemoveViewer` undoes them in another
order; `CheckJoin` reads ban list and limit before all that. Kicks ban first
and then remove; the grace timer removes too, except the host, whose grace period
ends with the closing of the room. The host may join as a viewer like anybody
else. The batcher drains the queues and then reads and sends the list (`Batch`).
`crossed` and `raced` are history: whose join and removal, or whose joins,
overlapped.

### Stage

Seats are set and freed by handlers that looked them up in a copy before
(`SeatAccept`, `LeaveSeat`, `KickSeat`). `SyncRoomState` is two steps, copy and
write (`snapshot`, `save`). Of the contents of a copy only its age is kept: fresh,
outdated by a change, or late, written after a newer change; separately for two
parts of what `Room.GetRoomState` answers (`Parts`).

* "roster" is who is there and where: the seats, mute states, viewer count and
  participants. Each of its changes is synchronised by the handler or queued for
  the presence batcher, which synchronises.
* "profile" is the rest: name, type, host score and PK state. The PK state that
  `StartPK` and `StopPK` set is synchronised (`SetPKState`). The score of a gift,
  with the PK state `SyncPKScore` updates for it (`AddGiftScore`), and the name and
  type that a publish offer brings to a room that exists (`SetRoomName`) are not:
  they get to Redis with the next copy made for another reason, if there is one.

`SavedAfterChange` is therefore about the roster; the profile is there because its
changes and the roster's share one copy. `set_main_seat` is left out (one
assignment).

### Cluster

One room name on several nodes. `CreateRoom` and the closing hold
`RoomManager.mu` while they talk to Redis; `busy` is what its holder does next:
`SetRoomNodeMap` and `RegisterRoomOrigin`, or `RemoveRoomOrigin` and
`UnlinkAllRoomKeys`, with which the room and its sockets go. A node's
subscriptions are kept one by one (`subs`), because closing and making a room
again replaces the one in `RedisBroker.subscribers` (`current`) while the old
goroutine may still have messages. A viewer whose room has its host elsewhere
sends its offer over the pattern channel (`offered`) and gets the answer over a
channel of its user id (`relay`, `returned`). Redis delivers to who has
subscribed, in order per channel. ICE candidates take the same ways and are left
out.

* The clients of a room are its `HostClient` and its `Viewers`. A listener sends
  an event to the one and then to all of the others (`Sent`), whoever is in both
  places; `got` says as what a socket was sent an event.
* `hostID` is a user of whom sockets exist here, or `None`. `SetHostClient` is that
  part of `handlePublishOffer`, at any time after the room was made; the
  renegotiation on a PeerConnection that is there already is left out.
* `HandleClientDisconnect` takes the `HostClient` away when any socket of the
  host's user ends, and leaves a viewer until its grace period is over.
* `StopNode` is the end of a process, by the shutdown in `main`, which closes the
  broker and exits with rooms open, or by a crash; it may come between any two
  calls to Redis. The keys in Redis stay. The node may be started again with
  whatever openings are left. `orphans` is history: the keys set by a node that
  has stopped since.
* An event that no client is there for does not count towards the bound, and what
  a node without sockets receives, which nobody is sent, is left out.

### Renegotiation

An open room, its clients, and whoever takes `Room.mu`: `AddTrackAndRenegotiate`
(`OnTrack`), PLI requests, host look-ups, `handleSDPAnswer`, the hub. `Room.mu`
is a lock of `RWMutex`, with writers that wait and readers parked behind them.
`Send` is a bounded channel counted in places; a direct send waits, `SafeSend`
drops. The `WritePump` takes all that is waiting as one frame. A PeerConnection
is stable, has an offer out, is answering or is closed, and `offers` says where
the unanswered offers are. A connection may fail at any time; its client is then
taken out by its pumps and the hub (`Zombie`: also by the collector, but only
while its handler is busy, since an idle one answers pings).

## 4. The runs

| Run | Shows | Instance | Distinct states |
|---|---|---|---|
| `Room` | `TypeOK`, `GraceFlagMatchesTimer`, `LostHostIsTimed`, `LostViewerIsTimed` | one user (also admin) with two sockets, two Room objects, two timers | 3.9 million, up to the exchange of timers |
| `RoomLive` | `LostHostResolved`, `LostViewerResolved` | one user (host, viewer and admin) with two sockets, one Room of his or of another host, two timers | 166 thousand |
| `Webhook` | `StopFlushes`, `IInv`, `ImplementsSink`, `StopEnds`, `TakenIsPosted` | four events, two workers, two places | 8 thousand |
| `Hub` | `HubTypeOK`, `NobodyHoldsTheLockAtTheHub`, `HubServesHosts`, `ZombieHostsAreRemoved` | two sockets, one room hosted by any of them or by nobody connected, one maker | 238 thousand |
| `Media` | `NackPairsNameTheMissing`, `GetFindsTheWindow`, `BufferIsWindow`, `LossNeverRaisesLayer`, `FlowsOn`, `SwitchesComplete` | one viewer, VP9 or up to three simulcast tracks, two sequence numbers, ring of two, queue of one | 373 thousand |
| `PK` | `SessionsPaired`, `Ledger`, `ShownIsEarned`, `ScoresReachRedis` | two rooms, one of them made twice, a giver and a host, one gift, one restart, Redis off, answering or failing | 925 thousand |
| `Presence` | `BanHolds`, `TablesAgree`, `LimitHolds`, `PresenceShown`, `PresenceReachesAll` | host with a socket, a user with two, one of them an admin's, room for one viewer | 159 thousand |
| `Stage` | `SavedAfterChange`, `SeatsKept` | host and two users, three seats | 3.5 million |
| `Cluster` | `EventsOnceInOrder`, `EventsOnTheirWay`, `RegistryNamesOpenRooms`, `OffersAnsweredOnce` | an origin (room made once) and an edge (twice), two sockets of one user on the edge, who may host the second room, two events, nodes may stop | 4.6 million, up to the exchange of sockets |
| `Renegotiation` | `OneOfferAtATime`, `HandlersReturn`, `RoomServes`, `BrokenClientsLeave` | a host that asks for everything, a viewer that becomes a co-host, `Send` of one place | 121 thousand |
| `HubNestedLock`, `DrainCutsStreams` | a statement of a comment that the code does not keep (section 6) | the smallest instance that shows it | |

Why the bounds suffice. Two sockets of a user are what stale disconnects need,
and a third would repeat the second. In `Room` the user is the host of a Room
he created and a viewer of one created for somebody else
(`HttpHosts = {host, OriginHost}`), so all host and viewer paths, kicks of
oneself included, and their crossing from one Room object to the next happen
with two sockets. Two timers are the least in which a timer that has fired
meets a newer one of the same room; when all timers are taken the model makes a
disconnect wait, so more timers only add overlap; the proofs cover all numbers.
Two Room objects are the least for callbacks that outlive their room; `RoomLive`
has one, as a room is resolved or not by what happens to itself, and keeps the
two sockets for stale disconnects and the admin for kicks that panic. In
`Webhook` more events than places and workers make the channel overflow and the
workers compete. In `Hub` one room with a stranger as host is enough for the
nested lock, and one maker for a writer between the two read locks. In `Media` a
ring of two fills and turns over at once, all three layers are there, and the
numbers wrap after two packets, which no property of that run depends on. The
NACKs are checked for lists of two pairs with masks of two places, against every
contents of the ring, so that a missing number falls on, before and behind the
end of a mask.

In `PK` one gift passes through all the places a score can be in, so that a
second copy of it shows at once as a surplus; the room made twice separates the
gifts of a Room object from those of its successor; one restart meets every
intermediate state. `PKBattleProofs` covers all numbers. In `Presence` a limit of
one is reached by one viewer and exceeded by two. `Stage` has two free seats, so
that a user may be given a second one and two users the same. `Cluster` needs two
openings on the edge for two subscriptions, two events for an order, and two
sockets of one user for answers that go to the wrong one; `Hosts` says who may
host each opening, and with the user of the two sockets as the host of the second
a host is a viewer too, or has a second socket that ends. It is also the bound on
how often a node that has stopped makes the room again. In `Renegotiation` a
channel of one place is full after one message; host and co-host are both targets
of the same renegotiation.

`CHECK_DEADLOCK FALSE` where supplies are finite (sockets, events, requests,
Room objects, gifts) and a system that has used them up rests, and in
`Renegotiation`, where the nested lock may stop the room. `Presence` and `Stage`
are checked for deadlock.

Fairness. In `RoomLifecycle`, weak fairness of every goroutine (`Handler`,
`Removal`) and of every timer, because the Go scheduler and runtime run what
can run; the users, the network and the HTTP endpoints owe nothing. In
`WebhookDispatcher`, weak fairness of workers and of the wait in `Stop`; HTTP
requests end by their time-out. In `HubLocks`, strong fairness of `Hub.Run` and
of lock writers, because a Go mutex starves nobody, and weak fairness of the
collector; nobody is obliged to send pongs or to hang up, except that a reader
notices a closed socket. `HubServesHosts` and `ZombieHostsAreRemoved` are
restricted to initial states in which every client hosts every room: in the
others the nested lock stops the hub, which `HubNestedLock` shows. In
`MediaPath`, weak fairness of the worker and of a keyframe on every published
track: the server asks each track for one every two seconds
(`host_handler.go:189`). The network to the viewer owes nothing. `FlowsOn` and
`SwitchesComplete` are conditional on `Fed`: the viewer stays, its switcher stays
registered, and a simulcast host sends every layer (section 6 says why). In
`PKBattle` and `Presence`, weak fairness of every
handler that has begun and of the tickers of flusher and batcher; nobody owes a
gift or a join. In `Renegotiation`, strong fairness of every goroutine, because
Go's mutexes and channels serve those who wait in turn, and weak fairness of the
`WritePump`, whose writes end within `writeWait`; clients owe nothing, not even
answers. Its liveness properties except the state after the nested lock (`Stuck`),
in which nobody gets `Room.mu` any more.

## 5. The proofs

All theorems hold for every value of the constants that satisfies the named
assumptions (`ConstantsOK`, `DispatcherOK`, `PKAssumption`, ...): any number of
users, sockets, timers, Room objects, workers, events, places, seats, gifts.

**RoomLifecycleProofs.** `TypeCorrect` is inductive. The others need
`IInv == Shape /\ LostHostIsTimed /\ LostViewerIsTimed`. `Shape` adds what is
not visible in the properties: a timer that a field of a room points to is
armed or fired for that very field (`TimersOwned`), which is what makes
cancelling one timer harmless to all others; a handler of a client runs only
while the socket has not been handed to the hub (`HandlersHaveSockets`), so an
`AddViewer` registers a live socket or the disconnect that follows will see it;
goroutines hold only Rooms that exist (`RoomsExist`); a viewer is registered
under its own user id (`ViewersNamed`). `ShapeStep` has one step per action;
the lost-host and lost-viewer proofs then look, per action, at how the
disjunct that holds before the step is kept or handed on: the fired timer
becomes the goroutine that closes or evicts, a cancelling `PublishAsHost`
becomes `setHost`, a cancelling join becomes `add`, a cancelling kick becomes
`shut`, then the eviction or, if it panics, `panicked`.

**WebhookDispatcherProofs.** `PoolInvariant`: no event is in two places, a
worker holds an event exactly while it is about to post it, and a worker that
has left implies that the service is stopped and the channel empty. This last
part carries `StopFlushesAll`, because after `Stop` nothing enters the channel.
`PoolImplementsSink` maps initial states and each step to the sink: a receive
is a stutter, `Send` is `Post`, `StopReturns` is `Finish` and needs
`StopFlushes`.

**MediaPathProofs.** `RingKeepsOrder` is inductive: head is `size` places
behind tail, modulo the length, and the places between hold packets. From it
`RingImplementsWindow` shows that `Push` appends to the window, dropping its
oldest packet when the ring is full, `Pop` takes the oldest and `Clear` empties
it. The lemmas say what adding one does to an index modulo the length.
`MediaBufferIsWindow`: every step of the media path is a `Push`, a `Clear` or
leaves the ring alone, so the refinement carries over. `GetSearchesTheWindow`
adds that the search of `Get`, counted back from head, meets the places counted
from tail, each once and the empty ones never (`BackFromHead`). `LossLowersVP9` needs
`LayerOK`: under VP9 the name of the layer and its number agree, which every
report and every packet keeps; a NACK or a congestion report then lowers both or
leaves both, and an estimate only sets the target. `NackPairsCover` is about
`BuildNackPairs` alone: for any finite set of numbers and any length of the mask
the pairs ask for exactly these numbers, for none twice, and fit their masks. It
argues from the smallest size of a set for which this would fail: one pair takes
the numbers near the smallest, and what is left is a smaller set. That the
recursive function is defined at all is shown in the same way (`PairsExist`).
`MissingIsAskedFor` applies it to what a viewer's NACK finds missing in the ring.

**LockProofs.** The lemmas at the head say what the calls of `RWMutex` keep: a
writer that has the lock is alone, and readers are parked only behind a writer
(`Exclusive`). `HubLocks` and `Renegotiation`, whose variables are apart, both
rest on them. In `HubLocks` the collector is the only reader, and where it is
tells how often it holds the lock (`LocksOfGC`); as it lets go before it sends to
`Hub.unregister`, `NoLockAtTheHub` follows, and as a writer must wait for it,
`RoomsStayForTheScan`: what the collector has still to visit is in
`activeRooms`. In `Renegotiation` every goroutine may read, some twice, and some
write: `Depth` gives the read locks of each place of the code, of which a parked
call lacks one, and `Writing` the places between `Lock` and `Unlock`
(`LockInv`). From it come the types, that is, no lock is released too often, and
`RoomLockExcludes`. `OffersComeOne` is inductive by itself for each client
(`OneOffer`): an offer is counted where it is, in `Send`, in a frame or with the
browser, and moves from one to the next; only a stable PeerConnection makes a
new one, and only an answer, a drop or the end of the connection takes it away.

**ClusterProofs.** `RegistriesAreTrue` needs that whoever is between two calls
to Redis has the room (`Registries`): a node names itself only after it has
opened the room, and has taken its name out of `room:origin` before it unlinks
the rest and the room goes, while every other node can only name itself or clear;
a node that stops leaves an orphan, until the key is set or cleared. The events
need to know who is in a room (`Members`: a room in use is subscribed to, only a
client is owed anything) and what the queues hold (`Channels`): only the current
subscription of a node is fed, each holds its events in their order, no two hold
the same one, and what a client has been sent waits in none; of what it was sent,
nothing is there twice in the same place, and if the node had one subscription it
is in order. Hence `NoEventTwice`; what a client of an open room is owed waits in
a subscription of its node, whence `NoEventLost`. All of these survive `StopNode`,
which empties the node's queues and takes its clients. `AnswersComeOnce` (`Signals`): an offer waits at a
server at most once, and an answer is under way or sent only after its server
has taken the offer out (`Genuine`), so each server answers an offer at most
once; with a single server that is no edge, this is at most one answer. `Nodes`
is assumed finite only because the statement counts the servers.

**PKBattleProofs.** Types need `Typed`: a handler is at a step with the rooms and
the session this step uses (`Valid`), each of which has been opened some time.
`SessionsArePaired` (`PKInv`): `PKManager.mu` is held from the two checks of
`StartPK` to its end, in which nobody else writes `activePKs`, so that both
places are still empty when both are filled; without Redis no handler restores a
session. `LedgerHolds` is inductive once it is said of closed rooms too
(`AllBalanced`): a gift is counted where it is, in a handler's hand, pending, among
the deltas or in Redis, unless a failed pipeline lost it, and `InHand`, the cardinality of the handlers that hold one, moves by
one with each. `PointsAreEarned` rests on `Earned(n, r)`, which stays true of a
number once it is (`EarnedStays`), as a score grows while its room is open and
an object is never the first of its name again: hence what a handler has read
(`HandlersReadEarned`) may be shown however late. `HandlersWrite` says once which
step of a handler writes which shared variable.

**PresenceProofs.** `PresenceIsShown` is inductive with the types. `BansHold`
adds the join that has passed the ban check before the ban (`LateJoinsCross`).
`TablesDoAgree` needs to know what a join or removal under way has still to do
(`Ordered`): with a join and no removal under way the user is a participant or
about to be made one, and the other way round. `TheLimitHolds`: of the joins that
have passed the check at most one overlapped no other (`OneHasPassed`), and that
one has its place (`HasItsPlace`).

**StageProofs.** `ChangesAreSaved`: while Redis lacks a change of the roster, a
copy is queued or a goroutine is on its way to make one (`CopyIsComing`); changes
of the profile disturb none of it. `SeatsAreKept`: where the
host has one socket, the seat that `handleSeatAccept` is about to give is still
free (`SeatIsFree`), as only this socket gives seats.

Every invariant and every safety property that a run checks is thereby stated by
a theorem. Only model-checked remain the liveness properties, which rest on
fairness and ENABLED and are outside the prover's reach. The two violations are
counterexamples of TLC; `ServerDrain`, all of whose content is one of them, has
no theorem.

## 6. Where the code departs from its comments

Shown by runs:

* `HubNestedLock`: `RemoveViewer` takes `RoomManager.mu.RLock` under the
  collector's own read lock; with a writer in between, the collector, every
  writer and the hub stop.
* `DrainCutsStreams`: the WaitGroup counts no room, so shutdown does not wait
  for running streams.

The models also have these behaviours of the code, which no property forbids.

Rooms: the disconnect of a host's old socket is taken for the loss of the new one
(ids are compared, not sockets), and the grace timer of a room whose host is
present runs out; a host that publishes does not cancel the empty-room timer,
which destroys his room; kicking a viewer whose `Send` is closed panics after the
grace timer was cancelled, and the viewer stays registered for good, which
`LostViewerResolved` excepts by name; closing a room leaves
participant timers armed, which may remove a viewer from the next room of that
name; a viewer may join a Room object that was closed after its lookup; a fired
grace timer may close the room, or take out the viewer, of a user who has just
returned.

Presence and seats: a viewer of a full room that reconnects counts itself and is
refused; a join that overlaps a removal leaves a viewer without its participant
entry; joins that overlap exceed the limit; leaving or being kicked frees neither
the user's seat nor its media state; the host may leave seat 0; an older copy of
the room state may be written last and stay; the score, the PK state updated with
it, and a name or type given to a room that exists are not saved at all until
something else is; a host who joins his own full room is refused like a viewer; a host with two sockets may
overwrite a seat; `set_main_seat` does not ask whether the sender is the host.

Battles: `StopPK` works on after the unlock, so that a score that is just being
synchronised shows a battle that is over, and a battle started meanwhile is
hidden; a session found in Redis is put under one room only; what a failed
pipeline did not apply is lost.

Several nodes: a host who is also a viewer of his room is sent every event twice;
the second socket of a host that ends takes `HostClient` from the first, who is
sent no events any more unless he is a viewer too; the keys of a node that stops
with the room open stay until another node sets or clears them or they expire
after 24 hours, and viewers elsewhere send their offers to nobody meanwhile;
making the room on an edge overwrites `room_node_map` with the
edge, and closing it on any node unlinks what another one registered; two nodes
without a role both answer an offer; an origin gets its own ICE candidates back;
the pattern subscription is never removed, nor the one of a viewer, whose callback
keeps the first, possibly dead, socket; an answer that is published before its
subscription is lost. `UnlinkAllRoomKeys` and `RefreshRoomTTL` write
`room:<id>:origin` where the key is `room:origin:<id>`; `RemoveRoomOrigin` has it
right.

Renegotiation: `AddTrackAndRenegotiate` reads `Room.mu` twice
(`room_manager.go:908`), so that any writer in between, the throttling of a PLI
among them, stops the room, and through `HandleClientDisconnect`, which holds
`RoomManager.mu`, the hub; a second track added before the first offer is
answered (a co-host's audio and video) is in no offer; an offer dropped on a full
queue leaves its PeerConnection waiting for good; a seat request to a host whose
`Send` was just closed panics.

Media: a NACK names the rewritten number while the ring is searched for the host's
packet of that number, so that another packet is sent again; a second viewer of a
track replaces the switcher of the first, who gets no packets any more; with a
single VP8 or H.264 track the first NACK renames the current layer to 'h', a track
nobody sends, and the viewer freezes, which is why `Fed` asks for every layer; in
simulcast a completed switch does not change the spatial number, so that a later
report of loss may name a higher layer than the current one; the first keyframe of
any layer opens the gate; a track remembered by `SwitchLayer` is still awaited
after a drop, and its keyframe sets the offset but is withheld.

## 7. Not modelled

Never used by the server, only constructed by tests or not at all: the distributed
room manager, the zero-copy fan-out, the pacer, the bandwidth estimator, the
speaker detector, the audio forwarder, the UDP cascade. The room manager starts a
worker pool to which nothing is submitted.

Open for later modules: SFU cascading (mostly calls into pion between two
servers, whose failures would have to be modelled with it), timestamps, which are
rewritten beside the sequence numbers, the ICE candidates, which take the ways of
the offers, and the browser SDK's reconnect logic. ABR and viewport compute a
layer from measured values and then call `SwitchLayer`, which `MediaPath` has with
any layer.

Left out for good: cryptographic checks, configuration, metrics and the set-up of
pion objects (input and output), the bit format of VP9, and the contents of
messages.
