---------------------------- MODULE Renegotiation ----------------------------
(***************************************************************************)
(* Offers the server makes on its own, and what they go through: Room.mu,  *)
(* the Send channels and their pumps, and the PeerConnections.             *)
(*                                                                         *)
(* One open Room with its host and its viewers, which stay in it.  A track *)
(* of a co-host is added to all of them with an offer each; ICE restarts   *)
(* make offers too.  Room.mu is a Go RWMutex; SafeSend is atomic under the *)
(* mutex of its client, under which nobody waits.  Of a message only       *)
(* matters whether it is an offer; a frame takes the whole of Send at once.*)
(***************************************************************************)
EXTENDS RWMutex, FiniteSets

CONSTANTS
    Clients,     \* sockets: the host's and the viewers'
    Host,
    Publishers,  \* the viewers that become co-hosts
    Askers,      \* the clients that ask for the state, a co-host, an ICE restart
    None,
    Cap          \* places of a Send channel (256)

Hub == <<"hub">>                 \* Hub.Run
Reader(c) == <<"reader", c>>     \* the ReadPump of c
Track(c) == <<"track", c>>       \* the OnTrack goroutine of c
Threads == {Hub} \cup {Reader(c) : c \in Clients} \cup {Track(c) : c \in Publishers}
Viewers == Clients \ {Host}      \* Room.Viewers
Places == {"send", "frame", "browser"}

ASSUME RenegotiationAssumption ==
    /\ IsFiniteSet(Clients) /\ Host \in Clients /\ Viewers # {} /\ Publishers \subseteq Viewers
    /\ Askers \subseteq Clients
    /\ None \notin Clients /\ Cap \in Nat \ {0}

NoOffers == [p \in Places |-> 0]

VARIABLES
    room,       \* Room.mu
    at,         \* at[t]: the next step of each thread,
    targets,    \* targets[t]: the clients a renegotiation has still to serve
    leaving,    \* the client Hub.Run takes out, which holds RoomManager.mu
    hosted,     \* Room.HostClient is set
    waiting,    \* waiting[c]: messages in Send
    closed,     \* Client.closed
    conn,       \* the websocket connection is open
    pump,       \* the WritePump: "select", "write" or "gone"
    signaling,  \* the signaling state of the PeerConnection
    offers,     \* offers[c][p]: the unanswered offers that are at p; counted
                \*   as long as the connection stands
    dropped     \* dropped[c]: an offer found Send closed or full

locks == <<room, at, targets>>
members == <<leaving, hosted>>
socket == <<waiting, closed, conn, pump>>
peer == <<signaling, offers, dropped>>
vars == <<locks, members, socket, peer>>

TypeOK ==
    /\ room \in Mutexes(Threads)
    /\ at \in [Threads -> {"idle", "read", "pli", "throttle", "answer", "relay",
                           "direct", "leave", "gone", "lock", "set", "broadcast", "tell",
                           "renegotiate", "offer", "nested",
                           "hostPC", "arm", "armed"}]
    /\ targets \in [Threads -> SUBSET Clients]
    /\ leaving \in Clients \cup {None} /\ hosted \in BOOLEAN
    /\ waiting \in [Clients -> 0..Cap]
    /\ closed \in [Clients -> BOOLEAN] /\ conn \in [Clients -> BOOLEAN]
    /\ pump \in [Clients -> {"select", "write", "gone"}]
    /\ signaling \in [Clients -> {"stable", "offered", "answering", "closed"}]
    /\ offers \in [Clients -> [Places -> Nat]]
    /\ dropped \in [Clients -> BOOLEAN]

(* All have joined: their first offers are answered. *)
Init ==
    /\ room = Unheld(Threads)
    /\ at = [t \in Threads |-> IF \E c \in Clients : t = Reader(c) THEN "read" ELSE "idle"]
    /\ targets = [t \in Threads |-> {}]
    /\ leaving = None /\ hosted = TRUE
    /\ waiting = [c \in Clients |-> 0]
    /\ closed = [c \in Clients |-> FALSE]
    /\ conn = [c \in Clients |-> TRUE]
    /\ pump = [c \in Clients |-> "select"]
    /\ signaling = [c \in Clients |-> "stable"]
    /\ offers = [c \in Clients |-> NoOffers]
    /\ dropped = [c \in Clients |-> FALSE]

-----------------------------------------------------------------------------
(* Steps of a thread, and of a lock. *)

Goes(t, from, to) == at[t] = from /\ at' = [at EXCEPT ![t] = to]
InRoom(t) == t \notin room.parked

Locks(t, from, to) == Goes(t, from, to) /\ CanLock(room) /\ room' = Locked(room, t)
Unlocks(t, from, to) == Goes(t, from, to) /\ Writes(room, t) /\ room' = Unlocked(room)
RLocks(t, from, to) == Goes(t, from, to) /\ room' = RLocked(room, t)
RUnlocks(t, from, to) == Goes(t, from, to) /\ InRoom(t) /\ room' = RUnlocked(room, t)

(* A read under the lock in which nothing waits is one step. *)
ReadsRoom(t, from, to) == Goes(t, from, to) /\ room.writer = Nobody /\ UNCHANGED room

(* The hub disconnects a client under the write lock of RoomManager.mu. *)
ManagerIsFree == at[Hub] = "idle"

(* Client.SafeSend: refused when Send is closed or full. *)
Takes(c) == ~closed[c] /\ waiting[c] < Cap

SafeSend(cs) ==
    waiting' = [c \in Clients |-> IF c \in cs /\ Takes(c) THEN waiting[c] + 1 ELSE waiting[c]]

(* An offer is made and sent. *)
SendOffer(c) ==
    /\ SafeSend({c})
    /\ offers' = IF Takes(c) /\ conn[c] THEN [offers EXCEPT ![c]["send"] = @ + 1] ELSE offers
    /\ dropped' = [dropped EXCEPT ![c] = @ \/ (conn[c] /\ ~Takes(c))]

(* Mutant: it is sent although SetLocalDescription failed. *)
OfferUnchecked(c) ==
    /\ SendOffer(c)
    /\ signaling' = [signaling EXCEPT ![c] = IF @ = "stable" THEN "offered" ELSE @]
    /\ UNCHANGED <<closed, conn, pump>>

(* SetLocalDescription fails unless the PeerConnection is stable. *)
Offer(c) ==
    IF signaling[c] = "stable"
    THEN /\ SendOffer(c)
         /\ signaling' = [signaling EXCEPT ![c] = "offered"]
         /\ UNCHANGED <<closed, conn, pump>>
    ELSE UNCHANGED <<socket, peer>>

-----------------------------------------------------------------------------
(* The ReadPump of a client and its handlers. *)

Reads(c) == at[Reader(c)] = "read" /\ conn[c]

(* handleSDPAnswer, with its keyframe request: Room.SendPLIThrottled writes. *)
ReadAnswer(c) ==
    /\ Reads(c) /\ offers[c]["browser"] > 0
    /\ offers' = [offers EXCEPT ![c]["browser"] = @ - 1]
    /\ IF signaling[c] = "offered"
       THEN /\ signaling' = [signaling EXCEPT ![c] = "stable"]
            /\ at' = [at EXCEPT ![Reader(c)] = "pli"]
       ELSE UNCHANGED <<signaling, at>>
    /\ UNCHANGED <<room, targets, members, socket, dropped>>

SendPLIToHost(c) ==
    /\ Locks(Reader(c), "pli", "throttle") /\ ManagerIsFree
    /\ UNCHANGED <<targets, members, socket, peer>>

SendPLIThrottled(c) ==
    /\ Unlocks(Reader(c), "throttle", "read")
    /\ UNCHANGED <<targets, members, socket, peer>>

(* handleRoomStateSync, and the end of handleViewerJoinPlay: the state is
   read, and sent on Send without a default. *)
RoomStateSync(c) ==
    /\ Reads(c) /\ ManagerIsFree /\ ReadsRoom(Reader(c), "read", "direct")
    /\ UNCHANGED <<targets, members, socket, peer>>

(* A send on a closed channel panics: the deferred calls of ReadPump follow. *)
DirectSend(c) ==
    /\ \/ closed[c] /\ Goes(Reader(c), "direct", "leave") /\ UNCHANGED waiting
       \/ Takes(c) /\ Goes(Reader(c), "direct", "read") /\ SafeSend({c})
    /\ UNCHANGED <<room, targets, members, closed, conn, pump, peer>>

(* handleSeatRequest: without a host the error is sent if there is a place;
   otherwise HostClient is read again, and the request goes to its Send
   though the hub may have closed it meanwhile.  A closed channel panics. *)
SeatRequest(c) ==
    /\ Reads(c) /\ ManagerIsFree
    /\ IF hosted THEN ReadsRoom(Reader(c), "read", "relay") /\ UNCHANGED waiting
       ELSE /\ ReadsRoom(Reader(c), "read", IF closed[c] THEN "leave" ELSE "read")
            /\ SafeSend({c})
    /\ UNCHANGED <<targets, members, closed, conn, pump, peer>>

RelaySeatRequest(c) ==
    /\ \/ /\ Goes(Reader(c), "relay", IF closed[Host] THEN "leave" ELSE "read")
          /\ SafeSend({Host})
       \/ ~hosted /\ Goes(Reader(c), "relay", "direct") /\ UNCHANGED waiting
    /\ UNCHANGED <<room, targets, members, closed, conn, pump, peer>>

(* handleSubscribeCoHost with an offer of the client. *)
SubscribeCoHost(c) ==
    /\ Reads(c) /\ ManagerIsFree /\ signaling[c] = "stable"
    /\ ReadsRoom(Reader(c), "read", "answer")
    /\ signaling' = [signaling EXCEPT ![c] = "answering"]
    /\ UNCHANGED <<targets, members, socket, offers, dropped>>

SetLocalAnswer(c) ==
    /\ IF signaling[c] = "answering"
       THEN /\ Goes(Reader(c), "answer", "direct")
            /\ signaling' = [signaling EXCEPT ![c] = "stable"]
       ELSE Goes(Reader(c), "answer", "read") /\ UNCHANGED signaling
    /\ UNCHANGED <<room, targets, members, socket, offers, dropped>>

(* TriggerICERestart, asked for by the client or by the timer of its state. *)
TriggerICERestart(c) ==
    /\ signaling[c] = "stable" /\ Offer(c)
    /\ UNCHANGED <<locks, members>>

ReadFails(c) ==
    /\ ~conn[c] /\ Goes(Reader(c), "read", "leave")
    /\ UNCHANGED <<room, targets, members, socket, peer>>

-----------------------------------------------------------------------------
(* The WritePump, the connection and the browser behind it. *)

Disconnected(c) ==
    /\ conn' = [conn EXCEPT ![c] = FALSE]
    /\ offers' = [offers EXCEPT ![c] = NoOffers]
    /\ dropped' = [dropped EXCEPT ![c] = FALSE]

(* One message and what else is in Send become a frame. *)
PumpTakes(c) ==
    /\ pump[c] = "select" /\ waiting[c] > 0
    /\ pump' = [pump EXCEPT ![c] = "write"]
    /\ waiting' = [waiting EXCEPT ![c] = 0]
    /\ offers' = [offers EXCEPT ![c]["send"] = 0, ![c]["frame"] = @ + offers[c]["send"]]
    /\ UNCHANGED <<locks, members, closed, conn, signaling, dropped>>

PumpWrites(c) ==
    /\ pump[c] = "write" /\ conn[c]
    /\ pump' = [pump EXCEPT ![c] = "select"]
    /\ offers' = [offers EXCEPT ![c]["frame"] = 0, ![c]["browser"] = @ + offers[c]["frame"]]
    /\ UNCHANGED <<locks, members, waiting, closed, conn, signaling, dropped>>

(* Mutant: the pump ends and leaves the connection open. *)
PumpEndsQuietly(c) ==
    /\ \/ pump[c] = "write"
       \/ pump[c] = "select" /\ ~conn[c]
       \/ pump[c] = "select" /\ closed[c] /\ waiting[c] = 0
    /\ pump' = [pump EXCEPT ![c] = "gone"]
    /\ UNCHANGED <<locks, members, waiting, closed, conn, peer>>

(* A write or a ping fails, or Send is closed and empty: the pump closes the
   connection and is gone. *)
PumpEnds(c) ==
    /\ \/ pump[c] = "write"
       \/ pump[c] = "select" /\ ~conn[c]
       \/ pump[c] = "select" /\ closed[c] /\ waiting[c] = 0
    /\ pump' = [pump EXCEPT ![c] = "gone"]
    /\ Disconnected(c)
    /\ UNCHANGED <<locks, members, waiting, closed, signaling>>

ConnectionFails(c) ==
    /\ conn[c]
    /\ Disconnected(c)
    /\ UNCHANGED <<locks, members, waiting, closed, pump, signaling>>

-----------------------------------------------------------------------------
(* Hub.Run: a client is handed over by its ReadPump, which then closes the
   PeerConnection and the connection, or by the collector of silent clients. *)

Zombie(c) == ~closed[c] /\ ~conn[c] /\ at[Reader(c)] \notin {"read", "leave", "gone"}

HubReceives(c) ==
    /\ at[Hub] = "idle" /\ (at[Reader(c)] = "leave" \/ Zombie(c))
    /\ at' = [at EXCEPT ![Hub] = IF c = Host THEN "lock" ELSE "broadcast",
                        ![Reader(c)] = IF @ = "leave" THEN "gone" ELSE @]
    /\ leaving' = c
    /\ Disconnected(c)
    /\ signaling' = [signaling EXCEPT ![c] = "closed"]
    /\ UNCHANGED <<room, targets, hosted, waiting, closed, pump>>

(* Room.StartReconnectTimer or StartParticipantReconnectTimer. *)
StartTimer ==
    /\ Locks(Hub, "arm", "armed")
    /\ UNCHANGED <<targets, members, socket, peer>>

(* Mutant: Send is left open. *)
LeaveSendOpen ==
    /\ Unlocks(Hub, "armed", "idle")
    /\ leaving' = None
    /\ UNCHANGED <<targets, hosted, socket, peer>>

CloseSend ==
    /\ Unlocks(Hub, "armed", "idle")
    /\ leaving' = None
    /\ closed' = [closed EXCEPT ![leaving] = TRUE]
    /\ UNCHANGED <<targets, hosted, waiting, conn, pump, peer>>

-----------------------------------------------------------------------------
(* A track of a co-host arrives: SetCoHostTrack; "new_cohost" to the room;
   AddTrackAndRenegotiate.  The hub, taking out the host, clears HostClient
   and tells the room in the same steps. *)

TrackArrives(p) ==
    /\ signaling[p] # "closed" /\ Goes(Track(p), "idle", "lock")
    /\ UNCHANGED <<room, targets, members, socket, peer>>

LockRoom(t) ==
    /\ Locks(t, "lock", "set")
    /\ UNCHANGED <<targets, members, socket, peer>>

SetInRoom(t) ==
    /\ Unlocks(t, "set", "broadcast")
    /\ hosted' = (hosted /\ t # Hub)
    /\ UNCHANGED <<targets, leaving, socket, peer>>

BroadcastToRoom(t) ==
    /\ t = Hub \/ ManagerIsFree
    /\ RLocks(t, "broadcast", "tell")
    /\ UNCHANGED <<targets, members, socket, peer>>

Told == Viewers \cup IF hosted THEN {Host} ELSE {}
AfterBroadcast(t) == IF t = Hub THEN "arm" ELSE "renegotiate"

(* Mutant: the message for the host waits for a place in its Send. *)
TellRoomWaiting(t) ==
    /\ hosted => Takes(Host) \/ closed[Host]
    /\ RUnlocks(t, "tell", AfterBroadcast(t))
    /\ SafeSend(Told)
    /\ UNCHANGED <<targets, members, closed, conn, pump, peer>>

(* The host is served under the lock, the viewers after it, which nobody
   notices: SafeSend waits for nothing. *)
TellRoom(t) ==
    /\ RUnlocks(t, "tell", AfterBroadcast(t))
    /\ SafeSend(Told)
    /\ UNCHANGED <<targets, members, closed, conn, pump, peer>>

(* AddTrackAndRenegotiate holds Room.mu for reading all along, *)
AddTrackAndRenegotiate(p) ==
    /\ ManagerIsFree /\ RLocks(Track(p), "renegotiate", "offer")
    /\ targets' = [targets EXCEPT ![Track(p)] = Clients \ {p}]
    /\ UNCHANGED <<members, socket, peer>>

(* offers the track to the host, if it is there, and to the other viewers, *)
RenegotiateClient(p, c) ==
    LET todo == targets[Track(p)] IN
    /\ InRoom(Track(p)) /\ c \in todo /\ (c = Host \/ Host \notin todo)
    /\ Goes(Track(p), "offer", IF todo = {c} THEN "nested" ELSE "offer")
    /\ targets' = [targets EXCEPT ![Track(p)] = todo \ {c}]
    /\ IF c = Host /\ ~hosted THEN UNCHANGED <<socket, peer>> ELSE Offer(c)
    /\ UNCHANGED <<room, members>>

(* and takes the lock again, in GetHostPeerConnection; what GetHostVideoSSRC
   asks for after it is the same. *)
GetHostPeerConnection(p) ==
    /\ RLocks(Track(p), "nested", "hostPC")
    /\ UNCHANGED <<targets, members, socket, peer>>

RenegotiationDone(p) ==
    LET t == Track(p) IN
    /\ InRoom(t) /\ Goes(t, "hostPC", "idle")
    /\ room' = RUnlocked(RUnlocked(room, t), t)
    /\ UNCHANGED <<targets, members, socket, peer>>

-----------------------------------------------------------------------------
Handle(c) ==
    \/ SendPLIToHost(c) \/ SendPLIThrottled(c) \/ DirectSend(c)
    \/ RelaySeatRequest(c) \/ SetLocalAnswer(c) \/ ReadFails(c)
Pump(c) == PumpTakes(c) \/ PumpWrites(c) \/ PumpEnds(c)
Tell(t) ==
    \/ LockRoom(t) \/ SetInRoom(t) \/ BroadcastToRoom(t) \/ TellRoom(t)
RunHub == (\E c \in Clients : HubReceives(c)) \/ Tell(Hub) \/ StartTimer \/ CloseSend
Renegotiate(p) ==
    \/ AddTrackAndRenegotiate(p) \/ \E c \in Clients : RenegotiateClient(p, c)
    \/ GetHostPeerConnection(p) \/ RenegotiationDone(p)
OnTrack(p) == Tell(Track(p)) \/ Renegotiate(p)

Next ==
    \/ \E c \in Askers : \/ RoomStateSync(c) \/ SeatRequest(c)
                         \/ SubscribeCoHost(c) \/ TriggerICERestart(c)
    \/ \E c \in Clients : \/ ReadAnswer(c) \/ Handle(c) \/ Pump(c) \/ ConnectionFails(c)
    \/ \E p \in Publishers : TrackArrives(p) \/ OnTrack(p)
    \/ RunHub

(* Goroutines run, locks and channels serve those who wait in turn, and a
   write to a connection ends within writeWait.  Nothing is asked of clients. *)
Fairness ==
    /\ \A c \in Clients : SF_vars(Handle(c)) /\ WF_vars(Pump(c))
    /\ \A p \in Publishers : SF_vars(OnTrack(p))
    /\ SF_vars(RunHub)

Spec == Init /\ [][Next]_vars /\ Fairness

-----------------------------------------------------------------------------
(* As long as the connection stands, a PeerConnection waits for an answer
   exactly when one offer is on its way to it, or the answer on its way back,
   or when the offer was dropped or is not answered, after which no other is
   made: no second offer, and no answer that finds nothing to answer, whoever
   renegotiates (AddTrackAndRenegotiate, TriggerICERestart, handleSDPAnswer,
   handleSubscribeCoHost). *)
Outstanding(c) ==
    offers[c]["send"] + offers[c]["frame"] + offers[c]["browser"]
OneOfferAtATime ==
    \A c \in Clients : conn[c] /\ signaling[c] # "closed" =>
        /\ Outstanding(c) = IF signaling[c] = "offered" /\ ~dropped[c] THEN 1 ELSE 0
        /\ dropped[c] => signaling[c] = "offered"

(* A renegotiation waits at its second lock behind a writer that waits for
   its first: from here on nobody gets Room.mu. *)
Stuck == \E p \in Publishers : Track(p) \in room.parked /\ room.holds[Track(p)] > 0

(* Unless that happens, a handler that sends on Send directly goes on: its
   pump makes a place, or its client is taken out and the channel closed
   (handleRoomStateSync, handleViewerJoinPlay, handleSubscribeCoHost). *)
HandlersReturn ==
    \A c \in Askers : []<>(at[Reader(c)] # "direct" \/ Stuck)

(* Unless that happens, whoever asks for Room.mu gets it, whatever the
   connections and channels of the clients do (broadcastRawToRoomInternal,
   AddTrackAndRenegotiate, HandleClientDisconnect). *)
AsksForRoom(t) ==
    \/ at[t] \in {"pli", "lock", "arm"}
    \/ at[t] \in {"throttle", "set", "armed"} /\ ~room.active
    \/ t \in room.parked
RoomServes == \A t \in Threads : []<>(~AsksForRoom(t) \/ Stuck)

(* Unless that happens, a client whose connection fails is taken out: both
   its pumps end and its channel is closed (ReadPump, WritePump, Hub.Run). *)
BrokenClientsLeave ==
    \A c \in Clients :
        []<>(conn[c] \/ (closed[c] /\ pump[c] = "gone" /\ at[Reader(c)] = "gone") \/ Stuck)
=============================================================================
