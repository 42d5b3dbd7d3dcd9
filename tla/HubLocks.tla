------------------------------ MODULE HubLocks ------------------------------
(***************************************************************************)
(* The locks and channels between Hub.Run, the zombie collector, the       *)
(* readers of the websockets and the writers of RoomManager.mu.            *)
(*                                                                         *)
(* register and unregister are unbuffered: a sender waits until Hub.Run is *)
(* back at its select.  RoomManager.mu is a sync.RWMutex; the critical     *)
(* sections of Hub.mu and of the Client mutexes wait for nobody and are    *)
(* part of the step they occur in.                                         *)
(***************************************************************************)
EXTENDS RWMutex, FiniteSets

CONSTANTS
  Peers,     \* Client objects
  Rooms,     \* room names
  Makers,    \* handlers and requests that create a room, once each
  NoClient

ASSUME LocksOK == NoClient \notin Peers

HubRun == <<"hub">>
GC == <<"gc">>
Closer(r) == <<"close", r>>  \* go CloseRoomAndNotifyWithReason(r)
Maker(m) == <<"make", m>>
Writers == {Closer(r) : r \in Rooms} \cup {Maker(m) : m \in Makers}
Lockers == {HubRun, GC} \cup Writers

VARIABLES
  clients,  \* Hub.clients
  reader,   \* the ReadPump goroutine of each client
  open,     \* clients whose websocket is open
  silent,   \* clients whose last pong is older than the time-out
  shut,     \* clients whose Send channel is closed
  rooms,    \* RoomManager.activeRooms
  hosts,    \* the clients that carry the Room.HostID of each room; never changes
  rm,       \* RoomManager.mu
  hub,      \* Hub.Run: where it is, and the client it handles
  gc,       \* cleanupZombiePeers: where it is, the client, zombies and rooms left
  writer    \* where each closer and maker is

hubVars == <<clients, reader, open, silent, shut, rooms, hosts, rm, hub, gc, writer>>

HubInit ==
  /\ clients = {} /\ silent = {} /\ shut = {}
  /\ reader = [c \in Peers |-> "off"]
  /\ open = {}
  /\ rooms \in SUBSET Rooms /\ hosts \in [Rooms -> SUBSET Peers]
  /\ rm = Unheld(Lockers)
  /\ hub = [at |-> "select", client |-> NoClient]
  /\ gc = [at |-> "idle", client |-> NoClient, left |-> {}, todo |-> {}]
  /\ writer = [x \in Writers |-> "idle"]

-----------------------------------------------------------------------------
(* Websockets.                                                              *)

\* A websocket is accepted: its handler sends to hub.register.
Accept(c) ==
  /\ reader[c] = "off"
  /\ reader' = [reader EXCEPT ![c] = "joining"]
  /\ open' = open \cup {c}
  /\ UNCHANGED <<clients, silent, shut, rooms, rm, hub, gc, writer, hosts>>

\* No pong for longer than the time-out.
FallSilent(c) ==
  /\ c \in clients
  /\ silent' = silent \cup {c}
  /\ UNCHANGED <<clients, reader, open, shut, rooms, rm, hub, gc, writer, hosts>>

\* A pong resets lastPong.
Pong(c) ==
  /\ c \in silent /\ c \in open
  /\ silent' = silent \ {c}
  /\ UNCHANGED <<clients, reader, open, shut, rooms, rm, hub, gc, writer, hosts>>

HangUp(c) ==
  /\ c \in open /\ reader[c] = "reading"
  /\ open' = open \ {c}
  /\ UNCHANGED <<clients, reader, silent, shut, rooms, rm, hub, gc, writer, hosts>>

\* ReadMessage fails and the deferred send to hub.unregister begins.
ReaderFails(c) ==
  /\ reader[c] = "reading" /\ c \notin open
  /\ reader' = [reader EXCEPT ![c] = "leaving"]
  /\ UNCHANGED <<clients, open, silent, shut, rooms, rm, hub, gc, writer, hosts>>

-----------------------------------------------------------------------------
(* Hub.Run.                                                                 *)

HubRegisters(c) ==
  /\ hub.at = "select" /\ reader[c] = "joining"
  /\ clients' = clients \cup {c}
  /\ reader' = [reader EXCEPT ![c] = "reading"]
  /\ UNCHANGED <<open, silent, shut, rooms, rm, hub, gc, writer, hosts>>

\* Hub.Run receives from unregister; the sender is the reader or the collector.
HubUnregisters(c) ==
  /\ hub.at = "select"
  /\ \/ /\ reader[c] = "leaving"
        /\ reader' = [reader EXCEPT ![c] = "left"] /\ UNCHANGED gc
     \/ /\ gc.at = "unregister" /\ gc.client = c
        /\ gc' = [gc EXCEPT !.at = "next", !.client = NoClient]
        /\ UNCHANGED reader
  /\ clients' = clients \ {c}
  /\ hub' = [at |-> "lock", client |-> c]
  /\ UNCHANGED <<open, silent, shut, rooms, rm, writer, hosts>>

\* HandleClientDisconnect: rm.mu.Lock(), its body, the deferred Unlock.
HubLocks ==
  /\ hub.at = "lock" /\ CanLock(rm)
  /\ rm' = Locked(rm, HubRun)
  /\ hub' = [hub EXCEPT !.at = "disconnect"]
  /\ UNCHANGED <<clients, reader, open, silent, shut, rooms, gc, writer, hosts>>

HubDisconnects ==
  /\ hub.at = "disconnect" /\ Writes(rm, HubRun)
  /\ rm' = Unlocked(rm)
  /\ hub' = [hub EXCEPT !.at = "close"]
  /\ UNCHANGED <<clients, reader, open, silent, shut, rooms, gc, writer, hosts>>

\* client.CloseSend(), after the cleanup.
HubClosesSend ==
  /\ hub.at = "close"
  /\ shut' = shut \cup {hub.client}
  /\ hub' = [at |-> "select", client |-> NoClient]
  /\ UNCHANGED <<clients, reader, open, silent, rooms, rm, gc, writer, hosts>>

-----------------------------------------------------------------------------
(* cleanupZombiePeers, at every tick of its timer.                          *)

Zombies == clients \cap silent

GCScans ==
  /\ gc.at = "idle" /\ Zombies # {}
  /\ gc' = [gc EXCEPT !.at = "next", !.left = Zombies]
  /\ UNCHANGED <<clients, reader, open, silent, shut, rooms, rm, hub, writer, hosts>>

\* The next zombie: its PeerConnection and websocket are closed.
GCTakes(c) ==
  /\ gc.at = "next" /\ c \in gc.left
  /\ gc' = [gc EXCEPT !.at = "rlock", !.client = c, !.left = @ \ {c}]
  /\ open' = open \ {c}
  /\ UNCHANGED <<clients, reader, silent, shut, rooms, rm, hub, writer, hosts>>

GCRests ==
  /\ gc.at = "next" /\ gc.left = {}
  /\ gc' = [gc EXCEPT !.at = "idle"]
  /\ UNCHANGED <<clients, reader, open, silent, shut, rooms, rm, hub, writer, hosts>>

\* rm.mu.RLock() around the loop over activeRooms.
GCRLocks ==
  /\ gc.at = "rlock"
  /\ rm' = RLocked(rm, GC)
  /\ gc' = [gc EXCEPT !.at = "enter"]
  /\ UNCHANGED <<clients, reader, open, silent, shut, rooms, hub, writer, hosts>>

GCEnters ==
  /\ gc.at = "enter" /\ rm.holds[GC] = 1
  /\ gc' = [gc EXCEPT !.at = "rooms", !.todo = rooms]
  /\ UNCHANGED <<clients, reader, open, silent, shut, rooms, rm, hub, writer, hosts>>

\* Mutant of GCClosesRoom: the read lock is released for the closer.
GCClosesUnlocked(r) ==
  /\ gc.at = "rooms" /\ r \in gc.todo /\ gc.client \in hosts[r]
  /\ rm' = RUnlocked(rm, GC)
  /\ gc' = [gc EXCEPT !.todo = @ \ {r}]
  /\ writer' = [writer EXCEPT ![Closer(r)] = IF @ = "idle" THEN "lock" ELSE @]
  /\ UNCHANGED <<clients, reader, open, silent, shut, rooms, hub, hosts>>

\* The zombie hosts this room: a goroutine closes it.
GCClosesRoom(r) ==
  /\ gc.at = "rooms" /\ r \in gc.todo /\ gc.client \in hosts[r]
  /\ gc' = [gc EXCEPT !.todo = @ \ {r}]
  /\ writer' = [writer EXCEPT ![Closer(r)] = IF @ = "idle" THEN "lock" ELSE @]
  /\ UNCHANGED <<clients, reader, open, silent, shut, rooms, rm, hub, hosts>>

\* Any other room: RemoveViewer, whether the zombie watches it or not, takes
\* rm.mu.RLock() again while the loop still holds it.
GCRemovesViewer(r) ==
  /\ gc.at = "rooms" /\ r \in gc.todo /\ gc.client \notin hosts[r]
  /\ rm' = RLocked(rm, GC)
  /\ gc' = [gc EXCEPT !.at = "nested", !.todo = @ \ {r}]
  /\ UNCHANGED <<clients, reader, open, silent, shut, rooms, hub, writer, hosts>>

GCNestedReturns ==
  /\ gc.at = "nested" /\ rm.holds[GC] = 2
  /\ rm' = RUnlocked(rm, GC)
  /\ gc' = [gc EXCEPT !.at = "rooms"]
  /\ UNCHANGED <<clients, reader, open, silent, shut, rooms, hub, writer, hosts>>

\* Mutant of GCUnlocks: a deferred RUnlock, run after the send to unregister.
GCUnlocksLate ==
  /\ gc.at = "rooms" /\ gc.todo = {}
  /\ gc' = [gc EXCEPT !.at = "unregister"]
  /\ UNCHANGED <<clients, reader, open, silent, shut, rooms, rm, hub, writer, hosts>>

\* rm.mu.RUnlock(), then the send to hub.unregister.
GCUnlocks ==
  /\ gc.at = "rooms" /\ gc.todo = {}
  /\ rm' = RUnlocked(rm, GC)
  /\ gc' = [gc EXCEPT !.at = "unregister"]
  /\ UNCHANGED <<clients, reader, open, silent, shut, rooms, hub, writer, hosts>>

-----------------------------------------------------------------------------
(* Writers of RoomManager.mu.                                               *)

MakerStarts(m) ==
  /\ writer[Maker(m)] = "idle"
  /\ writer' = [writer EXCEPT ![Maker(m)] = "lock"]
  /\ UNCHANGED <<clients, reader, open, silent, shut, rooms, rm, hub, gc, hosts>>

WriterLocks(x) ==
  /\ writer[x] = "lock" /\ CanLock(rm)
  /\ rm' = Locked(rm, x)
  /\ writer' = [writer EXCEPT ![x] = "write"]
  /\ UNCHANGED <<clients, reader, open, silent, shut, rooms, hub, gc, hosts>>

\* CreateRoom's critical section.
MakerCreates(m, r) ==
  /\ writer[Maker(m)] = "write" /\ Writes(rm, Maker(m))
  /\ rooms' = rooms \cup {r}
  /\ rm' = Unlocked(rm)
  /\ writer' = [writer EXCEPT ![Maker(m)] = "done"]
  /\ UNCHANGED <<clients, reader, open, silent, shut, hub, gc, hosts>>

\* CloseRoomAndNotifyWithReason's: the zombie's websocket is closed already.
CloserCloses(r) ==
  /\ writer[Closer(r)] = "write" /\ Writes(rm, Closer(r))
  /\ rooms' = rooms \ {r}
  /\ rm' = Unlocked(rm)
  /\ writer' = [writer EXCEPT ![Closer(r)] = "idle"]
  /\ UNCHANGED <<clients, reader, open, silent, shut, hub, gc, hosts>>

-----------------------------------------------------------------------------
HubStep ==
  \/ \E c \in Peers : HubRegisters(c) \/ HubUnregisters(c)
  \/ HubLocks \/ HubDisconnects \/ HubClosesSend

GCStep ==
  \/ GCScans \/ GCRests \/ GCRLocks \/ GCEnters \/ GCNestedReturns \/ GCUnlocks
  \/ \E c \in Peers : GCTakes(c)
  \/ \E r \in Rooms : GCClosesRoom(r) \/ GCRemovesViewer(r)

MakerStep(m) == WriterLocks(Maker(m)) \/ \E r \in Rooms : MakerCreates(m, r)

CloserStep(r) == WriterLocks(Closer(r)) \/ CloserCloses(r)

HubNext ==
  \/ \E c \in Peers : Accept(c) \/ FallSilent(c) \/ Pong(c) \/ HangUp(c) \/ ReaderFails(c)
  \/ HubStep \/ GCStep
  \/ \E m \in Makers : MakerStarts(m) \/ MakerStep(m)
  \/ \E r \in Rooms : CloserStep(r)

HubSpec == HubInit /\ [][HubNext]_hubVars

\* Every goroutine that can move moves, and a Go mutex starves nobody; clients
\* and requests come as they like.
HubFairness ==
  /\ SF_hubVars(HubStep) /\ WF_hubVars(GCStep)
  /\ \A c \in Peers : WF_hubVars(ReaderFails(c))
  /\ \A m \in Makers : SF_hubVars(MakerStep(m))
  /\ \A r \in Rooms : SF_hubVars(CloserStep(r))

HubFairSpec == HubSpec /\ HubFairness

-----------------------------------------------------------------------------
(* What must hold.                                                          *)

\* Every variable has its type.
HubTypeOK ==
  /\ clients \subseteq Peers /\ open \subseteq Peers
  /\ silent \subseteq Peers /\ shut \subseteq Peers
  /\ rooms \subseteq Rooms /\ hosts \in [Rooms -> SUBSET Peers]
  /\ reader \in [Peers -> {"off", "joining", "reading", "leaving", "left"}]
  /\ rm \in Mutexes(Lockers)
  /\ hub \in [at : {"select", "lock", "disconnect", "close"},
              client : Peers \cup {NoClient}]
  /\ gc \in [at : {"idle", "next", "rlock", "enter", "rooms", "nested", "unregister"},
             client : Peers \cup {NoClient}, left : SUBSET Peers,
             todo : SUBSET Rooms]
  /\ writer \in [Writers -> {"idle", "lock", "write", "done"}]

\* Nobody waits for Hub.Run to receive while it holds the lock Hub.Run needs.
NobodyHoldsTheLockAtTheHub ==
  gc.at \in {"idle", "next", "rlock", "unregister"} => rm.holds[GC] = 0

\* Every client on this node is a host of all its rooms.
OnlyHosts == \A r \in Rooms : hosts[r] = Peers

\* A connection that is accepted or that ends is served by Hub.Run, whatever
\* the collector and the writers do meanwhile, as long as no zombie meets a
\* room of another host.
HubServesHosts ==
  OnlyHosts => \A c \in Peers :
    /\ reader[c] = "joining" ~> reader[c] # "joining"
    /\ reader[c] = "leaving" ~> c \in shut /\ c \notin clients

\* "If a Peer's lastPongReceived is older than timeout, aggressively executes
\* cleanup": a client that stays silent does not stay with the hub.
ZombiesAreRemoved ==
  \A c \in Peers : c \in Zombies ~> (c \notin clients \/ c \notin silent)

\* The same, where every client hosts every room.
ZombieHostsAreRemoved == OnlyHosts => ZombiesAreRemoved
=============================================================================
