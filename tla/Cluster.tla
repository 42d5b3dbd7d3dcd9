------------------------------ MODULE Cluster ------------------------------
(***************************************************************************)
(* One room name on several servers that share a Redis.                    *)
(*                                                                         *)
(* Each node has a RoomManager, whose mutex CreateRoom and the closing of  *)
(* a room hold while they talk to Redis, and a RedisBroker with its        *)
(* subscriptions.  Room events go through Redis to every node, also to the *)
(* one that publishes them; a viewer whose room has its host elsewhere     *)
(* sends its offer to that node and gets the answer the same way.          *)
(* Redis answers; what it publishes reaches who has subscribed by then.    *)
(* A node may stop, whatever it is doing, and be started again.            *)
(***************************************************************************)
EXTENDS Naturals, Sequences, FiniteSets

CONSTANTS
    Nodes, Edges,  \* servers; those with the role edge
    Sockets,       \* websocket connections
    NodeOf,        \* NodeOf[s]: the server a socket is connected to
    Users, UserOf, \* UserOf[s]: its user
    None,
    Hosts,         \* Hosts[n]: bound: the rooms opened on a node, and who may host each
    MaxEvents      \* bound on the events broadcast

ASSUME ClusterAssumption ==
    /\ IsFiniteSet(Nodes) /\ Edges \subseteq Nodes
    /\ NodeOf \in [Sockets -> Nodes] /\ UserOf \in [Sockets -> Users]
    /\ None \notin Nodes \cup Sockets \cup Users /\ Nodes \cap Users = {}
    /\ Hosts \in [Nodes -> Seq(SUBSET (Users \cup {None}))] /\ MaxEvents \in Nat

VARIABLES
    open, opens,   \* activeRooms holds the room; how often it did so far
    busy,          \* what the holder of RoomManager.mu does next, or "no"
    hostID,        \* Room.HostID, None for a host who has no socket here
    hostClient,    \* Room.HostClient
    viewers,       \* the sockets in Room.Viewers
    nodeMap,       \* room_node_map in Redis,
    origin,        \*   and room:origin
    orphans,       \* history: which of the two a node has set that has
                   \*   stopped since
    subs,          \* every subscription of a node to the events: live, inbox
    current,       \* the one in RedisBroker.subscribers, or 0
    pattern,       \* nodes that subscribe to the signalling of all viewers,
    offered,       \*   and their inboxes
    relay,         \* relay[n][u]: the socket the callback sends to, or None,
    returned,      \*   and the inbox of that subscription
    step, remote,  \* where the handler of a socket is; its host is elsewhere
    events,        \* events published so far
    got,           \* got[s]: the events a socket was sent, and as what,
                   \*   while it is there
    owed,          \* history: events published while s was a client of an
                   \*   open room, until s is sent them or leaves
    relayed        \* relayed[s]: the signalling messages a socket was sent,
                   \*   while it is there

rooms == <<open, opens, busy, hostID, hostClient, viewers>>
registry == <<nodeMap, origin, orphans>>
channels == <<subs, current, events, got, owed>>
signalling == <<pattern, offered, relay, returned, relayed>>
handlers == <<step, remote>>
vars == <<rooms, registry, channels, signalling, handlers>>

Sub == [live : BOOLEAN, inbox : Seq(1..MaxEvents)]
Message == [event : {"offer", "answer"}, by : Users \cup Nodes, offerer : Sockets]
Places == {"host", "viewer"}
Busy == {"no", "map", "register", "unregister", "unlink"}
Steps == {"off", "route", "join", "subscribe", "offer", "relay", "in", "gone", "left"}

TypeOK ==
    /\ open \in [Nodes -> BOOLEAN]
    /\ opens \in [Nodes -> Nat] /\ \A n \in Nodes : opens[n] <= Len(Hosts[n])
    /\ busy \in [Nodes -> Busy]
    /\ hostID \in [Nodes -> Users \cup {None}]
    /\ hostClient \in [Nodes -> Sockets \cup {None}]
    /\ viewers \in [Nodes -> SUBSET Sockets]
    /\ nodeMap \in Nodes \cup {None} /\ origin \in Nodes \cup {None}
    /\ orphans \subseteq {"nodeMap", "origin"}
    /\ subs \in [Nodes -> Seq(Sub)]
    /\ current \in [Nodes -> Nat] /\ \A n \in Nodes : current[n] <= Len(subs[n])
    /\ pattern \subseteq Nodes /\ offered \in [Nodes -> Seq(Sockets)]
    /\ relay \in [Nodes -> [Users -> Sockets \cup {None}]]
    /\ returned \in [Nodes -> [Users -> Seq(Message)]]
    /\ step \in [Sockets -> Steps] /\ remote \subseteq Sockets
    /\ events \in 0..MaxEvents
    /\ got \in [Sockets -> Seq((1..MaxEvents) \X Places)]
    /\ owed \in [Sockets -> SUBSET (1..MaxEvents)]
    /\ relayed \in [Sockets -> Seq(Message)]

Init ==
    /\ open = [n \in Nodes |-> FALSE] /\ opens = [n \in Nodes |-> 0]
    /\ busy = [n \in Nodes |-> "no"]
    /\ hostID = [n \in Nodes |-> None] /\ hostClient = [n \in Nodes |-> None]
    /\ viewers = [n \in Nodes |-> {}]
    /\ nodeMap = None /\ origin = None /\ orphans = {}
    /\ subs = [n \in Nodes |-> << >>] /\ current = [n \in Nodes |-> 0]
    /\ pattern = {} /\ offered = [n \in Nodes |-> << >>]
    /\ relay = [n \in Nodes |-> [u \in Users |-> None]]
    /\ returned = [n \in Nodes |-> [u \in Users |-> << >>]]
    /\ step = [s \in Sockets |-> "off"] /\ remote = {}
    /\ events = 0
    /\ got = [s \in Sockets |-> << >>] /\ owed = [s \in Sockets |-> {}]
    /\ relayed = [s \in Sockets |-> << >>]

-----------------------------------------------------------------------------
SocketsOf(n) == {s \in Sockets : NodeOf[s] = n}

(* The connected clients of a room.  A host may be among its viewers too. *)
Connected(s) == step[s] \notin {"gone", "left"}
IsClient(s) == Connected(s) /\ (s = hostClient[NodeOf[s]] \/ s \in viewers[NodeOf[s]])

(* Whoever is no client any more is owed nothing. *)
Forget == owed' = [s \in Sockets |-> IF IsClient(s)' THEN owed[s] ELSE {}]

(* These sockets end, and with them what they were sent. *)
End(S) ==
    /\ step' = [s \in Sockets |-> IF s \in S THEN "left" ELSE step[s]]
    /\ got' = [s \in Sockets |-> IF s \in S THEN << >> ELSE got[s]]
    /\ relayed' = [s \in Sockets |-> IF s \in S THEN << >> ELSE relayed[s]]

-----------------------------------------------------------------------------
(* RedisBroker.SubscribeRoom: nothing if there is a subscription already. *)

(* Mutant: a new subscription takes the place of the one that is there. *)
SubscribeAnyway(n) ==
    /\ subs' = [subs EXCEPT ![n] = Append(@, [live |-> TRUE, inbox |-> << >>])]
    /\ current' = [current EXCEPT ![n] = Len(subs[n]) + 1]

SubscribeRoom(n) ==
    IF current[n] # 0
      THEN UNCHANGED <<subs, current>>
      ELSE /\ subs' = [subs EXCEPT ![n] = Append(@, [live |-> TRUE, inbox |-> << >>])]
           /\ current' = [current EXCEPT ![n] = Len(subs[n]) + 1]

(* The listener of a closed subscription still delivers what it has. *)
UnsubscribeRoom(n) ==
    /\ subs' = IF current[n] = 0 THEN subs ELSE [subs EXCEPT ![n][current[n]].live = FALSE]
    /\ current' = [current EXCEPT ![n] = 0]

-----------------------------------------------------------------------------
(* CreateRoom: the room and its subscription, the two registries, and on a
   node that is no edge the subscription to the viewers' signalling. *)

Then(n, next) == busy' = [busy EXCEPT ![n] = next]

CreateRoom(n) ==
    /\ busy[n] = "no" /\ ~open[n] /\ opens[n] < Len(Hosts[n])
    /\ open' = [open EXCEPT ![n] = TRUE]
    /\ opens' = [opens EXCEPT ![n] = @ + 1]
    /\ \E u \in Hosts[n][opens'[n]] : hostID' = [hostID EXCEPT ![n] = u]
    /\ SubscribeRoom(n)
    /\ Then(n, "map")
    /\ UNCHANGED <<hostClient, viewers, registry, events, got, owed, signalling, handlers>>

SetRoomNodeMap(n) ==
    /\ busy[n] = "map"
    /\ nodeMap' = n /\ orphans' = orphans \ {"nodeMap"}
    /\ Then(n, IF n \in Edges THEN "no" ELSE "register")
    /\ UNCHANGED <<open, opens, hostID, hostClient, viewers, origin, channels, signalling, handlers>>

RegisterRoomOrigin(n) ==
    /\ busy[n] = "register"
    /\ origin' = n /\ orphans' = orphans \ {"origin"}
    /\ pattern' = pattern \cup {n}
    /\ Then(n, "no")
    /\ UNCHANGED <<open, opens, hostID, hostClient, viewers, nodeMap, channels, offered, relay,
                   returned, relayed, handlers>>

(* Closing: the subscription to the events is closed, the keys of the room
   are deleted whoever has set them, then the room and its sockets go. *)

(* Mutant: the subscription is closed first, on its own, before the lock. *)
CloseRoomEarly(n) ==
    /\ busy[n] = "no" /\ open[n]
    /\ UnsubscribeRoom(n)
    /\ Then(n, IF current[n] = 0 THEN "unregister" ELSE "no")
    /\ UNCHANGED <<open, opens, hostID, hostClient, viewers, registry, events, got, owed,
                   signalling, handlers>>

CloseRoom(n) ==
    /\ busy[n] = "no" /\ open[n]
    /\ UnsubscribeRoom(n)
    /\ Then(n, "unregister")
    /\ UNCHANGED <<open, opens, hostID, hostClient, viewers, registry, events, got, owed,
                   signalling, handlers>>

RemoveRoomOrigin(n) ==
    /\ busy[n] = "unregister"
    /\ origin' = None /\ orphans' = orphans \ {"origin"}
    /\ Then(n, "unlink")
    /\ UNCHANGED <<open, opens, hostID, hostClient, viewers, nodeMap, channels, signalling,
                   handlers>>

ClearRoom(n) ==
    /\ open' = [open EXCEPT ![n] = FALSE]
    /\ hostID' = [hostID EXCEPT ![n] = None]
    /\ hostClient' = [hostClient EXCEPT ![n] = None]
    /\ viewers' = [viewers EXCEPT ![n] = {}]
    /\ Then(n, "no")

ShutSockets(n) ==
    step' = [s \in Sockets |->
               IF s \in SocketsOf(n) /\ IsClient(s) /\ step[s] \in {"off", "in"} THEN "gone" ELSE step[s]]

(* Mutant: the node map is not among the keys, as in RemoveRoom. *)
UnlinkButNodeMap(n) ==
    /\ busy[n] = "unlink"
    /\ ClearRoom(n) /\ ShutSockets(n)
    /\ UNCHANGED <<opens, registry, subs, current, events, got, signalling, remote>>
    /\ Forget

(* Of the two keys only the node map; the key it has for the origin is another. *)
UnlinkAllRoomKeys(n) ==
    /\ busy[n] = "unlink"
    /\ nodeMap' = None /\ orphans' = orphans \ {"nodeMap"}
    /\ ClearRoom(n) /\ ShutSockets(n)
    /\ UNCHANGED <<opens, origin, subs, current, events, got, signalling, remote>>
    /\ Forget

-----------------------------------------------------------------------------
(* The host: handlePublishOffer, where it finds a room of this host and no
   PeerConnection to use again, so that of those who have joined only one with
   its host elsewhere comes here.  HandleClientDisconnect compares user ids:
   any socket of the host's that ends takes the HostClient away. *)

SetHostClient(s) ==
    LET n == NodeOf[s]
    IN /\ step[s] = "off" \/ (step[s] = "in" /\ s \in remote)
       /\ open[n] /\ busy[n] \notin {"map", "register"} /\ hostID[n] = UserOf[s]
       /\ hostClient' = [hostClient EXCEPT ![n] = s]
       /\ UNCHANGED <<open, opens, busy, hostID, viewers, registry, subs, current, events, got,
                      signalling, handlers>>
       /\ Forget

(* The socket of a host or of somebody who has joined fails or has been shut. *)
HandleClientDisconnect(s) ==
    LET n == NodeOf[s]
    IN /\ step[s] \in {"in", "gone"} \/ (step[s] = "off" /\ hostClient[n] = s)
       /\ busy[n] = "no"
       /\ End({s}) /\ remote' = remote \ {s}
       /\ hostClient' = IF hostID[n] = UserOf[s] THEN [hostClient EXCEPT ![n] = None] ELSE hostClient
       /\ UNCHANGED <<open, opens, busy, hostID, viewers, registry, subs, current, events, pattern,
                      offered, relay, returned>>
       /\ Forget

(* After the grace period, which the host has not as a viewer. *)
RemoveViewer(s) ==
    LET n == NodeOf[s]
    IN /\ step[s] = "left" /\ s \in viewers[n] /\ hostID[n] # UserOf[s] /\ busy[n] = "no"
       /\ viewers' = [viewers EXCEPT ![n] = @ \ {s}]
       /\ UNCHANGED <<open, opens, busy, hostID, hostClient, registry, channels, signalling,
                      handlers>>

-----------------------------------------------------------------------------
(* handleViewerJoinPlay.  A room that is missing is created first. *)

Go(s, from, to) == step[s] = from /\ step' = [step EXCEPT ![s] = to]

(* What follows JoinViewer: an offer to the other node, or a local answer. *)
Onward(s) == IF s \in remote THEN "offer" ELSE "in"

FindRoom(s) ==
    /\ busy[NodeOf[s]] = "no" /\ open[NodeOf[s]]
    /\ Go(s, "off", "route")
    /\ UNCHANGED <<rooms, registry, channels, signalling, remote>>

GetRoomNodeMap(s) ==
    /\ Go(s, "route", "join")
    /\ remote' = IF nodeMap \in {None, NodeOf[s]} THEN remote ELSE remote \cup {s}
    /\ UNCHANGED <<rooms, registry, channels, signalling>>

(* Room.Viewers has one place per user. *)
JoinViewer(s) ==
    LET n == NodeOf[s]
    IN /\ busy[n] = "no"
       /\ Go(s, "join", IF open[n] THEN "subscribe" ELSE Onward(s))
       /\ viewers' = IF open[n]
                       THEN [viewers EXCEPT ![n] = {t \in @ : UserOf[t] # UserOf[s]} \cup {s}]
                       ELSE viewers
       /\ UNCHANGED <<open, opens, busy, hostID, hostClient, registry, subs, current, events, got,
                      signalling, remote>>
       /\ Forget

JoinSubscribes(s) ==
    /\ Go(s, "subscribe", Onward(s))
    /\ SubscribeRoom(NodeOf[s])
    /\ UNCHANGED <<rooms, registry, events, got, owed, signalling, remote>>

(* PublishViewerSignaling, as far as the subscribers to one viewer go. *)
Publish(u, m) ==
    returned' = [n \in Nodes |-> [returned[n] EXCEPT ![u] =
                    IF relay[n][u] # None THEN Append(@, m) ELSE @]]

(* Who listens to all viewers of the room gets the offer too. *)
PublishOffer(s) ==
    /\ Go(s, "offer", "relay")
    /\ Publish(UserOf[s], [event |-> "offer", by |-> UserOf[s], offerer |-> s])
    /\ offered' = [n \in Nodes |-> IF n \in pattern THEN Append(offered[n], s) ELSE offered[n]]
    /\ UNCHANGED <<rooms, registry, channels, pattern, relay, relayed, remote>>

(* A subscription of the same user that is there is kept, with its callback. *)
SubscribeViewerSignaling(s) ==
    /\ Go(s, "relay", "in")
    /\ relay' = [relay EXCEPT ![NodeOf[s]][UserOf[s]] = IF @ = None THEN s ELSE @]
    /\ UNCHANGED <<rooms, registry, channels, pattern, offered, returned, relayed, remote>>

-----------------------------------------------------------------------------
(* HandleRemoteViewerSignaling, on the goroutine of the pattern: an offer is
   answered by every node that listens and has the room.  The answers, which
   match the pattern too, are ignored there and not put into these inboxes. *)

AnswerOffer(n) ==
    /\ busy[n] = "no" /\ offered[n] # << >>
    /\ offered' = [offered EXCEPT ![n] = Tail(@)]
    /\ LET s == Head(offered[n])
       IN IF open[n]
            THEN Publish(UserOf[s], [event |-> "answer", by |-> n, offerer |-> s])
            ELSE UNCHANGED returned
    /\ UNCHANGED <<rooms, registry, channels, pattern, relay, relayed, handlers>>

(* Mutant: the viewer's own messages are sent back to it too. *)
RelayAll(n, u) ==
    /\ returned[n][u] # << >>
    /\ LET m == Head(returned[n][u])
           s == relay[n][u]
       IN relayed' = IF Connected(s) THEN [relayed EXCEPT ![s] = Append(@, m)] ELSE relayed
    /\ returned' = [returned EXCEPT ![n][u] = Tail(@)]
    /\ UNCHANGED <<rooms, registry, channels, pattern, offered, relay, handlers>>

(* The callback of SubscribeViewerSignaling, to the socket it was made for. *)
RelayBack(n, u) ==
    /\ returned[n][u] # << >>
    /\ LET m == Head(returned[n][u])
           s == relay[n][u]
       IN relayed' = IF m.by # u /\ Connected(s)
                       THEN [relayed EXCEPT ![s] = Append(@, m)] ELSE relayed
    /\ returned' = [returned EXCEPT ![n][u] = Tail(@)]
    /\ UNCHANGED <<rooms, registry, channels, pattern, offered, relay, handlers>>

-----------------------------------------------------------------------------
(* Room events: BroadcastToRoom publishes, also to its own node, whose
   listener sends to the clients like that of every other.  An event that no
   client is there for is not counted, to keep the bound for the others, and
   what a node without sockets receives, which nobody is sent, is left out. *)

Usable(n) == open[n] /\ busy[n] \notin {"unregister", "unlink"}
Served(s) == IsClient(s) /\ Usable(NodeOf[s])

BroadcastToRoom(n) ==
    /\ busy[n] = "no" /\ open[n]
    /\ \E s \in Sockets : Served(s)
    /\ events < MaxEvents /\ events' = events + 1
    /\ subs' = [k \in Nodes |-> [i \in DOMAIN subs[k] |->
                  IF subs[k][i].live /\ SocketsOf(k) # {}
                    THEN [subs[k][i] EXCEPT !.inbox = Append(@, events')]
                    ELSE subs[k][i]]]
    /\ owed' = [s \in Sockets |-> IF Served(s) THEN owed[s] \cup {events'} ELSE owed[s]]
    /\ UNCHANGED <<rooms, registry, current, got, signalling, handlers>>

(* To the host, then to every viewer, whether it is the host or not. *)
Sent(s, e) ==
    LET n == NodeOf[s]
    IN (IF s = hostClient[n] THEN << <<e, "host">> >> ELSE << >>)
         \o (IF s \in viewers[n] THEN << <<e, "viewer">> >> ELSE << >>)

Listen(n) ==
    /\ busy[n] = "no"
    /\ \E i \in DOMAIN subs[n] :
          /\ subs[n][i].inbox # << >>
          /\ subs' = [subs EXCEPT ![n][i].inbox = Tail(@)]
          /\ LET e == Head(subs[n][i].inbox)
                 sent == {s \in Sockets : NodeOf[s] = n /\ open[n] /\ IsClient(s)}
             IN /\ got' = [s \in Sockets |-> IF s \in sent THEN got[s] \o Sent(s, e) ELSE got[s]]
                /\ owed' = [s \in Sockets |-> IF s \in sent THEN owed[s] \ {e} ELSE owed[s]]
    /\ UNCHANGED <<rooms, registry, current, events, signalling, handlers>>

-----------------------------------------------------------------------------
(* The process ends: the broker is closed, the rooms and the sockets go, and
   nothing is done about the keys.  One that is started again is like new. *)

StopNode(n) ==
    /\ orphans' = orphans \cup (IF nodeMap = n THEN {"nodeMap"} ELSE {})
                           \cup (IF origin = n THEN {"origin"} ELSE {})
    /\ ClearRoom(n)
    /\ End(SocketsOf(n)) /\ remote' = remote \ SocketsOf(n)
    /\ subs' = [subs EXCEPT ![n] = << >>]
    /\ current' = [current EXCEPT ![n] = 0]
    /\ pattern' = pattern \ {n}
    /\ offered' = [offered EXCEPT ![n] = << >>]
    /\ relay' = [relay EXCEPT ![n] = [u \in Users |-> None]]
    /\ returned' = [returned EXCEPT ![n] = [u \in Users |-> << >>]]
    /\ UNCHANGED <<opens, nodeMap, origin, events>>
    /\ Forget

-----------------------------------------------------------------------------
Manager(n) ==
    \/ SetRoomNodeMap(n) \/ RegisterRoomOrigin(n)
    \/ RemoveRoomOrigin(n) \/ UnlinkAllRoomKeys(n)

Handler(s) ==
    \/ GetRoomNodeMap(s) \/ JoinViewer(s) \/ JoinSubscribes(s)
    \/ PublishOffer(s) \/ SubscribeViewerSignaling(s)

Next ==
    \/ \E n \in Nodes : CreateRoom(n) \/ CloseRoom(n) \/ Manager(n) \/ AnswerOffer(n)
                       \/ BroadcastToRoom(n) \/ Listen(n) \/ StopNode(n)
    \/ \E s \in Sockets : \/ FindRoom(s) \/ Handler(s) \/ SetHostClient(s)
                          \/ HandleClientDisconnect(s) \/ RemoveViewer(s)
    \/ \E n \in Nodes, u \in Users : RelayBack(n, u)

Spec == Init /\ [][Next]_vars

-----------------------------------------------------------------------------
(* No client is sent an event twice as the host or twice as a viewer, however
   often the room is subscribed to, closed and made again; one that is both is
   sent it as both.  While a node had one subscription, its clients get the
   events in the order of their publication (SubscribeRoom, UnsubscribeRoom,
   listenChannel, broadcastRawToRoomInternal). *)
EventsOnceInOrder ==
    \A s \in Sockets : \A i, j \in DOMAIN got[s] : i < j =>
        /\ got[s][i] # got[s][j]
        /\ Len(subs[NodeOf[s]]) = 1 => got[s][i][1] <= got[s][j][1]

(* An event reaches every client that was in an open room of the name when it
   was published, on whichever node and as the host or a viewer, unless the
   client leaves or its node stops: until it is sent, it waits in a subscription
   of that node.  A room is open until it begins to close (CreateRoom,
   SubscribeRoom, CloseRoomAndNotifyWithReason). *)
EventsOnTheirWay ==
    \A s \in Sockets : Served(s) => \A e \in owed[s] :
        \E i \in DOMAIN subs[NodeOf[s]] :
            \E j \in DOMAIN subs[NodeOf[s]][i].inbox : subs[NodeOf[s]][i].inbox[j] = e

(* Every node clears the registries for all, and yet they name a node without
   the room only where that node had a room and stopped: a key it had set stays
   until another node sets or clears it (SetRoomNodeMap, RegisterRoomOrigin,
   RemoveRoomOrigin, UnlinkAllRoomKeys, the shutdown in main). *)
RegistryNamesOpenRooms ==
    /\ nodeMap # None /\ "nodeMap" \notin orphans => open[nodeMap]
    /\ origin # None /\ "origin" \notin orphans => open[origin]

(* Where all but one node are edges, an offer is answered once at most, and a
   viewer is sent answers to its own user's offers only, never its own
   messages (HandleRemoteViewerSignaling, SubscribeViewerSignaling). *)
OffersAnsweredOnce ==
    Cardinality(Nodes \ Edges) = 1 =>
        \A s \in Sockets : \A i \in DOMAIN relayed[s] :
            LET m == relayed[s][i]
            IN /\ m.event = "answer" /\ UserOf[m.offerer] = UserOf[s]
               /\ \A j \in DOMAIN relayed[s] : relayed[s][j].offerer = m.offerer => i = j
=============================================================================
