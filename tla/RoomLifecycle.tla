---------------------------- MODULE RoomLifecycle ----------------------------
(***************************************************************************)
(* The life of one room name on one node: RoomManager.activeRooms, the     *)
(* Room objects it has pointed to, the sockets of hosts and viewers and    *)
(* the three kinds of time.AfterFunc timers a Room keeps (host grace,      *)
(* participant grace, empty room).                                         *)
(*                                                                         *)
(* Sections that hold RoomManager.mu are one step.  JoinViewer,            *)
(* RemoveViewer and handlePublishOffer release the lock after looking the  *)
(* room up and then take Room.mu several times: each of those is a step.   *)
(* A timer that has fired is a goroutine of its own: it first waits for    *)
(* Room.mu to forget its timer, then runs the time-out function.           *)
(***************************************************************************)
EXTENDS Naturals, FiniteSets

CONSTANTS
  Users,        \* user ids found in tokens
  Publishers,   \* the users whose token allows publishing
  Admins,       \* the users whose role is "admin"
  HttpHosts,    \* the host ids POST /api/rooms is called with
  Clients,      \* Client objects, one for each websocket
  UserOf,       \* the user each websocket is authenticated as
  Timers,       \* bound: the timers that may exist at a time
  MaxRooms,     \* bound: Room objects created under this name
  EmptyTimeout, \* empty_room_timeout_sec > 0
  OriginHost,   \* host id of a room a viewer brought into being
  NoUser, NoClient, NoTimer

ASSUME ConstantsOK ==
  /\ Publishers \subseteq Users /\ Admins \subseteq Users
  /\ HttpHosts \subseteq Users \cup {OriginHost}
  /\ UserOf \in [Clients -> Users]
  /\ Clients \cap Timers = {}
  /\ MaxRooms \in Nat
  /\ EmptyTimeout \in BOOLEAN
  /\ OriginHost \notin Users /\ NoUser \notin Users
  /\ NoClient \notin Clients /\ NoTimer \notin Timers

Rooms   == 1 .. MaxRooms      \* Room objects, in the order of their creation
NoRoom  == 0
Threads == Clients \cup Timers

VARIABLES
  active,       \* activeRooms[roomID], or NoRoom
  created,      \* how many Room objects were made so far
  hostID,       \* Room.HostID
  hostClient,   \* Room.HostClient
  viewers,      \* Room.Viewers
  reconnecting, \* Room.isReconnecting
  hostTimer,    \* Room.reconnectTimer
  partTimer,    \* Room.participantReconnectTimers
  emptyTimer,   \* Room.emptyRoomTimer
  sock,         \* the websocket of each client
  hasPC,        \* the client got a PeerConnection of its own
  job,          \* what each ReadPump and each timer goroutine is doing
  lastHost      \* history: the last client that attached as the room's host

roomVars == <<hostID, hostClient, viewers, reconnecting,
              hostTimer, partTimer, emptyTimer, lastHost>>
vars == <<active, created, roomVars, sock, hasPC, job>>

(***************************************************************************)
(* Jobs.  A timer is free, armed, fired, then runs its time-out function;  *)
(* a client is idle, inside a handler, or unwound by a panic of its        *)
(* handler.  "on" is the Room object the goroutine holds a pointer to.     *)
(***************************************************************************)
Kinds == {"none", "host", "participant", "empty"}
Steps == {"rest", "armed", "fired", "close", "publish", "setHost", "lookup",
          "add", "shut", "evict", "remove", "count", "askHost", "start",
          "panicked"}

Job == [at : Steps, kind : Kinds, on : Rooms \cup {NoRoom},
        user : Users \cup {NoUser}]

AtRest == [at |-> "rest", kind |-> "none", on |-> NoRoom, user |-> NoUser]

Doing(step, g, u) == [at |-> step, kind |-> "none", on |-> g, user |-> u]

Armed(k, g, u) == [at |-> "armed", kind |-> k, on |-> g, user |-> u]

\* time.Timer.Stop: prevents a timer that has not fired from ever firing.
Stopped(jobs, t) ==
  IF t \in Timers /\ jobs[t].at = "armed" THEN [jobs EXCEPT ![t] = AtRest]
                                          ELSE jobs

-----------------------------------------------------------------------------
Init ==
  /\ active = NoRoom /\ created = 0
  /\ hostID = [g \in Rooms |-> NoUser]
  /\ hostClient = [g \in Rooms |-> NoClient]
  /\ viewers = [g \in Rooms |-> [u \in Users |-> NoClient]]
  /\ reconnecting = [g \in Rooms |-> FALSE]
  /\ hostTimer = [g \in Rooms |-> NoTimer]
  /\ partTimer = [g \in Rooms |-> [u \in Users |-> NoTimer]]
  /\ emptyTimer = [g \in Rooms |-> NoTimer]
  /\ lastHost = [g \in Rooms |-> NoClient]
  /\ sock = [c \in Clients |-> "new"]
  /\ hasPC = [c \in Clients |-> FALSE]
  /\ job = [x \in Threads |-> AtRest]

-----------------------------------------------------------------------------
(* Rooms come and go.                                                       *)

\* Mutant of CreateRoom: the name is taken, the new Room is not.
CreateRoomUncounted(host) ==
  /\ active = NoRoom
  /\ created < MaxRooms
  /\ active' = created + 1
  /\ hostID' = [hostID EXCEPT ![created + 1] = host]
  /\ UNCHANGED <<created, hostClient, viewers, reconnecting, hostTimer,
                 partTimer, emptyTimer, lastHost>>

\* RoomManager.CreateRoom, when the name is free.
CreateRoom(host) ==
  /\ active = NoRoom
  /\ created < MaxRooms
  /\ created' = created + 1
  /\ active' = created + 1
  /\ hostID' = [hostID EXCEPT ![created + 1] = host]
  /\ UNCHANGED <<hostClient, viewers, reconnecting, hostTimer, partTimer,
                 emptyTimer, lastHost>>

\* POST /api/rooms: a room without any socket, hosted by whoever the request
\* names, or by an id no token will ever carry.
HttpCreateRoom(u) ==
  /\ CreateRoom(u)
  /\ UNCHANGED <<sock, hasPC, job>>

\* The sockets RoomManager.CloseRoomAndNotifyWithReason shuts.
Attached(g) ==
  {c \in Clients : c = hostClient[g] \/ \E u \in Users : viewers[g][u] = c}

\* CloseRoomAndNotifyWithReason(roomID); "jobs" already holds the caller's
\* own progress.  Participant timers are left running, HostClient stays set.
CloseRoom(jobs) ==
  IF active = NoRoom
  THEN job' = jobs /\ UNCHANGED <<active, created, roomVars, sock, hasPC>>
  ELSE LET g == active IN
    /\ job' = Stopped(Stopped(jobs, hostTimer[g]), emptyTimer[g])
    /\ hostTimer' = [hostTimer EXCEPT ![g] = NoTimer]
    /\ emptyTimer' = [emptyTimer EXCEPT ![g] = NoTimer]
    /\ reconnecting' = [reconnecting EXCEPT ![g] = FALSE]
    /\ viewers' = [viewers EXCEPT ![g] = [u \in Users |-> NoClient]]
    /\ sock' = [c \in Clients |->
                  IF c \in Attached(g) /\ sock[c] = "open" THEN "closed"
                                                           ELSE sock[c]]
    /\ hasPC' = [c \in Clients |-> hasPC[c] /\ c \notin Attached(g)]
    /\ active' = NoRoom
    /\ UNCHANGED <<created, hostID, hostClient, partTimer, lastHost>>

\* handleEndRoom, the admin end/close endpoint, the zombie collector's verdict
\* on a host: the room is closed whatever its state.
ForceEndRoom ==
  /\ active # NoRoom
  /\ CloseRoom(job)

-----------------------------------------------------------------------------
(* Sockets.                                                                 *)

Connect(c) ==
  /\ sock[c] = "new"
  /\ sock' = [sock EXCEPT ![c] = "open"]
  /\ UNCHANGED <<active, created, roomVars, hasPC, job>>

\* The network, the browser or a pong time-out ends the websocket.
Drop(c) ==
  /\ sock[c] = "open"
  /\ sock' = [sock EXCEPT ![c] = "closed"]
  /\ UNCHANGED <<active, created, roomVars, hasPC, job>>

\* Room.StartReconnectTimer with the time-out CloseRoomAndNotify(roomID).
StartReconnectTimer(g) ==
  \E t \in Timers :
    /\ job[t].at = "rest"
    /\ job' = [Stopped(job, hostTimer[g]) EXCEPT
                 ![t] = Armed("host", g, NoUser)]
    /\ hostTimer' = [hostTimer EXCEPT ![g] = t]
    /\ reconnecting' = [reconnecting EXCEPT ![g] = TRUE]

\* Room.StartParticipantReconnectTimer with the time-out RemoveViewer.
StartParticipantReconnectTimer(g, u) ==
  \E t \in Timers :
    /\ job[t].at = "rest"
    /\ job' = [Stopped(job, partTimer[g][u]) EXCEPT
                 ![t] = Armed("participant", g, u)]
    /\ partTimer' = [partTimer EXCEPT ![g][u] = t]

IsHost(u)   == active # NoRoom /\ hostID[active] = u
IsViewer(u) == active # NoRoom /\ hostID[active] # u
                 /\ viewers[active][u] # NoClient

\* Hub.Run, one goroutine, has finished the unregister before this one.
HubIsFree == \A c \in Clients : sock[c] # "gone"

\* The reader goroutine has ended and Hub.Run handles its unregister:
\* RoomManager.HandleClientDisconnect, which compares user ids, not sockets.
HandleClientDisconnect(c) ==
  LET u == UserOf[c] IN
  /\ sock[c] = "closed" /\ HubIsFree
  /\ job[c].at \in {"rest", "panicked"}
  /\ sock' = [sock EXCEPT ![c] = "gone"]
  /\ hasPC' = [hasPC EXCEPT ![c] = FALSE]
  /\ \/ /\ IsHost(u)
        /\ hostClient' = [hostClient EXCEPT ![active] = NoClient]
        /\ StartReconnectTimer(active)
        /\ UNCHANGED <<hostID, viewers, partTimer, emptyTimer, lastHost>>
     \/ /\ IsViewer(u)
        /\ StartParticipantReconnectTimer(active, u)
        /\ UNCHANGED <<hostID, hostClient, viewers, reconnecting, hostTimer,
                       emptyTimer, lastHost>>
     \/ /\ ~IsHost(u) /\ ~IsViewer(u)
        /\ UNCHANGED <<roomVars, job>>
  /\ UNCHANGED <<active, created>>

\* Then Hub.Run closes the client's Send channel.
CloseSend(c) ==
  /\ sock[c] = "gone"
  /\ sock' = [sock EXCEPT ![c] = "done"]
  /\ UNCHANGED <<active, created, roomVars, hasPC, job>>

-----------------------------------------------------------------------------
(* Publishing: Client.handlePublishOffer on its host path.                  *)

\* A handler runs because its socket delivered a message.
Ready(c) == sock[c] = "open" /\ job[c].at = "rest"

\* GetRoom, or CreateRoom with the publisher as host when the name is free.
Publish(c) ==
  /\ Ready(c) /\ UserOf[c] \in Publishers
  /\ \/ /\ CreateRoom(UserOf[c])
        /\ job' = [job EXCEPT ![c] = Doing("publish", created + 1, UserOf[c])]
     \/ /\ active # NoRoom
        /\ job' = [job EXCEPT ![c] = Doing("publish", active, UserOf[c])]
        /\ UNCHANGED <<active, created, roomVars>>
  /\ UNCHANGED <<sock, hasPC>>

\* The clients whose PeerConnection handlePublishOffer would reuse: its own,
\* or that of the viewer registered under the same user id.
Donors(c, g) == {c, viewers[g][job[c].user]} \ {NoClient}

\* Mutant of PublishAsCoHost: every offer of a host cancels the grace timer,
\* also the one that leaves HostClient as it is.
CoHostCancelsGrace(c) ==
  LET g == job[c].on IN
  /\ job[c].at = "publish"
  /\ hostID[g] # job[c].user \/ \E d \in Donors(c, g) : hasPC[d]
  /\ job' = Stopped([job EXCEPT ![c] = AtRest], hostTimer[g])
  /\ hostTimer' = [hostTimer EXCEPT ![g] = NoTimer]
  /\ reconnecting' = [reconnecting EXCEPT ![g] = FALSE]
  /\ UNCHANGED <<active, created, hostID, hostClient, viewers, partTimer,
                 emptyTimer, lastHost, sock, hasPC>>

\* A co-host, or anyone with a PeerConnection to reuse (one whose socket is
\* shut may be closed already): HostClient and the timers stay as they are.
PublishAsCoHost(c) ==
  LET g == job[c].on IN
  /\ job[c].at = "publish"
  /\ hostID[g] # job[c].user \/ \E d \in Donors(c, g) : hasPC[d]
  /\ hasPC' \in {hasPC, [hasPC EXCEPT ![c] = TRUE]}
  /\ job' = [job EXCEPT ![c] = AtRest]
  /\ UNCHANGED <<active, created, roomVars, sock>>

\* The host path: IsReconnecting guards CancelReconnectTimer.
PublishAsHost(c) ==
  LET g == job[c].on
      jobs == [job EXCEPT ![c].at = "setHost"]
  IN
  /\ job[c].at = "publish"
  /\ hostID[g] = job[c].user
  /\ \A d \in Donors(c, g) : ~(hasPC[d] /\ sock[d] = "open")
  /\ IF reconnecting[g]
     THEN /\ job' = Stopped(jobs, hostTimer[g])
          /\ hostTimer' = [hostTimer EXCEPT ![g] = NoTimer]
          /\ reconnecting' = [reconnecting EXCEPT ![g] = FALSE]
     ELSE job' = jobs /\ UNCHANGED <<hostTimer, reconnecting>>
  /\ UNCHANGED <<active, created, hostID, hostClient, viewers, partTimer,
                 emptyTimer, lastHost, sock, hasPC>>

\* Room.SetHostClient, on the Room object looked up before; then the host's
\* PeerConnection is made, or fails.
SetHostClient(c) ==
  /\ c \in Clients /\ job[c].at = "setHost"
  /\ hostClient' = [hostClient EXCEPT ![job[c].on] = c]
  /\ lastHost' = [lastHost EXCEPT ![job[c].on] = c]
  /\ hasPC' \in {hasPC, [hasPC EXCEPT ![c] = TRUE]}
  /\ job' = [job EXCEPT ![c] = AtRest]
  /\ UNCHANGED <<active, created, hostID, viewers, reconnecting, hostTimer,
                 partTimer, emptyTimer, sock>>

-----------------------------------------------------------------------------
(* Watching: Client.handleViewerJoinPlay and RoomManager.JoinViewer.        *)

\* The name is free: the room is made for "origin-host".  Without media the
\* handler gives up here; with a cascaded stream, or when the host is known to
\* be on another node, it goes on.
JoinCreate(c) ==
  /\ Ready(c)
  /\ CreateRoom(OriginHost)
  /\ job' \in {job, [job EXCEPT ![c] = Doing("lookup", NoRoom, UserOf[c])]}
  /\ UNCHANGED <<sock, hasPC>>

\* JoinViewer looks the room up, then cancels the empty-room timer and the
\* participant's grace timer.
JoinViewer(c) ==
  LET u == UserOf[c]
      g == active
  IN
  /\ \/ Ready(c) /\ g # NoRoom
     \/ job[c].at = "lookup"
  /\ IF g = NoRoom
     THEN /\ job' = [job EXCEPT ![c] = AtRest]
          /\ UNCHANGED <<emptyTimer, partTimer>>
     ELSE /\ job' = [Stopped(Stopped(job, emptyTimer[g]), partTimer[g][u])
                       EXCEPT ![c] = Doing("add", g, u)]
          /\ emptyTimer' = [emptyTimer EXCEPT ![g] = NoTimer]
          /\ partTimer' = [partTimer EXCEPT ![g][u] = NoTimer]
  /\ UNCHANGED <<active, created, hostID, hostClient, viewers, reconnecting,
                 hostTimer, lastHost, sock, hasPC>>

\* Room.AddViewer: a newer socket of the same user replaces the older one.
AddViewer(c) ==
  /\ c \in Clients /\ job[c].at = "add"
  /\ viewers' = [viewers EXCEPT ![job[c].on][job[c].user] = c]
  /\ hasPC' \in {hasPC, [hasPC EXCEPT ![c] = TRUE]}
  /\ job' = [job EXCEPT ![c].at = "count"]
  /\ UNCHANGED <<active, created, hostID, hostClient, reconnecting, hostTimer,
                 partTimer, emptyTimer, lastHost, sock>>

\* handleKickParticipant by the host or an admin: the grace timer is cancelled,
\* the registered socket is shut, and RemoveViewer follows.
Kick(k, u) ==
  LET g == active IN
  /\ Ready(k)
  /\ g # NoRoom /\ u # hostID[g]
  /\ UserOf[k] = hostID[g] \/ UserOf[k] \in Admins
  /\ job' = [Stopped(job, partTimer[g][u]) EXCEPT ![k] = Doing("shut", g, u)]
  /\ partTimer' = [partTimer EXCEPT ![g][u] = NoTimer]
  /\ UNCHANGED <<active, created, hostID, hostClient, viewers, reconnecting,
                 hostTimer, emptyTimer, lastHost, sock, hasPC>>

SendClosed(c) == c \in Clients /\ sock[c] = "done"

\* The kick sends to target.Send without SafeSend: once the hub has closed the
\* channel the send panics, the handler unwinds and ReadPump ends the kicker's
\* own socket.  RemoveViewer is never reached.
KickPanics(k) ==
  LET target == viewers[job[k].on][job[k].user] IN
  /\ k \in Clients /\ job[k].at = "shut"
  /\ SendClosed(target)
  /\ job' = [job EXCEPT ![k].at = "panicked"]
  /\ sock' = [sock EXCEPT ![k] = "closed"]
  /\ UNCHANGED <<active, created, roomVars, hasPC>>

\* Mutant of ShutKicked: nothing to do for a viewer that is not connected.
ShutConnectedOnly(k) ==
  LET target == viewers[job[k].on][job[k].user] IN
  /\ k \in Clients /\ job[k].at = "shut"
  /\ ~SendClosed(target)
  /\ sock' = [c \in Clients |->
                IF c = target /\ sock[c] = "open" THEN "closed" ELSE sock[c]]
  /\ hasPC' = [c \in Clients |-> hasPC[c] /\ c # target]
  /\ job' = [job EXCEPT ![k] = IF \E c \in Clients : c = target /\ sock[c] = "open"
                               THEN Doing("evict", NoRoom, job[k].user)
                               ELSE AtRest]
  /\ UNCHANGED <<active, created, roomVars>>

\* The kick's message, and the target's PeerConnection and websocket closed.
ShutKicked(k) ==
  LET target == viewers[job[k].on][job[k].user] IN
  /\ k \in Clients /\ job[k].at = "shut"
  /\ ~SendClosed(target)
  /\ sock' = [c \in Clients |->
                IF c = target /\ sock[c] = "open" THEN "closed" ELSE sock[c]]
  /\ hasPC' = [c \in Clients |-> hasPC[c] /\ c # target]
  /\ job' = [job EXCEPT ![k] = Doing("evict", NoRoom, job[k].user)]
  /\ UNCHANGED <<active, created, roomVars>>

-----------------------------------------------------------------------------
(* RemoveViewer, run by a participant timer or by a kick.                   *)

\* RoomManager.RemoveViewer finds the room now bound to the name.
RemoveLookup(x) ==
  /\ job[x].at = "evict"
  /\ job' = [job EXCEPT ![x] = IF active = NoRoom THEN AtRest
                               ELSE Doing("remove", active, job[x].user)]
  /\ UNCHANGED <<active, created, roomVars, sock, hasPC>>

\* Room.RemoveViewer(viewerID).
RemoveViewer(x) ==
  /\ job[x].at = "remove"
  /\ viewers' = [viewers EXCEPT ![job[x].on][job[x].user] = NoClient]
  /\ job' = [job EXCEPT ![x].at = "count"]
  /\ UNCHANGED <<active, created, hostID, hostClient, reconnecting, hostTimer,
                 partTimer, emptyTimer, lastHost, sock, hasPC>>

NoViewers(g) == \A u \in Users : viewers[g][u] = NoClient

\* viewerCount := room.ViewersCount(), in JoinViewer as in RemoveViewer.
CountViewers(x) ==
  /\ job[x].at = "count"
  /\ job' = [job EXCEPT ![x] = IF NoViewers(job[x].on) /\ EmptyTimeout
                               THEN [@ EXCEPT !.at = "askHost"] ELSE AtRest]
  /\ UNCHANGED <<active, created, roomVars, sock, hasPC>>

AskHost(x) ==
  /\ job[x].at = "askHost"
  /\ job' = [job EXCEPT ![x] = IF hostClient[job[x].on] = NoClient
                               THEN [@ EXCEPT !.at = "start"] ELSE AtRest]
  /\ UNCHANGED <<active, created, roomVars, sock, hasPC>>

\* Nobody was counted and no host was seen: Room.StartEmptyRoomTimer with the
\* time-out destroyRoomInstant(roomID).
StartEmptyRoomTimer(x) ==
  LET g == job[x].on IN
  /\ job[x].at = "start"
  /\ \E t \in Timers :
       /\ job[t].at = "rest"
       /\ job' = [Stopped(job, emptyTimer[g]) EXCEPT
                    ![t] = Armed("empty", g, NoUser), ![x] = AtRest]
       /\ emptyTimer' = [emptyTimer EXCEPT ![g] = t]
  /\ UNCHANGED <<active, created, hostID, hostClient, viewers, reconnecting,
                 hostTimer, partTimer, lastHost, sock, hasPC>>

-----------------------------------------------------------------------------
(* Timers.                                                                  *)

Fire(t) ==
  /\ job[t].at = "armed"
  /\ job' = [job EXCEPT ![t].at = "fired"]
  /\ UNCHANGED <<active, created, roomVars, sock, hasPC>>

\* Mutants of HostGraceOver: isReconnecting is not reset; and onTimeout is
\* not called.
HostGraceKeepsFlag(t) ==
  /\ job[t].at = "fired" /\ job[t].kind = "host"
  /\ hostTimer' = [hostTimer EXCEPT ![job[t].on] = NoTimer]
  /\ job' = [job EXCEPT ![t].at = "close"]
  /\ UNCHANGED <<active, created, hostID, hostClient, viewers, reconnecting,
                 partTimer, emptyTimer, lastHost, sock, hasPC>>

HostGraceForgotten(t) ==
  /\ job[t].at = "fired" /\ job[t].kind = "host"
  /\ reconnecting' = [reconnecting EXCEPT ![job[t].on] = FALSE]
  /\ hostTimer' = [hostTimer EXCEPT ![job[t].on] = NoTimer]
  /\ job' = [job EXCEPT ![t] = AtRest]
  /\ UNCHANGED <<active, created, hostID, hostClient, viewers, partTimer,
                 emptyTimer, lastHost, sock, hasPC>>

\* The first, locked part of the callback forgets the room's timer of that
\* kind (and user), be it this one or a newer one.
HostGraceOver(t) ==
  /\ job[t].at = "fired" /\ job[t].kind = "host"
  /\ reconnecting' = [reconnecting EXCEPT ![job[t].on] = FALSE]
  /\ hostTimer' = [hostTimer EXCEPT ![job[t].on] = NoTimer]
  /\ job' = [job EXCEPT ![t].at = "close"]
  /\ UNCHANGED <<active, created, hostID, hostClient, viewers, partTimer,
                 emptyTimer, lastHost, sock, hasPC>>

\* Mutant of ParticipantGraceOver: onTimeout is not called.
ParticipantGraceForgotten(t) ==
  /\ job[t].at = "fired" /\ job[t].kind = "participant"
  /\ partTimer' = [partTimer EXCEPT ![job[t].on][job[t].user] = NoTimer]
  /\ job' = [job EXCEPT ![t] = AtRest]
  /\ UNCHANGED <<active, created, hostID, hostClient, viewers, reconnecting,
                 hostTimer, emptyTimer, lastHost, sock, hasPC>>

ParticipantGraceOver(t) ==
  /\ job[t].at = "fired" /\ job[t].kind = "participant"
  /\ partTimer' = [partTimer EXCEPT ![job[t].on][job[t].user] = NoTimer]
  /\ job' = [job EXCEPT ![t].at = "evict"]
  /\ UNCHANGED <<active, created, hostID, hostClient, viewers, reconnecting,
                 hostTimer, emptyTimer, lastHost, sock, hasPC>>

EmptyRoomOver(t) ==
  /\ job[t].at = "fired" /\ job[t].kind = "empty"
  /\ emptyTimer' = [emptyTimer EXCEPT ![job[t].on] = NoTimer]
  /\ job' = [job EXCEPT ![t].at = "close"]
  /\ UNCHANGED <<active, created, hostID, hostClient, viewers, reconnecting,
                 hostTimer, partTimer, lastHost, sock, hasPC>>

\* onTimeout() of a host or an empty-room timer closes whatever room is bound
\* to the name by then.
TimeoutClosesRoom(t) ==
  /\ job[t].at = "close"
  /\ CloseRoom([job EXCEPT ![t] = AtRest])

-----------------------------------------------------------------------------
Handler(c) ==
  \/ HandleClientDisconnect(c) \/ CloseSend(c)
  \/ PublishAsCoHost(c) \/ PublishAsHost(c) \/ SetHostClient(c)
  \/ (job[c].at = "lookup" /\ JoinViewer(c)) \/ AddViewer(c)
  \/ ShutKicked(c) \/ KickPanics(c)

Removal(x) ==
  \/ RemoveLookup(x) \/ RemoveViewer(x)
  \/ CountViewers(x) \/ AskHost(x) \/ StartEmptyRoomTimer(x)

Timer(t) ==
  \/ Fire(t) \/ HostGraceOver(t) \/ ParticipantGraceOver(t) \/ EmptyRoomOver(t)
  \/ TimeoutClosesRoom(t)

Next ==
  \/ \E u \in HttpHosts : HttpCreateRoom(u)
  \/ ForceEndRoom
  \/ \E c \in Clients :
       \/ Connect(c) \/ Drop(c) \/ Publish(c) \/ JoinCreate(c) \/ JoinViewer(c)
       \/ Handler(c)
       \/ \E u \in Users : Kick(c, u)
  \/ \E x \in Threads : Removal(x)
  \/ \E t \in Timers : Timer(t)

Spec == Init /\ [][Next]_vars

\* The Go scheduler runs every goroutine that can run, the hub empties its
\* unregister channel and the runtime fires every armed timer.  Users and the
\* network owe nothing.
Fairness ==
  /\ \A c \in Clients : WF_vars(Handler(c))
  /\ \A x \in Threads : WF_vars(Removal(x))
  /\ \A t \in Timers : WF_vars(Timer(t))

FairSpec == Spec /\ Fairness

-----------------------------------------------------------------------------
(* What must hold.                                                          *)

\* Every variable has its type.
TypeOK ==
  /\ created \in 0 .. MaxRooms /\ active \in 0 .. created
  /\ hostID \in [Rooms -> Users \cup {OriginHost, NoUser}]
  /\ hostClient \in [Rooms -> Clients \cup {NoClient}]
  /\ lastHost \in [Rooms -> Clients \cup {NoClient}]
  /\ viewers \in [Rooms -> [Users -> Clients \cup {NoClient}]]
  /\ reconnecting \in [Rooms -> BOOLEAN]
  /\ hostTimer \in [Rooms -> Timers \cup {NoTimer}]
  /\ partTimer \in [Rooms -> [Users -> Timers \cup {NoTimer}]]
  /\ emptyTimer \in [Rooms -> Timers \cup {NoTimer}]
  /\ sock \in [Clients -> {"new", "open", "closed", "gone", "done"}]
  /\ hasPC \in [Clients -> BOOLEAN]
  /\ job \in [Threads -> Job]

\* A timer of this kind, started on room g (for user u), has still to run its
\* time-out function or is about to.
Pending(k, g, u) ==
  \E t \in Timers : /\ job[t].kind = k /\ job[t].on = g /\ job[t].user = u
                    /\ job[t].at \in {"armed", "fired"}

\* isReconnecting is what handlePublishOffer looks at before it cancels the
\* grace timer: the flag is up exactly while the room has such a timer, and a
\* room that waits for its host does have a time-out on its way.
GraceFlagMatchesTimer ==
  \A g \in Rooms :
    /\ reconnecting[g] <=> hostTimer[g] # NoTimer
    /\ reconnecting[g] => Pending("host", g, NoUser)

\* A room that had a host and lost it is never forgotten: until a host is
\* attached again its closing is pending, however publishing, disconnects of
\* several sockets of the host and expiring timers interleave.
LostHost(g) == active = g /\ lastHost[g] # NoClient /\ hostClient[g] = NoClient

LostHostIsTimed ==
  \A g \in Rooms : LostHost(g) =>
    \/ Pending("host", g, NoUser)
    \/ \E t \in Timers : job[t].at = "close" /\ job[t].on = g
    \/ \E c \in Clients : job[c].at = "setHost" /\ job[c].on = g

\* A registered viewer whose socket is gone is never left behind: its grace
\* timer is pending, or its removal or its return is under way, or a kick of it
\* has panicked halfway.
LostViewer(g, u) ==
  /\ active = g /\ u # hostID[g]
  /\ viewers[g][u] # NoClient /\ sock[viewers[g][u]] \in {"gone", "done"}

Leaving(x, g, u) ==
  /\ job[x].user = u
  /\ \/ job[x].at = "evict"
     \/ job[x].at \in {"shut", "remove", "add", "panicked"} /\ job[x].on = g

LostViewerIsTimed ==
  \A g \in Rooms, u \in Users : LostViewer(g, u) =>
    Pending("participant", g, u) \/ \E x \in Threads : Leaving(x, g, u)

\* The parts of the inductive invariant behind the three above.
Owns(t, k, g, u) ==
  t \in Timers => /\ job[t].kind = k /\ job[t].on = g /\ job[t].user = u
                  /\ job[t].at \in {"armed", "fired"}

TimersOwned ==
  \A g \in Rooms :
    /\ Owns(hostTimer[g], "host", g, NoUser)
    /\ Owns(emptyTimer[g], "empty", g, NoUser)
    /\ \A u \in Users : Owns(partTimer[g][u], "participant", g, u)

HandlersHaveSockets ==
  \A c \in Clients :
    /\ job[c].at \notin {"armed", "fired", "close"}
    /\ job[c].at \notin {"rest", "panicked"} => sock[c] \in {"open", "closed"}
    /\ job[c].at \in {"lookup", "publish", "setHost", "add"}
         => job[c].user = UserOf[c]

RoomsExist ==
  /\ \A x \in Threads :
       /\ job[x].on <= created
       /\ job[x].on = NoRoom => job[x].at \in {"rest", "lookup", "evict"}
  /\ \A g \in Rooms : g > created =>
       lastHost[g] = NoClient /\ \A u \in Users : viewers[g][u] = NoClient

ViewersNamed ==
  \A g \in Rooms, u \in Users :
    viewers[g][u] # NoClient => UserOf[viewers[g][u]] = u

GraceFlag == \A g \in Rooms : reconnecting[g] <=> hostTimer[g] # NoTimer

Shape == /\ TypeOK /\ TimersOwned /\ HandlersHaveSockets
         /\ RoomsExist /\ ViewersNamed /\ GraceFlag

IInv == Shape /\ LostHostIsTimed /\ LostViewerIsTimed

\* HandleClientDisconnect's promise to the room: a lost host comes back or the
\* room is closed.
LostHostResolved == \A g \in Rooms : LostHost(g) ~> ~LostHost(g)

\* ... and its promise for the others: a lost viewer is taken out of the room,
\* replaced by its new socket, or the room is closed; unless a kick of it has
\* panicked, which leaves it registered with no timer and nobody to remove it.
KickPanicked(g, u) ==
  \E k \in Clients : job[k].at = "panicked" /\ job[k].on = g /\ job[k].user = u

LostViewerResolved ==
  \A g \in Rooms, u \in Users :
    LostViewer(g, u) ~> ~LostViewer(g, u) \/ KickPanicked(g, u)
=============================================================================
