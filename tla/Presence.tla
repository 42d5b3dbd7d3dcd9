------------------------------ MODULE Presence ------------------------------
(***************************************************************************)
(* Who is in a room: joins against the ban list and the viewer limit,      *)
(* kicks, grace periods, and the batcher that tells the clients.           *)
(*                                                                         *)
(* One Room object that stays open (RoomLifecycle has its coming and       *)
(* going).  Each method of Room is a step under one of its locks; the      *)
(* handlers call several of them and hold nothing in between.              *)
(***************************************************************************)
EXTENDS Naturals, FiniteSets

CONSTANTS
    Users, Host,  \* user ids; Room.HostID
    Sockets,      \* websocket connections, each with its ReadPump
    Owner,        \* Owner[s]: the user of a socket
    Admins,       \* sockets whose role is admin
    Timer,        \* the goroutine of the grace timers
    None,
    MaxViewers    \* max_viewers_per_room, 0 for no limit

Goroutines == Sockets \cup {Timer}

ASSUME PresenceAssumption ==
    /\ IsFiniteSet(Users)
    /\ Host \in Users /\ Owner \in [Sockets -> Users] /\ Admins \subseteq Sockets
    /\ None \notin Users /\ Timer \notin Sockets
    /\ MaxViewers \in Nat

VARIABLES
    viewers,       \* Room.Viewers
    participants,  \* Room.Participants
    banned,        \* Room.bannedUsers
    queued,        \* pendingJoins or pendingLeaves is not empty
    batcher,       \* where the goroutine of StartPresenceBatcher is
    shown,         \* the list in the last presence_update
    at, whom,      \* each goroutine's next step and its user
    crossed,       \* history: users whose join and removal overlapped
    raced          \* history: users whose join overlapped another one

room == <<viewers, participants, banned>>
presence == <<queued, batcher, shown>>
local == <<at, whom>>
vars == <<room, presence, local, crossed, raced>>

Joining == {"addParticipant", "addViewer", "enqueueJoin"}
Removing == {"removeViewer", "removeParticipant", "enqueueLeave"}

TypeOK ==
    /\ viewers \subseteq Users /\ participants \subseteq Users /\ banned \subseteq Users
    /\ queued \in BOOLEAN /\ batcher \in {"idle", "drained"}
    /\ shown \subseteq Users
    /\ at \in [Goroutines -> {"idle"} \cup Joining \cup Removing]
    /\ whom \in [Goroutines -> Users \cup {None}]
    /\ crossed \subseteq Users /\ raced \subseteq Users

Init ==
    /\ viewers = {} /\ participants = {} /\ banned = {}
    /\ queued = FALSE /\ batcher = "idle" /\ shown = {}
    /\ at = [g \in Goroutines |-> "idle"]
    /\ whom = [g \in Goroutines |-> None]
    /\ crossed = {} /\ raced = {}

-----------------------------------------------------------------------------
Begin(g, step, u) ==
    /\ at[g] = "idle"
    /\ at' = [at EXCEPT ![g] = step]
    /\ whom' = [whom EXCEPT ![g] = u]

Continue(g, from, to) ==
    /\ at[g] = from
    /\ at' = [at EXCEPT ![g] = to]
    /\ whom' = [whom EXCEPT ![g] = IF to = "idle" THEN None ELSE @]

-----------------------------------------------------------------------------
(* Joining.  The ban list and the limit are read, a PeerConnection is made,
   then JoinViewer adds the participant and the viewer and queues the news. *)

(* Mutant: the limit is off by one. *)
HasRoomForOneMore == MaxViewers = 0 \/ Cardinality(viewers) <= MaxViewers

HasRoom == MaxViewers = 0 \/ Cardinality(viewers) < MaxViewers

(* Joins past the two checks, and removals, that have not finished with the
   tables. *)
OnTheWay(u) == \E s \in Sockets : whom[s] = u /\ at[s] \in {"addParticipant", "addViewer"}
OnTheWayOut(u) ==
    \E g \in Goroutines : whom[g] = u /\ at[g] \in {"removeViewer", "removeParticipant"}

(* Mutant: the ban list is not read. *)
CheckJoinBlind(s) ==
    LET u == Owner[s]
    IN /\ HasRoom
       /\ Begin(s, "addParticipant", u)
       /\ raced' = IF \E v \in Users : OnTheWay(v) THEN raced \cup {u} ELSE raced \ {u}
       /\ crossed' = IF OnTheWayOut(u) THEN crossed \cup {u} ELSE crossed \ {u}
       /\ UNCHANGED <<room, presence>>

CheckJoin(s) ==
    LET u == Owner[s]
    IN /\ u \notin banned /\ HasRoom
       /\ Begin(s, "addParticipant", u)
       /\ raced' = IF \E v \in Users : OnTheWay(v) THEN raced \cup {u} ELSE raced \ {u}
       /\ crossed' = IF OnTheWayOut(u) THEN crossed \cup {u} ELSE crossed \ {u}
       /\ UNCHANGED <<room, presence>>

AddParticipant(s) ==
    /\ Continue(s, "addParticipant", "addViewer")
    /\ participants' = participants \cup {whom[s]}
    /\ UNCHANGED <<viewers, banned, presence, crossed, raced>>

(* Mutant: the limit is looked at again, with the participant already in. *)
AddViewerIfRoom(s) ==
    /\ Continue(s, "addViewer", "enqueueJoin")
    /\ viewers' = IF HasRoom THEN viewers \cup {whom[s]} ELSE viewers
    /\ UNCHANGED <<participants, banned, presence, crossed, raced>>

AddViewer(s) ==
    /\ Continue(s, "addViewer", "enqueueJoin")
    /\ viewers' = viewers \cup {whom[s]}
    /\ UNCHANGED <<participants, banned, presence, crossed, raced>>

EnqueuePresenceJoin(s) ==
    /\ Continue(s, "enqueueJoin", "idle")
    /\ queued' = TRUE
    /\ UNCHANGED <<room, batcher, shown, crossed, raced>>

-----------------------------------------------------------------------------
(* Leaving: RoomManager.RemoveViewer, after a grace period or a kick.  The
   host may join its room, but is not kicked and gets no grace period of a
   participant: it stays in the tables as long as the room. *)

BeginRemoval(g, u) ==
    /\ Begin(g, "removeViewer", u)
    /\ crossed' = IF OnTheWay(u) THEN crossed \cup {u} ELSE crossed \ {u}

GraceOver(u) ==
    /\ u \in viewers /\ u # Host
    /\ BeginRemoval(Timer, u)
    /\ UNCHANGED <<room, presence, raced>>

(* By the host or an admin, never of the host; auto_ban_on_kick is on. *)
KickParticipant(s, u) ==
    /\ Owner[s] = Host \/ s \in Admins
    /\ u # Host
    /\ BeginRemoval(s, u)
    /\ banned' = banned \cup {u}
    /\ UNCHANGED <<viewers, participants, presence, raced>>

RemoveViewer(g) ==
    /\ Continue(g, "removeViewer", "removeParticipant")
    /\ viewers' = viewers \ {whom[g]}
    /\ UNCHANGED <<participants, banned, presence, crossed, raced>>

RemoveParticipant(g) ==
    /\ Continue(g, "removeParticipant", "enqueueLeave")
    /\ participants' = participants \ {whom[g]}
    /\ UNCHANGED <<viewers, banned, presence, crossed, raced>>

(* Mutant: a departure is not queued. *)
EnqueuePresenceLeaveSilent(g) ==
    /\ Continue(g, "enqueueLeave", "idle")
    /\ UNCHANGED <<room, presence, crossed, raced>>

EnqueuePresenceLeave(g) ==
    /\ Continue(g, "enqueueLeave", "idle")
    /\ queued' = TRUE
    /\ UNCHANGED <<room, batcher, shown, crossed, raced>>

-----------------------------------------------------------------------------
(* The batcher, every second: both queues are drained under presenceMu; then
   the participants are read under Room.mu and sent, by this goroutine only. *)

FlushPresence ==
    /\ batcher = "idle" /\ queued
    /\ batcher' = "drained"
    /\ queued' = FALSE
    /\ UNCHANGED <<room, shown, local, crossed, raced>>

(* Mutant: nothing is sent about an empty room. *)
BroadcastUnlessEmpty ==
    /\ batcher = "drained"
    /\ batcher' = "idle"
    /\ shown' = IF participants = {} THEN shown ELSE participants
    /\ UNCHANGED <<room, queued, local, crossed, raced>>

BroadcastPresenceBatch ==
    /\ batcher = "drained"
    /\ batcher' = "idle"
    /\ shown' = participants
    /\ UNCHANGED <<room, queued, local, crossed, raced>>

-----------------------------------------------------------------------------
Handle(g) ==
    \/ AddParticipant(g) \/ AddViewer(g) \/ EnqueuePresenceJoin(g)
    \/ RemoveViewer(g) \/ RemoveParticipant(g) \/ EnqueuePresenceLeave(g)

Batch == FlushPresence \/ BroadcastPresenceBatch

Next ==
    \/ \E s \in Sockets : CheckJoin(s) \/ \E u \in Users : KickParticipant(s, u)
    \/ \E u \in Users : GraceOver(u)
    \/ \E g \in Goroutines : Handle(g)
    \/ Batch

(* Goroutines run and the ticker of the batcher ticks. *)
Fairness == WF_vars(Batch) /\ \A g \in Goroutines : WF_vars(Handle(g))

Spec == Init /\ [][Next]_vars /\ Fairness

-----------------------------------------------------------------------------
(* The ban list is permanent: once the kick is over, a banned user is not in
   the room, unless a join of his had passed the ban check before
   (handleViewerJoinPlay, handleKickParticipant). *)
BanHolds ==
    \A u \in (banned \cap viewers) \ crossed :
        \E g \in Goroutines : at[g] = "removeViewer" /\ whom[g] = u

(* The two tables of a room agree on everybody who is neither coming nor going
   and whose last join and removal did not overlap: JoinViewer adds the
   participant first, RemoveViewer takes the viewer out first. *)
TablesAgree ==
    \A u \in Users \ crossed :
        ~OnTheWay(u) /\ ~OnTheWayOut(u) => (u \in viewers <=> u \in participants)

(* max_viewers_per_room is exceeded by no more than the users whose joins
   overlapped: the count is compared long before the viewer is added
   (handleViewerJoinPlay, JoinViewer). *)
LimitHolds == MaxViewers > 0 => Cardinality(viewers \ raced) <= MaxViewers

(* When no goroutine is between a change of the participants and its entry in
   the queue, and the batcher has nothing to send, every client was last sent
   the list of those who are in the room (FlushPresence, JoinViewer,
   RemoveViewer). *)
Announced ==
    /\ ~queued /\ batcher = "idle"
    /\ \A g \in Goroutines : at[g] \notin {"addViewer", "enqueueJoin", "enqueueLeave"}
PresenceShown == Announced => shown = participants

(* Who stays is shown for good in the end, and who is gone is not: the batcher
   misses nobody, however often others come and go. *)
PresenceReachesAll ==
    \A u \in Users :
        /\ <>[](u \in participants) => <>[](u \in shown)
        /\ <>[](u \notin participants) => <>[](u \notin shown)
=============================================================================
