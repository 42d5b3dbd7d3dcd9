-------------------------------- MODULE Stage --------------------------------
(***************************************************************************)
(* The seats of a room and the copy of its state in Redis.                 *)
(*                                                                         *)
(* One Room object that stays open.  RoomState is abstracted to whether a  *)
(* copy of it still is what the room would answer, separately for its two  *)
(* parts: who is there and where, and the rest, which the code also        *)
(* changes without a copy.  Of its contents only the seats are kept.       *)
(***************************************************************************)
EXTENDS Naturals, FiniteSets

CONSTANTS
    Users, Host,  \* user ids; Room.HostID
    Sockets,      \* websocket connections, each with its ReadPump
    Owner,        \* Owner[s]: the user of a socket
    Timer,        \* the goroutine of the grace timers
    Batcher,      \* the goroutine of StartPresenceBatcher
    None,
    MaxSeats      \* max_active_seats

Goroutines == Sockets \cup {Timer, Batcher}
Seats == 0..MaxSeats

(* "roster": the seats, mute states, viewer count and participants of a
   RoomState; "profile": its name, type, host score and PK state. *)
Parts == {"roster", "profile"}

ASSUME StageAssumption ==
    /\ Host \in Users /\ Owner \in [Sockets -> Users]
    /\ None \notin Users /\ {Timer, Batcher} \cap Sockets = {} /\ Timer # Batcher
    /\ MaxSeats \in Nat

VARIABLES
    activeSeats,  \* Room.ActiveSeats, None for a free seat
    queued,       \* the presence queues are not empty
    snapshot,     \* snapshot[g]: the parts of g's copy that are up to date
    saved,        \* each part of the copy in Redis: "fresh", "outdated" by a
                  \*   change, or "late": written when no longer up to date
    at,           \* each goroutine's next step,
    whom, seat    \* with its user and its seat

redis == <<snapshot, saved>>
local == <<at, whom, seat>>
vars == <<activeSeats, queued, redis, local>>

Steps == {"idle", "setSeat", "freeSeats", "enqueue", "snapshot", "save"}

TypeOK ==
    /\ activeSeats \in [Seats -> Users \cup {None}]
    /\ queued \in BOOLEAN
    /\ snapshot \in [Goroutines -> SUBSET Parts]
    /\ saved \in [Parts -> {"fresh", "outdated", "late"}]
    /\ at \in [Goroutines -> Steps]
    /\ whom \in [Goroutines -> Users \cup {None}]
    /\ seat \in [Goroutines -> Seats]

(* The state is saved once as the room is made; seat 0 is the host's. *)
Init ==
    /\ activeSeats = [k \in Seats |-> IF k = 0 THEN Host ELSE None]
    /\ queued = FALSE
    /\ snapshot = [g \in Goroutines |-> {}]
    /\ saved = [p \in Parts |-> "fresh"]
    /\ at = [g \in Goroutines |-> "idle"]
    /\ whom = [g \in Goroutines |-> None]
    /\ seat = [g \in Goroutines |-> 0]

-----------------------------------------------------------------------------
Begin(g, step, u, k) ==
    /\ at[g] = "idle"
    /\ at' = [at EXCEPT ![g] = step]
    /\ whom' = [whom EXCEPT ![g] = u]
    /\ seat' = [seat EXCEPT ![g] = k]

Continue(g, from, to) ==
    /\ at[g] = from
    /\ at' = [at EXCEPT ![g] = to]
    /\ whom' = [whom EXCEPT ![g] = None]
    /\ seat' = [seat EXCEPT ![g] = 0]

(* A part of what Room.GetRoomState answers changes: copies are out of date. *)
StateChanges(p) ==
    /\ snapshot' = [g \in Goroutines |-> snapshot[g] \ {p}]
    /\ saved' = [saved EXCEPT ![p] = IF @ = "fresh" THEN "outdated" ELSE @]

-----------------------------------------------------------------------------
(* handleSeatAccept looks for the lowest free seat in a copy of the seats and
   takes it afterwards, whoever sits there by then; then it synchronises. *)

(* Mutant: the lowest seat is given, taken or not. *)
AllSeats == {k \in Seats : k > 0}

FreeSeats == {k \in Seats : k > 0 /\ activeSeats[k] = None}

SeatAccept(s, u) ==
    /\ Owner[s] = Host
    /\ \E k \in FreeSeats : (\A j \in FreeSeats : k <= j) /\ Begin(s, "setSeat", u, k)
    /\ UNCHANGED <<activeSeats, queued, redis>>

SetActiveSeat(s) ==
    /\ Continue(s, "setSeat", "snapshot")
    /\ activeSeats' = [activeSeats EXCEPT ![seat[s]] = whom[s]]
    /\ StateChanges("roster")
    /\ UNCHANGED queued

(* A participant gives up its seats, or the host takes them away. *)
LeaveSeat(s) ==
    /\ Begin(s, "freeSeats", Owner[s], 0)
    /\ UNCHANGED <<activeSeats, queued, redis>>

KickSeat(s, u) ==
    /\ Owner[s] = Host
    /\ Begin(s, "freeSeats", u, 0)
    /\ UNCHANGED <<activeSeats, queued, redis>>

RemoveUserFromSeats(s) ==
    /\ Continue(s, "freeSeats", "snapshot")
    /\ activeSeats' = [k \in Seats |-> IF activeSeats[k] = whom[s] THEN None ELSE activeSeats[k]]
    /\ StateChanges("roster")
    /\ UNCHANGED queued

-----------------------------------------------------------------------------
(* The other changes of the roster: a mute state, which is synchronised at
   once; a join, which is queued for the batcher and synchronised too; a
   removal, after a kick or a grace period, which is only queued. *)

SetMediaState(s) ==
    /\ Begin(s, "snapshot", None, 0)
    /\ StateChanges("roster")
    /\ UNCHANGED <<activeSeats, queued>>

JoinViewer(s) ==
    /\ Begin(s, "snapshot", None, 0)
    /\ StateChanges("roster")
    /\ queued' = TRUE
    /\ UNCHANGED activeSeats

RemoveViewer(g) ==
    /\ g # Batcher
    /\ Begin(g, "enqueue", None, 0)
    /\ StateChanges("roster")
    /\ UNCHANGED <<activeSeats, queued>>

(* Mutant: a removal is not queued. *)
EnqueuePresenceLeaveSilent(g) ==
    /\ Continue(g, "enqueue", "idle")
    /\ UNCHANGED <<activeSeats, queued, redis>>

EnqueuePresenceLeave(g) ==
    /\ Continue(g, "enqueue", "idle")
    /\ queued' = TRUE
    /\ UNCHANGED <<activeSeats, redis>>

-----------------------------------------------------------------------------
(* The profile: the PK state set as a battle starts or ends is synchronised; a
   gift's score, with the PK state it updates, and a name or a type that comes
   with a publish offer are not: they wait for the next copy, if one comes. *)

SetPKState(s) ==
    /\ Begin(s, "snapshot", None, 0)
    /\ StateChanges("profile")
    /\ UNCHANGED <<activeSeats, queued>>

AddGiftScore(s) ==
    /\ at[s] = "idle"
    /\ StateChanges("profile")
    /\ UNCHANGED <<activeSeats, queued, local>>

SetRoomName(s) ==
    /\ at[s] = "idle"
    /\ StateChanges("profile")
    /\ UNCHANGED <<activeSeats, queued, local>>

-----------------------------------------------------------------------------
(* The batcher drains the queues, tells the clients, and synchronises. *)
FlushPresence ==
    /\ queued
    /\ Begin(Batcher, "snapshot", None, 0)
    /\ queued' = FALSE
    /\ UNCHANGED <<activeSeats, redis>>

-----------------------------------------------------------------------------
(* SyncRoomState: a copy of the room's state is made, then written. *)

GetRoomState(g) ==
    /\ Continue(g, "snapshot", "save")
    /\ snapshot' = [snapshot EXCEPT ![g] = Parts]
    /\ UNCHANGED <<activeSeats, queued, saved>>

SaveRoomState(g) ==
    /\ Continue(g, "save", "idle")
    /\ saved' = [p \in Parts |-> IF p \in snapshot[g] THEN "fresh" ELSE "late"]
    /\ snapshot' = [snapshot EXCEPT ![g] = {}]
    /\ UNCHANGED <<activeSeats, queued>>

-----------------------------------------------------------------------------
Handle(g) ==
    \/ SetActiveSeat(g) \/ RemoveUserFromSeats(g) \/ EnqueuePresenceLeave(g)
    \/ GetRoomState(g) \/ SaveRoomState(g)

Next ==
    \/ \E s \in Sockets : \/ LeaveSeat(s) \/ SetMediaState(s) \/ JoinViewer(s)
                          \/ SetPKState(s) \/ AddGiftScore(s) \/ SetRoomName(s)
                          \/ \E u \in Users : SeatAccept(s, u) \/ KickSeat(s, u)
    \/ \E g \in Goroutines : RemoveViewer(g) \/ Handle(g)
    \/ FlushPresence

Spec == Init /\ [][Next]_vars

-----------------------------------------------------------------------------
(* Every change of the seats, the mute states, the viewers or the participants
   is followed by a copy to Redis: when all is quiet, Redis is behind in these
   only where a copy was written after a later change, which nothing corrects
   (SyncRoomState and its callers).  Nothing is said of the profile, whose
   changes by AddGiftScore and SetRoomName no copy follows. *)
Quiet == ~queued /\ \A g \in Goroutines : at[g] = "idle"
SavedAfterChange == Quiet => saved["roster"] # "outdated"

(* Where the host has one socket, a seat goes from one user to another only
   by way of being free, whatever the co-hosts do meanwhile
   (handleSeatAccept, handleLeaveSeat, handleKickSeat). *)
HostHasOneSocket == \A s, t \in Sockets : Owner[s] = Host /\ Owner[t] = Host => s = t
SeatsKept ==
    [][HostHasOneSocket =>
         \A k \in Seats : activeSeats[k] # None => activeSeats'[k] \in {activeSeats[k], None}]_vars
=============================================================================
