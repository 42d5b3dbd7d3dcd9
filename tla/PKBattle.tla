------------------------------ MODULE PKBattle ------------------------------
(***************************************************************************)
(* PK battles between two rooms, and the gift scores they show.            *)
(*                                                                         *)
(* A battle lives in four places: PKManager.activePKs (under PKManager.mu),*)
(* Redis (pk:session:<room>), Room.PKState, which the clients are shown,   *)
(* and Room.linkedRoomID.  A score lives in three: Room.HostScore, the     *)
(* pendingScores of RoomManager and Redis (room:<room>:score).  Every gift *)
(* runs through all of them, one lock at a time.                           *)
(***************************************************************************)
EXTENDS Naturals, FiniteSets

CONSTANTS
    RoomIDs,     \* names of rooms
    Sessions,    \* the pairs of rooms that battle, RoomID1 first
    Modes,       \* what Redis may be: "off", "good", "flaky" (commands fail)
    Givers,      \* goroutines whose handlers receive gifts and messages
    Hosts,       \* goroutines whose handlers start and stop battles
    None,        \* no session, no room, no handler
    MaxGifts,    \* bound on the gifts given
    MaxOpens,    \* bounds on the Room objects made under each name
    MaxCrashes   \* bound on the restarts of the server

Handlers == Givers \cup Hosts

ASSUME PKAssumption ==
    /\ Sessions \subseteq {s \in RoomIDs \X RoomIDs : s[1] # s[2]}
    /\ Modes \subseteq {"off", "good", "flaky"}
    /\ None \notin RoomIDs \cup Sessions \cup Handlers
    /\ IsFiniteSet(Handlers)
    /\ MaxGifts \in Nat /\ MaxOpens \in [RoomIDs -> Nat] /\ MaxCrashes \in Nat

VARIABLES
    redis,       \* the mode of Redis, for good
    open,        \* open[r]: activeRooms holds a room under r
    object,      \* object[r]: number of the latest Room object under r
    hostScore,   \* Room.HostScore of that object
    pkState,     \* Room.PKState: None, or opponent and the two scores shown
    linkedRoom,  \* Room.linkedRoomID
    activePKs,   \* PKManager.activePKs: the session under each room, or None
    stored,      \* the sessions in Redis
    mu,          \* the handler inside StartPK, which keeps PKManager.mu
    pending,     \* RoomManager.pendingScores
    deltas,      \* what flushPendingScores has taken and not sent yet
    redisScore,  \* the scores in Redis
    handler,     \* where each goroutine is, and its local variables
    gifts, crashes

roomVars == <<open, object, hostScore, pkState, linkedRoom>>
pkVars == <<activePKs, stored, mu>>
scoreVars == <<pending, deltas, redisScore>>
vars == <<redis, roomVars, pkVars, scoreVars, handler, gifts, crashes>>

-----------------------------------------------------------------------------
Opponent(s, r) == IF s[1] = r THEN s[2] ELSE s[1]
Shown(peer, mine, theirs) == [peer |-> peer, mine |-> mine, theirs |-> theirs]

(* A handler: the room its message came from, the room it works on, the
   session, the two Room objects it has looked up, the two scores it has read,
   and what it wants a session for. *)
Idle == [pc |-> "idle", from |-> None, to |-> None, sess |-> None,
         objects |-> <<0, 0>>, scores |-> <<0, 0>>, use |-> "none"]
At(h, pc) == handler[h].pc = pc
Go(h, new) == handler' = [handler EXCEPT ![h] = new]
Step(h, pc) == handler' = [handler EXCEPT ![h].pc = pc]

HasRedis == redis # "off"
MayFail == redis = "flaky"

(* The Room object a handler holds is still the one under its name. *)
Current(h, i) == LET r == handler[h].sess[i]
                 IN open[r] /\ object[r] = handler[h].objects[i]

TypeOK ==
    /\ redis \in Modes
    /\ open \in [RoomIDs -> BOOLEAN]
    /\ object \in [RoomIDs -> Nat] /\ \A r \in RoomIDs : object[r] <= MaxOpens[r]
    /\ hostScore \in [RoomIDs -> Nat]
    /\ pkState \in [RoomIDs -> {None} \cup [peer : RoomIDs, mine : Nat, theirs : Nat]]
    /\ linkedRoom \in [RoomIDs -> RoomIDs \cup {None}]
    /\ activePKs \in [RoomIDs -> Sessions \cup {None}]
    /\ stored \in [RoomIDs -> Sessions \cup {None}]
    /\ mu \in Handlers \cup {None}
    /\ pending \in [RoomIDs -> Nat]
    /\ deltas \in [RoomIDs -> Nat]
    /\ redisScore \in [RoomIDs -> Nat]
    /\ \A h \in Handlers : handler[h].sess \in Sessions \cup {None}
    /\ gifts \in 0..MaxGifts /\ crashes \in 0..MaxCrashes

Init ==
    /\ redis \in Modes
    /\ open = [r \in RoomIDs |-> FALSE]
    /\ object = [r \in RoomIDs |-> 0]
    /\ hostScore = [r \in RoomIDs |-> 0]
    /\ pkState = [r \in RoomIDs |-> None]
    /\ linkedRoom = [r \in RoomIDs |-> None]
    /\ activePKs = [r \in RoomIDs |-> None]
    /\ stored = [r \in RoomIDs |-> None]
    /\ mu = None
    /\ pending = [r \in RoomIDs |-> 0]
    /\ deltas = [r \in RoomIDs |-> 0]
    /\ redisScore = [r \in RoomIDs |-> 0]
    /\ handler = [h \in Handlers |-> Idle]
    /\ gifts = 0 /\ crashes = 0

-----------------------------------------------------------------------------
(* Rooms come and go; what a battle and a gift see of it. *)

OpenRoom(r) ==
    /\ ~open[r] /\ object[r] < MaxOpens[r]
    /\ open' = [open EXCEPT ![r] = TRUE]
    /\ object' = [object EXCEPT ![r] = @ + 1]
    /\ hostScore' = [hostScore EXCEPT ![r] = 0]
    /\ pkState' = [pkState EXCEPT ![r] = None]
    /\ linkedRoom' = [linkedRoom EXCEPT ![r] = None]
    /\ UNCHANGED <<redis, pkVars, scoreVars, handler, gifts, crashes>>

(* The keys of the room are unlinked in Redis; activePKs, the opponent and
   the buffered score are left as they are. *)
CloseRoom(r) ==
    /\ open[r]
    /\ open' = [open EXCEPT ![r] = FALSE]
    /\ hostScore' = [hostScore EXCEPT ![r] = 0]
    /\ pkState' = [pkState EXCEPT ![r] = None]
    /\ linkedRoom' = [linkedRoom EXCEPT ![r] = None]
    /\ \/ /\ HasRedis
          /\ redisScore' = [redisScore EXCEPT ![r] = 0]
          /\ stored' = [stored EXCEPT ![r] = None]
       \/ (~HasRedis \/ MayFail) /\ UNCHANGED <<redisScore, stored>>
    /\ UNCHANGED <<redis, object, activePKs, mu, pending, deltas, handler, gifts, crashes>>

(* The process dies and starts again: only Redis remembers. *)
Crash ==
    /\ crashes < MaxCrashes /\ crashes' = crashes + 1
    /\ open' = [r \in RoomIDs |-> FALSE]
    /\ hostScore' = [r \in RoomIDs |-> 0]
    /\ pkState' = [r \in RoomIDs |-> None]
    /\ linkedRoom' = [r \in RoomIDs |-> None]
    /\ activePKs' = [r \in RoomIDs |-> None]
    /\ mu' = None
    /\ pending' = [r \in RoomIDs |-> 0]
    /\ deltas' = [r \in RoomIDs |-> 0]
    /\ handler' = [h \in Handlers |-> Idle]
    /\ UNCHANGED <<redis, object, stored, redisScore, gifts>>

-----------------------------------------------------------------------------
(* StartPK keeps PKManager.mu to its end.  It looks the rooms up, injects the
   tracks, which takes long, then links, registers and shows the battle on the
   Room objects it looked up, and saves it in Redis. *)

StartPK(h, s) ==
    /\ At(h, "idle") /\ mu = None
    /\ \A i \in 1..2 : activePKs[s[i]] = None /\ open[s[i]]
    /\ mu' = h
    /\ Go(h, [Idle EXCEPT !.pc = "engage", !.sess = s,
                          !.objects = <<object[s[1]], object[s[2]]>>])
    /\ UNCHANGED <<redis, roomVars, activePKs, stored, scoreVars, gifts, crashes>>

EngageRooms(h) ==
    LET s == handler[h].sess
        here(r) == \E i \in 1..2 : s[i] = r /\ Current(h, i)
    IN /\ At(h, "engage")
       /\ activePKs' = [r \in RoomIDs |-> IF r \in {s[1], s[2]} THEN s ELSE activePKs[r]]
       /\ linkedRoom' = [r \in RoomIDs |-> IF here(r) THEN Opponent(s, r) ELSE linkedRoom[r]]
       /\ pkState' = [r \in RoomIDs |->
                        IF here(r) THEN Shown(Opponent(s, r), hostScore[r], hostScore[Opponent(s, r)])
                                   ELSE pkState[r]]
       /\ Step(h, "save")
       /\ UNCHANGED <<redis, open, object, hostScore, stored, mu, scoreVars, gifts, crashes>>

SavePKSession(h) ==
    LET s == handler[h].sess
    IN /\ At(h, "save")
       /\ \/ HasRedis /\ stored' = [stored EXCEPT ![s[1]] = s, ![s[2]] = s]
          \/ (~HasRedis \/ MayFail) /\ UNCHANGED stored
       /\ mu' = None
       /\ Go(h, Idle)
       /\ UNCHANGED <<redis, roomVars, activePKs, scoreVars, gifts, crashes>>

-----------------------------------------------------------------------------
(* Mutant: only the entry of the room that asked is deleted. *)
StopPKOneSided(h, r) ==
    /\ At(h, "idle") /\ mu = None
    /\ activePKs[r] # None
    /\ activePKs' = [activePKs EXCEPT ![r] = None]
    /\ Go(h, [Idle EXCEPT !.pc = "unstore", !.sess = activePKs[r]])
    /\ UNCHANGED <<redis, roomVars, stored, mu, scoreVars, gifts, crashes>>

(* StopPK takes the session out under the lock; the rest follows without. *)

StopPK(h, r) ==
    /\ At(h, "idle") /\ mu = None
    /\ activePKs[r] # None
    /\ LET s == activePKs[r]
       IN /\ activePKs' = [activePKs EXCEPT ![s[1]] = None, ![s[2]] = None]
          /\ Go(h, [Idle EXCEPT !.pc = "unstore", !.sess = s])
    /\ UNCHANGED <<redis, roomVars, stored, mu, scoreVars, gifts, crashes>>

DeletePKSession(h) ==
    LET s == handler[h].sess
    IN /\ At(h, "unstore")
       /\ \/ HasRedis /\ stored' = [stored EXCEPT ![s[1]] = None, ![s[2]] = None]
          \/ (~HasRedis \/ MayFail) /\ UNCHANGED stored
       /\ Step(h, "hide1")
       /\ UNCHANGED <<redis, roomVars, activePKs, mu, scoreVars, gifts, crashes>>

HideBattle(h, i) ==
    LET r == handler[h].sess[i]
    IN /\ At(h, IF i = 1 THEN "hide1" ELSE "hide2")
       /\ pkState' = [pkState EXCEPT ![r] = None]
       /\ linkedRoom' = [linkedRoom EXCEPT ![r] = None]
       /\ IF i = 1 THEN Step(h, "hide2") ELSE Go(h, Idle)
       /\ UNCHANGED <<redis, open, object, hostScore, pkVars, scoreVars, gifts, crashes>>

-----------------------------------------------------------------------------
(* GetPKSession: activePKs first, then Redis, whose answer is put under this
   room alone.  A gift for the other host needs the session to find the room
   ("target"), SyncPKScore to know the rooms ("sync"), and a message for both
   rooms only asks ("ask"). *)

(* The session is known: what the handler wanted it for. *)
Known(h, s) ==
    CASE handler[h].use = "target" ->
            Go(h, [handler[h] EXCEPT !.pc = "score", !.to = Opponent(s, @), !.use = "none",
                                       !.sess = None])
      [] handler[h].use = "sync" -> Go(h, [handler[h] EXCEPT !.pc = "scores", !.sess = s, !.to = None])
      [] OTHER -> Go(h, Idle)

(* A gift syncs the room it counts for, then the room it came from. *)
NextSync(h) ==
    IF handler[h].from = None
      THEN Go(h, Idle)
      ELSE Go(h, [Idle EXCEPT !.pc = "find", !.use = "sync", !.to = handler[h].from])

Unknown(h) ==
    CASE handler[h].use = "target" -> Go(h, [handler[h] EXCEPT !.pc = "score", !.use = "none"])
      [] handler[h].use = "sync" -> NextSync(h)
      [] OTHER -> Go(h, Idle)

AskSession(h, r) ==
    /\ At(h, "idle") /\ open[r] /\ linkedRoom[r] = None
    /\ Go(h, [Idle EXCEPT !.pc = "find", !.use = "ask", !.to = r])
    /\ UNCHANGED <<redis, roomVars, pkVars, scoreVars, gifts, crashes>>

FindSession(h) ==
    /\ At(h, "find") /\ mu = None
    /\ LET s == activePKs[handler[h].to]
       IN CASE s # None -> Known(h, s)
            [] s = None /\ HasRedis -> Step(h, "redis")
            [] OTHER -> Unknown(h)
    /\ UNCHANGED <<redis, roomVars, pkVars, scoreVars, gifts, crashes>>

ReadStored(h) ==
    /\ At(h, "redis")
    /\ LET s == stored[handler[h].to]
       IN \/ s # None /\ Go(h, [handler[h] EXCEPT !.pc = "restore", !.sess = s])
          \/ (s = None \/ MayFail) /\ Unknown(h)
    /\ UNCHANGED <<redis, roomVars, pkVars, scoreVars, gifts, crashes>>

RestoreSession(h) ==
    /\ At(h, "restore") /\ mu = None
    /\ activePKs' = [activePKs EXCEPT ![handler[h].to] = handler[h].sess]
    /\ Known(h, handler[h].sess)
    /\ UNCHANGED <<redis, roomVars, stored, mu, scoreVars, gifts, crashes>>

-----------------------------------------------------------------------------
(* A gift: its room, the score in memory, the buffer for Redis, the battle. *)

(* For the host of the room, for the host of the linked room, or, where no
   open room is linked, for a host to be found in the session. *)
ReceiveGift(h, r) ==
    /\ At(h, "idle") /\ open[r] /\ gifts < MaxGifts
    /\ gifts' = gifts + 1
    /\ LET peer == linkedRoom[r]
           gift == [Idle EXCEPT !.from = r, !.to = r, !.pc = "score"]
       IN \/ Go(h, gift)
          \/ /\ peer # None /\ open[peer]
             /\ Go(h, [gift EXCEPT !.to = peer])
          \/ /\ IF peer = None THEN TRUE ELSE ~open[peer]
             /\ Go(h, [gift EXCEPT !.pc = "find", !.use = "target"])
    /\ UNCHANGED <<redis, roomVars, pkVars, scoreVars, crashes>>

AddHostScore(h) ==
    LET r == handler[h].to
    IN /\ At(h, "score")
       /\ hostScore' = [hostScore EXCEPT ![r] = IF open[r] THEN @ + 1 ELSE @]
       /\ Step(h, "buffer")
       /\ UNCHANGED <<redis, open, object, pkState, linkedRoom, pkVars, scoreVars, gifts, crashes>>

BufferScore(h) ==
    /\ At(h, "buffer")
    /\ pending' = [pending EXCEPT ![handler[h].to] = @ + 1]
    /\ Go(h, [handler[h] EXCEPT !.pc = "find", !.use = "sync"])
    /\ UNCHANGED <<redis, roomVars, pkVars, deltas, redisScore, gifts, crashes>>

-----------------------------------------------------------------------------
(* SyncPKScore: the scores in Redis, or the one in memory where Redis says 0;
   first room 1 is shown the result, then room 2. *)

ReadScores(h) ==
    LET s == handler[h].sess
        answers(r) == IF ~HasRedis THEN {0}
                      ELSE {redisScore[r]} \cup (IF MayFail THEN {0} ELSE {})
    IN /\ At(h, "scores")
       /\ \E a \in answers(s[1]), b \in answers(s[2]) :
            Go(h, [handler[h] EXCEPT !.pc = "read1", !.scores = <<a, b>>])
       /\ UNCHANGED <<redis, roomVars, pkVars, scoreVars, gifts, crashes>>

LookupRoom(h, i) ==
    LET r == handler[h].sess[i]
    IN /\ At(h, IF i = 1 THEN "read1" ELSE "read2")
       /\ IF open[r]
            THEN Go(h, [handler[h] EXCEPT
                          !.pc = IF i = 1 THEN "show1" ELSE "show2",
                          !.objects[i] = object[r],
                          !.scores[i] = IF @ = 0 THEN hostScore[r] ELSE @])
            ELSE IF i = 1 THEN Step(h, "read2") ELSE NextSync(h)
       /\ UNCHANGED <<redis, roomVars, pkVars, scoreVars, gifts, crashes>>

(* Mutant: the two scores are swapped for the second room. *)
ShowScoresSwapped(h, i) ==
    LET s == handler[h].sess
        r == s[i]
    IN /\ At(h, IF i = 1 THEN "show1" ELSE "show2")
       /\ pkState' = [pkState EXCEPT ![r] =
                        IF Current(h, i)
                          THEN Shown(Opponent(s, r), handler[h].scores[1], handler[h].scores[2])
                          ELSE @]
       /\ IF i = 1 THEN Go(h, [handler[h] EXCEPT !.pc = "read2", !.objects = <<0, 0>>])
                   ELSE NextSync(h)
       /\ UNCHANGED <<redis, open, object, hostScore, linkedRoom, pkVars, scoreVars, gifts, crashes>>

ShowScores(h, i) ==
    LET s == handler[h].sess
        r == s[i]
    IN /\ At(h, IF i = 1 THEN "show1" ELSE "show2")
       /\ pkState' = [pkState EXCEPT ![r] =
                        IF Current(h, i)
                          THEN Shown(Opponent(s, r), handler[h].scores[i], handler[h].scores[3 - i])
                          ELSE @]
       /\ IF i = 1 THEN Go(h, [handler[h] EXCEPT !.pc = "read2", !.objects = <<0, 0>>])
                   ELSE NextSync(h)
       /\ UNCHANGED <<redis, open, object, hostScore, linkedRoom, pkVars, scoreVars, gifts, crashes>>

-----------------------------------------------------------------------------
(* Mutant: the buffer is not emptied when it is taken. *)
TakePendingKeeps ==
    /\ \A r \in RoomIDs : deltas[r] = 0
    /\ \E r \in RoomIDs : pending[r] > 0
    /\ deltas' = pending
    /\ UNCHANGED <<redis, roomVars, pkVars, pending, redisScore, handler, gifts, crashes>>

(* Mutant: a buffer with the score of a single room is not worth a pipeline. *)
TakePendingBatched ==
    /\ \A r \in RoomIDs : deltas[r] = 0
    /\ Cardinality({r \in RoomIDs : pending[r] > 0}) > 1
    /\ deltas' = pending
    /\ pending' = [r \in RoomIDs |-> 0]
    /\ UNCHANGED <<redis, roomVars, pkVars, redisScore, handler, gifts, crashes>>

(* flushPendingScores, every two seconds: the buffer is taken and emptied
   under its lock, then sent; what a failed pipeline did not apply is gone. *)

TakePending ==
    /\ \A r \in RoomIDs : deltas[r] = 0
    /\ \E r \in RoomIDs : pending[r] > 0
    /\ deltas' = pending
    /\ pending' = [r \in RoomIDs |-> 0]
    /\ UNCHANGED <<redis, roomVars, pkVars, redisScore, handler, gifts, crashes>>

BatchIncrementScores ==
    /\ \E r \in RoomIDs : deltas[r] > 0
    /\ \E done \in SUBSET RoomIDs :
          /\ redis = "good" => done = RoomIDs
          /\ redis = "off" => done = {}
          /\ redisScore' = [r \in RoomIDs |->
                              IF r \in done THEN redisScore[r] + deltas[r] ELSE redisScore[r]]
    /\ deltas' = [r \in RoomIDs |-> 0]
    /\ UNCHANGED <<redis, roomVars, pkVars, pending, handler, gifts, crashes>>

-----------------------------------------------------------------------------
Handle(h) ==
    \/ EngageRooms(h) \/ SavePKSession(h)
    \/ DeletePKSession(h)
    \/ FindSession(h) \/ ReadStored(h) \/ RestoreSession(h)
    \/ AddHostScore(h) \/ BufferScore(h)
    \/ ReadScores(h)
    \/ \E i \in 1..2 : HideBattle(h, i) \/ LookupRoom(h, i) \/ ShowScores(h, i)

Flush == TakePending \/ BatchIncrementScores

Next ==
    \/ \E r \in RoomIDs : OpenRoom(r) \/ CloseRoom(r)
    \/ Crash
    \/ \E h \in Hosts : \/ \E s \in Sessions : StartPK(h, s)
                       \/ \E r \in RoomIDs : StopPK(h, r)
    \/ \E h \in Givers, r \in RoomIDs : AskSession(h, r) \/ ReceiveGift(h, r)
    \/ \E h \in Handlers : Handle(h)
    \/ Flush

(* Goroutines run, and the ticker of the flusher ticks. *)
Fairness == WF_vars(Flush) /\ \A h \in Handlers : WF_vars(Handle(h))

Spec == Init /\ [][Next]_vars /\ Fairness

-----------------------------------------------------------------------------
(* Without Redis, a session is registered for both of its rooms or for
   neither, so that no room is in two battles at once and every battle can be
   ended from either side (StartPK, StopPK: pk_manager.go). *)
SessionsPaired ==
    redis = "off" =>
        \A r \in RoomIDs : activePKs[r] # None =>
            LET s == activePKs[r]
            IN r \in {s[1], s[2]} /\ activePKs[s[1]] = s /\ activePKs[s[2]] = s

(* Gifts that are in Room.HostScore and not yet in pendingScores. *)
InHand(r) == Cardinality({h \in Handlers : At(h, "buffer") /\ handler[h].to = r})
OnTheWay(r) == redisScore[r] + pending[r] + deltas[r] + InHand(r)

(* What Redis holds and will still get of a room's score.  No gift is counted
   twice, whatever fails, and while Redis answers none is lost: the first room
   under a name has exactly the gifts that are on the way, a later one may find
   those of its predecessor beside its own (AddGiftScore, flushPendingScores). *)
Ledger ==
    \A r \in RoomIDs : open[r] =>
        /\ object[r] = 1 => OnTheWay(r) <= hostScore[r]
        /\ redis = "good" => hostScore[r] <= OnTheWay(r)

(* A battle never shows more points than were given, although its scores come
   from Redis or from memory, whichever is not 0 (SyncPKScore). *)
ShownIsEarned ==
    \A r \in RoomIDs : (pkState[r] # None /\ object[r] = 1) =>
        /\ pkState[r].mine <= hostScore[r]
        /\ LET p == pkState[r].peer
           IN open[p] /\ object[p] = 1 => pkState[r].theirs <= hostScore[p]

(* While Redis answers, the score in Redis reaches the score of an open room
   again and again (the flusher of RoomManager). *)
ScoresReachRedis ==
    (redis = "good") =>
        \A r \in RoomIDs : []<>(open[r] => redisScore[r] >= hostScore[r])
=============================================================================
