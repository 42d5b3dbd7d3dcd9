----------------------------- MODULE LockProofs -----------------------------
(***************************************************************************)
(* Two modules whose threads share a lock of RWMutex, for any clients,     *)
(* rooms and threads.                                                      *)
(*                                                                         *)
(* Renegotiation: the counts of Room.mu stay within their bounds and its   *)
(* writers exclude everybody, and of every PeerConnection one offer at a   *)
(* time is under way.  HubLocks: the zombie collector holds no read lock   *)
(* of RoomManager.mu where it waits for Hub.Run, and the rooms do not      *)
(* change while it goes through them.  The variables of the two are apart. *)
(***************************************************************************)
EXTENDS HubLocks, Renegotiation, TLAPS

-----------------------------------------------------------------------------
(* The calls of a mutex give a mutex, in which a writer that has the lock is
   alone and readers are parked behind a writer only. *)

Exclusive(m) ==
  /\ m.active <=> m.writer # Nobody /\ NoReaders(m.holds)
  /\ m.parked # {} => m.writer # Nobody

LEMMA RLockedIsMutex ==
  ASSUME NEW T, NEW m \in Mutexes(T), NEW t \in T, m.holds[t] < 2
  PROVE  /\ RLocked(m, t) \in Mutexes(T)
         /\ \A x \in T \ {t} : /\ RLocked(m, t).holds[x] = m.holds[x]
                               /\ x \in RLocked(m, t).parked <=> x \in m.parked
         /\ RLocked(m, t).writer = m.writer
         /\ \/ RLocked(m, t).holds[t] = m.holds[t] + 1 /\ RLocked(m, t).parked = m.parked
            \/ RLocked(m, t).holds[t] = m.holds[t] /\ t \in RLocked(m, t).parked
         /\ Exclusive(m) => Exclusive(RLocked(m, t))
<1>1. m.holds \in [T -> 0 .. 2] /\ m.parked \in SUBSET T
  BY DEF Mutexes
<1>2. m.holds[t] + 1 \in 0 .. 2
  BY <1>1
<1>3. Exclusive(m) => Exclusive(RLocked(m, t))
  BY <1>1 DEF Mutexes, RLocked, Exclusive
<1> QED BY <1>1, <1>2, <1>3 DEF Mutexes, RLocked

LEMMA RUnlockedIsMutex ==
  ASSUME NEW T, NEW m \in Mutexes(T), NEW t \in T, m.holds[t] > 0
  PROVE  /\ RUnlocked(m, t) \in Mutexes(T)
         /\ RUnlocked(m, t).holds = [m.holds EXCEPT ![t] = @ - 1]
         /\ RUnlocked(m, t).parked = m.parked /\ RUnlocked(m, t).writer = m.writer
         /\ Exclusive(m) => Exclusive(RUnlocked(m, t))
<1>1. m.holds \in [T -> 0 .. 2]
  BY DEF Mutexes
<1>2. m.holds[t] - 1 \in 0 .. 2
  BY <1>1
<1> DEFINE holds == [m.holds EXCEPT ![t] = @ - 1]
           active == m.writer # Nobody /\ NoReaders(holds)
<1>3. active \in BOOLEAN
  BY DEF NoReaders
<1>4. holds \in [T -> 0 .. 2]
  BY <1>1, <1>2
<1>5. RUnlocked(m, t) = [m EXCEPT !.holds = holds, !.active = active]
  BY DEF RUnlocked
<1> HIDE DEF holds, active
<1>6. RUnlocked(m, t) = [holds |-> holds, parked |-> m.parked, writer |-> m.writer,
                         active |-> active]
  BY <1>5 DEF Mutexes
<1>7. Exclusive(m) => Exclusive(RUnlocked(m, t))
  <2>1. /\ RUnlocked(m, t).holds = holds /\ RUnlocked(m, t).parked = m.parked
        /\ RUnlocked(m, t).writer = m.writer /\ RUnlocked(m, t).active = active
    BY <1>6
  <2> QED BY <2>1, Zenon DEF Exclusive, active
<1>8. RUnlocked(m, t) \in Mutexes(T)
  BY <1>3, <1>4, <1>6 DEF Mutexes
<1> QED BY <1>6, <1>7, <1>8 DEF holds

LEMMA LockedIsMutex ==
  ASSUME NEW T, NEW m \in Mutexes(T), NEW t \in T
  PROVE  /\ Locked(m, t) \in Mutexes(T)
         /\ Locked(m, t).holds = m.holds /\ Locked(m, t).parked = m.parked
         /\ Locked(m, t).writer = t
         /\ t # Nobody => Exclusive(Locked(m, t))
<1>1. NoReaders(m.holds) \in BOOLEAN
  BY DEF NoReaders
<1> DEFINE active == NoReaders(m.holds)
<1>2. Locked(m, t) = [m EXCEPT !.writer = t, !.active = active]
  BY DEF Locked
<1> HIDE DEF active
<1>3. Locked(m, t) = [holds |-> m.holds, parked |-> m.parked, writer |-> t,
                      active |-> active]
  BY <1>2 DEF Mutexes
<1>4. t # Nobody => Exclusive(Locked(m, t))
  BY <1>3 DEF Exclusive, active
<1> QED BY <1>1, <1>3, <1>4 DEF Mutexes, active

LEMMA UnlockedIsMutex ==
  ASSUME NEW T, NEW m \in Mutexes(T), \A t \in m.parked : m.holds[t] < 2
  PROVE  /\ Unlocked(m) \in Mutexes(T)
         /\ Unlocked(m).parked = {} /\ Unlocked(m).writer = Nobody
         /\ \A t \in T : Unlocked(m).holds[t] =
                           IF t \in m.parked THEN m.holds[t] + 1 ELSE m.holds[t]
         /\ Exclusive(Unlocked(m))
<1>1. m.holds \in [T -> 0 .. 2] /\ m.parked \subseteq T /\ DOMAIN m.holds = T
  BY DEF Mutexes
<1> DEFINE holds == [t \in T |-> IF t \in m.parked THEN m.holds[t] + 1 ELSE m.holds[t]]
<1>2. holds \in [T -> 0 .. 2]
  BY <1>1
<1> HIDE DEF holds
<1>3. Unlocked(m) = [holds |-> holds, parked |-> {}, writer |-> Nobody, active |-> FALSE]
  BY <1>1 DEF Unlocked, holds
<1>4. Unlocked(m) \in Mutexes(T) /\ Exclusive(Unlocked(m))
  BY <1>2, <1>3 DEF Mutexes, Exclusive
<1> QED BY <1>3, <1>4 DEF holds

-----------------------------------------------------------------------------
(* Room.mu: where a thread is tells its read locks; a call that waits is
   parked, with one lock less than it will have. *)

Points == {"idle", "read", "pli", "throttle", "answer", "relay", "direct", "leave",
           "gone", "lock", "set", "broadcast", "tell", "renegotiate", "offer",
           "nested", "hostPC", "arm", "armed"}
Depth(p) == IF p = "hostPC" THEN 2 ELSE IF p \in {"tell", "offer", "nested"} THEN 1 ELSE 0

LocksOf(t) ==
    \/ room.holds[t] = Depth(at[t]) /\ t \notin room.parked
    \/ room.holds[t] + 1 = Depth(at[t]) /\ t \in room.parked /\ at[t] # "nested"

\* A thread is the writer between its Lock and its Unlock.
Writing == {"throttle", "set", "armed"}
Owns(t) == room.writer = t <=> at[t] \in Writing

LockTypes == room \in Mutexes(Threads) /\ at \in [Threads -> Points]
LocksHeld == Exclusive(room) /\ \A t \in Threads : LocksOf(t) /\ Owns(t)
LockInv == LockTypes /\ LocksHeld

LEMMA ThreadsAre ==
  /\ Hub \in Threads
  /\ \A c \in Clients : Reader(c) \in Threads /\ Reader(c) # Hub
  /\ \A p \in Publishers : Track(p) \in Threads
  /\ Nobody \notin Threads
  /\ Publishers \subseteq Clients
<1>1. Nobody # Hub /\ \A c : Nobody # Reader(c) /\ Nobody # Track(c) /\ Reader(c) # Hub
  BY DEF Nobody, Hub, Reader, Track
<1> QED BY <1>1, RenegotiationAssumption DEF Threads, RenegotiationAssumption, Viewers

LEMMA DepthIs ==
  ASSUME LockInv, NEW t \in Threads
  PROVE  /\ at[t] \in Points /\ Depth(at[t]) \in 0 .. 2
         /\ room.holds[t] \in 0 .. 2
         /\ InRoom(t) => room.holds[t] = Depth(at[t])
         /\ t \in room.parked => room.holds[t] < 2
BY DEF LockInv, LockTypes, LocksHeld, LocksOf, Depth, InRoom, Mutexes

LEMMA LocksMove ==
  ASSUME LockInv, UNCHANGED room, at' \in [Threads -> Points],
         \A t \in Threads : /\ Depth(at'[t]) = Depth(at[t])
                            /\ at'[t] = "nested" => at[t] = "nested" \/ InRoom(t)
                            /\ at'[t] \in Writing <=> at[t] \in Writing
  PROVE  LockInv'
BY DEF LockInv, LockTypes, LocksHeld, LocksOf, Owns, InRoom

LEMMA LocksLock ==
  ASSUME LockInv, NEW t \in Threads, NEW from \in Points, NEW to \in Points,
         Locks(t, from, to), Depth(from) = 0, Depth(to) = 0, to \in Writing
  PROVE  LockInv'
<1> USE ThreadsAre
<1>1. room \in Mutexes(Threads) /\ at \in [Threads -> Points] /\ t # Nobody
  BY DEF LockInv, LockTypes
<1>2. /\ at[t] = from /\ at' = [at EXCEPT ![t] = to] /\ room' = Locked(room, t)
      /\ room.writer = Nobody
  BY DEF Locks, Goes, CanLock
<1>3. /\ room' \in Mutexes(Threads) /\ Exclusive(room')
      /\ room'.holds = room.holds /\ room'.parked = room.parked /\ room'.writer = t
  BY <1>1, <1>2, LockedIsMutex
<1>4. ASSUME NEW x \in Threads PROVE LocksOf(x)' /\ Owns(x)'
  <2>1. LocksOf(x) /\ Owns(x) /\ x # Nobody
    BY <1>1, ThreadsAre DEF LockInv, LocksHeld
  <2>2. LocksOf(x)'
    BY <1>1, <1>2, <1>3, <2>1, DepthIs DEF LocksOf
  <2> QED BY <1>1, <1>2, <1>3, <2>1, <2>2 DEF Owns
<1> QED BY <1>1, <1>2, <1>3, <1>4 DEF LockInv, LockTypes, LocksHeld

LEMMA LocksUnlock ==
  ASSUME LockInv, NEW t \in Threads, NEW from \in Points, NEW to \in Points,
         Unlocks(t, from, to), Depth(from) = 0, Depth(to) = 0, to \notin Writing
  PROVE  LockInv'
<1>1. room \in Mutexes(Threads) /\ at \in [Threads -> Points] /\ room.parked \subseteq Threads
  BY DEF LockInv, LockTypes, Mutexes
<1>2. /\ at[t] = from /\ at' = [at EXCEPT ![t] = to] /\ room' = Unlocked(room)
      /\ room.writer = t
  BY DEF Unlocks, Goes, Writes
<1>3. \A x \in room.parked : room.holds[x] < 2
  BY <1>1, DepthIs
<1>4. /\ room' \in Mutexes(Threads) /\ Exclusive(room') /\ room'.parked = {} /\ room'.writer = Nobody
      /\ \A x \in Threads : room'.holds[x] =
                              IF x \in room.parked THEN room.holds[x] + 1 ELSE room.holds[x]
  BY <1>1, <1>2, <1>3, UnlockedIsMutex
<1>5. ASSUME NEW x \in Threads PROVE LocksOf(x)' /\ Owns(x)'
  <2>1. at'[x] = at[x] \/ (Depth(at[x]) = 0 /\ Depth(at'[x]) = 0)
    BY <1>1, <1>2
  <2>2. LocksOf(x) /\ Owns(x) /\ x # Nobody
    BY ThreadsAre DEF LockInv, LocksHeld
  <2>3. LocksOf(x)'
    BY <1>1, <1>4, <2>1, <2>2, DepthIs DEF LocksOf
  <2> QED BY <1>1, <1>2, <1>4, <2>2, <2>3 DEF Owns
<1> QED BY <1>1, <1>2, <1>4, <1>5 DEF LockInv, LockTypes, LocksHeld

LEMMA LocksRLock ==
  ASSUME LockInv, NEW t \in Threads, NEW from \in Points, NEW to \in Points,
         RLocks(t, from, to), Depth(to) = Depth(from) + 1, to # "nested",
         from \notin Writing, to \notin Writing, room.holds[t] = Depth(from), t \notin room.parked
  PROVE  LockInv'
<1>1. room \in Mutexes(Threads) /\ at \in [Threads -> Points] /\ room.holds[t] < 2
  BY DEF LockInv, LockTypes, Depth
<1>2. /\ at[t] = from /\ at' = [at EXCEPT ![t] = to] /\ room' = RLocked(room, t)
  BY DEF RLocks, Goes
<1>3. /\ room' \in Mutexes(Threads) /\ Exclusive(room')
      /\ \A x \in Threads \ {t} : /\ room'.holds[x] = room.holds[x]
                                  /\ x \in room'.parked <=> x \in room.parked
      /\ room'.writer = room.writer
      /\ \/ room'.holds[t] = room.holds[t] + 1 /\ room'.parked = room.parked
         \/ room'.holds[t] = room.holds[t] /\ t \in room'.parked
  BY <1>1, <1>2, RLockedIsMutex DEF LockInv, LocksHeld
<1>4. LocksOf(t)' /\ Owns(t)'
  <2>1. Owns(t)
    BY DEF LockInv, LocksHeld
  <2>2. LocksOf(t)'
    BY <1>1, <1>2, <1>3, DepthIs DEF LocksOf
  <2> QED BY <1>1, <1>2, <1>3, <2>1, <2>2 DEF Owns
<1>5. ASSUME NEW x \in Threads \ {t} PROVE LocksOf(x)' /\ Owns(x)'
  <2>1. LocksOf(x) /\ Owns(x) /\ at'[x] = at[x]
    BY <1>1, <1>2 DEF LockInv, LocksHeld
  <2> QED BY <1>3, <2>1 DEF LocksOf, Owns
<1> QED BY <1>1, <1>2, <1>3, <1>4, <1>5 DEF LockInv, LockTypes, LocksHeld

LEMMA LocksRUnlock ==
  ASSUME LockInv, NEW t \in Threads, NEW from \in Points, NEW to \in Points,
         RUnlocks(t, from, to), Depth(from) = 1, Depth(to) = 0,
         from \notin Writing, to \notin Writing
  PROVE  LockInv'
<1>1. room \in Mutexes(Threads) /\ at \in [Threads -> Points]
  BY DEF LockInv, LockTypes
<1>2. /\ at[t] = from /\ at' = [at EXCEPT ![t] = to] /\ room' = RUnlocked(room, t)
      /\ InRoom(t)
  BY DEF RUnlocks, Goes
<1>3. room.holds[t] = 1 /\ room.holds \in [Threads -> 0 .. 2]
  BY <1>1, <1>2, DepthIs DEF Mutexes
<1>4. /\ room' \in Mutexes(Threads) /\ Exclusive(room') /\ room'.parked = room.parked
      /\ room'.writer = room.writer /\ room'.holds = [room.holds EXCEPT ![t] = @ - 1]
  BY <1>1, <1>2, <1>3, RUnlockedIsMutex DEF LockInv, LocksHeld
<1>5. LocksOf(t)' /\ Owns(t)'
  <2>1. Owns(t)
    BY DEF LockInv, LocksHeld
  <2>2. LocksOf(t)'
    BY <1>1, <1>2, <1>3, <1>4 DEF LocksOf, InRoom
  <2> QED BY <1>1, <1>2, <1>4, <2>1, <2>2 DEF Owns
<1>6. ASSUME NEW x \in Threads \ {t} PROVE LocksOf(x)' /\ Owns(x)'
  <2>1. LocksOf(x) /\ Owns(x) /\ at'[x] = at[x]
    BY <1>1, <1>2 DEF LockInv, LocksHeld
  <2> QED BY <1>3, <1>4, <2>1 DEF LocksOf, Owns
<1> QED BY <1>1, <1>2, <1>4, <1>5, <1>6 DEF LockInv, LockTypes, LocksHeld

LEMMA RUnlockedTwice ==
  ASSUME NEW T, NEW m \in Mutexes(T), NEW t \in T, m.holds[t] = 2, Exclusive(m)
  PROVE  LET twice == RUnlocked(RUnlocked(m, t), t)
         IN /\ twice \in Mutexes(T) /\ Exclusive(twice) /\ twice.parked = m.parked
            /\ twice.writer = m.writer
            /\ twice.holds[t] = 0 /\ \A x \in T \ {t} : twice.holds[x] = m.holds[x]
<1>1. m.holds \in [T -> 0 .. 2]
  BY DEF Mutexes
<1>2. PICK once \in Mutexes(T) :
        /\ once = RUnlocked(m, t) /\ Exclusive(once) /\ once.parked = m.parked
        /\ once.writer = m.writer /\ once.holds = [m.holds EXCEPT ![t] = @ - 1]
  <2>1. m.holds[t] > 0
    OBVIOUS
  <2> QED BY <2>1, RUnlockedIsMutex
<1>3. once.holds[t] = 1 /\ \A x \in T \ {t} : once.holds[x] = m.holds[x]
  BY <1>1, <1>2
<1>4. PICK twice \in Mutexes(T) :
        /\ twice = RUnlocked(once, t) /\ Exclusive(twice) /\ twice.parked = once.parked
        /\ twice.writer = once.writer /\ twice.holds = [once.holds EXCEPT ![t] = @ - 1]
  <2>1. once.holds[t] > 0 /\ Exclusive(once)
    BY <1>2, <1>3
  <2> QED BY <2>1, RUnlockedIsMutex
<1>5. once.holds \in [T -> 0 .. 2]
  BY DEF Mutexes
<1>6. twice.holds[t] = 0 /\ \A x \in T \ {t} : twice.holds[x] = once.holds[x]
  BY <1>3, <1>4, <1>5
<1> QED BY <1>2, <1>3, <1>4, <1>6

LEMMA LocksDone ==
  ASSUME LockInv, NEW p \in Publishers, RenegotiationDone(p)
  PROVE  LockInv'
<1>1. PICK t \in Threads :
        /\ at[t] = "hostPC" /\ at' = [at EXCEPT ![t] = "idle"] /\ t \notin room.parked
        /\ room' = RUnlocked(RUnlocked(room, t), t)
  BY ThreadsAre DEF RenegotiationDone, Goes, InRoom
<1>2. room \in Mutexes(Threads) /\ at \in [Threads -> Points] /\ Exclusive(room)
  BY DEF LockInv, LockTypes, LocksHeld
<1>3. room.holds[t] = 2
  BY <1>1, <1>2, DepthIs DEF Depth, InRoom
<1>4. /\ room' \in Mutexes(Threads) /\ Exclusive(room') /\ room'.parked = room.parked
      /\ room'.writer = room.writer
      /\ room'.holds[t] = 0 /\ \A x \in Threads \ {t} : room'.holds[x] = room.holds[x]
  BY <1>1, <1>2, <1>3, RUnlockedTwice
<1>5. LocksOf(t)' /\ Owns(t)'
  <2>1. Owns(t)
    BY DEF LockInv, LocksHeld
  <2> QED BY <1>1, <1>2, <1>4, <2>1 DEF LocksOf, Depth, Owns, Writing
<1>6. ASSUME NEW x \in Threads \ {t} PROVE LocksOf(x)' /\ Owns(x)'
  <2>1. LocksOf(x) /\ Owns(x) /\ at'[x] = at[x]
    BY <1>1, <1>2 DEF LockInv, LocksHeld
  <2> QED BY <1>4, <2>1 DEF LocksOf, Owns
<1> QED BY <1>1, <1>2, <1>4, <1>5, <1>6 DEF LockInv, LockTypes, LocksHeld, Points

LEMMA LocksOfReader ==
  ASSUME LockInv, NEW c \in Clients,
         \/ RoomStateSync(c) \/ SeatRequest(c) \/ SubscribeCoHost(c) \/ ReadAnswer(c)
         \/ DirectSend(c) \/ RelaySeatRequest(c) \/ SetLocalAnswer(c) \/ ReadFails(c)
  PROVE  LockInv'
<1>1. Reader(c) \in Threads /\ at \in [Threads -> Points]
  BY ThreadsAre DEF LockInv, LockTypes
<1>2. /\ room' = room
      /\ \/ at' = at
         \/ /\ at[Reader(c)] \in {"read", "direct", "relay", "answer"}
            /\ \E to \in {"read", "direct", "relay", "answer", "leave", "pli"} :
                 at' = [at EXCEPT ![Reader(c)] = to]
  BY DEF RoomStateSync, SeatRequest, SubscribeCoHost, ReadAnswer, DirectSend,
         RelaySeatRequest, SetLocalAnswer, ReadFails, ReadsRoom, Reads, Goes
<1> QED BY <1>1, <1>2, LocksMove DEF Points, Depth, Writing

LEMMA LocksOfHub ==
  ASSUME LockInv, NEW c \in Clients, HubReceives(c)
  PROVE  LockInv'
<1>1. /\ Reader(c) \in Threads /\ Reader(c) # Hub /\ Hub \in Threads
      /\ at \in [Threads -> Points]
  BY ThreadsAre DEF LockInv, LockTypes
<1>2. PICK to \in {"lock", "broadcast"}, left \in {at[Reader(c)], "gone"} :
         /\ at' = [at EXCEPT ![Hub] = to, ![Reader(c)] = left]
         /\ at[Reader(c)] # "leave" => left = at[Reader(c)]
  BY <1>1 DEF HubReceives
<1>3. room' = room /\ at[Hub] = "idle"
  BY DEF HubReceives
<1>4. at' \in [Threads -> Points]
  BY <1>1, <1>2 DEF Points
<1>5. ASSUME NEW t \in Threads
      PROVE  /\ Depth(at'[t]) = Depth(at[t]) /\ (at'[t] = "nested" => at[t] = "nested")
             /\ at'[t] \in Writing <=> at[t] \in Writing
  BY <1>1, <1>2, <1>3 DEF Depth, Writing
<1> QED BY <1>3, <1>4, <1>5, LocksMove

LEMMA LocksOfTell ==
  ASSUME LockInv, NEW t \in Threads, Tell(t)
  PROVE  LockInv'
<1>1. CASE LockRoom(t)
  BY <1>1, LocksLock DEF LockRoom, Points, Depth, Writing
<1>2. CASE SetInRoom(t)
  BY <1>2, LocksUnlock DEF SetInRoom, Points, Depth, Writing
<1>3. CASE BroadcastToRoom(t)
  <2>1. RLocks(t, "broadcast", "tell") /\ at[t] = "broadcast"
    BY <1>3 DEF BroadcastToRoom, RLocks, Goes
  <2>2. room.holds[t] = 0 /\ t \notin room.parked
    BY <2>1 DEF LockInv, LockTypes, LocksHeld, LocksOf, Depth, Mutexes
  <2> QED BY <2>1, <2>2, LocksRLock DEF Points, Depth, Writing
<1>4. CASE TellRoom(t)
  BY <1>4, LocksRUnlock DEF TellRoom, AfterBroadcast, Points, Depth, Writing
<1> QED BY <1>1, <1>2, <1>3, <1>4 DEF Tell

LEMMA LocksOfRenegotiate ==
  ASSUME LockInv, NEW p \in Publishers, Renegotiate(p)
  PROVE  LockInv'
<1>1. Track(p) \in Threads /\ at \in [Threads -> Points]
  BY ThreadsAre DEF LockInv, LockTypes
<1>2. CASE AddTrackAndRenegotiate(p)
  <2>1. RLocks(Track(p), "renegotiate", "offer") /\ at[Track(p)] = "renegotiate"
    BY <1>2 DEF AddTrackAndRenegotiate, RLocks, Goes
  <2>2. room.holds[Track(p)] = 0 /\ Track(p) \notin room.parked
    BY <1>1, <2>1 DEF LockInv, LockTypes, LocksHeld, LocksOf, Depth, Mutexes
  <2> QED BY <1>1, <2>1, <2>2, LocksRLock DEF Points, Depth, Writing
<1>3. ASSUME NEW c \in Clients, RenegotiateClient(p, c) PROVE LockInv'
  <2>1. /\ room' = room /\ at[Track(p)] = "offer" /\ InRoom(Track(p))
        /\ \E to \in {"offer", "nested"} : at' = [at EXCEPT ![Track(p)] = to]
    BY <1>3 DEF RenegotiateClient, Goes
  <2> QED BY <1>1, <2>1, LocksMove DEF Points, Depth, Writing
<1>4. CASE GetHostPeerConnection(p)
  <2>1. RLocks(Track(p), "nested", "hostPC") /\ at[Track(p)] = "nested"
    BY <1>4 DEF GetHostPeerConnection, RLocks, Goes
  <2>2. room.holds[Track(p)] = 1 /\ Track(p) \notin room.parked
    BY <1>1, <2>1 DEF LockInv, LocksHeld, LocksOf, Depth
  <2> QED BY <1>1, <2>1, <2>2, LocksRLock DEF Points, Depth, Writing
<1>5. CASE RenegotiationDone(p)
  BY <1>5, LocksDone
<1> QED BY <1>2, <1>3, <1>4, <1>5 DEF Renegotiate

LEMMA LocksOfStep == LockInv /\ [Next]_vars => LockInv'
<1> SUFFICES ASSUME LockInv, [Next]_vars PROVE LockInv'
  OBVIOUS
<1> USE ThreadsAre
<1>1. CASE UNCHANGED vars
  BY <1>1 DEF LockInv, LockTypes, LocksHeld, LocksOf, Owns, vars, locks
<1>2. ASSUME NEW c \in Clients,
             TriggerICERestart(c) \/ Pump(c) \/ ConnectionFails(c)
      PROVE  LockInv'
  <2>1. UNCHANGED <<room, at>>
    BY <1>2 DEF TriggerICERestart, Pump, PumpTakes, PumpWrites, PumpEnds, ConnectionFails, locks
  <2> QED BY <2>1 DEF LockInv, LockTypes, LocksHeld, LocksOf, Owns
<1>3. ASSUME NEW c \in Clients, SendPLIToHost(c) PROVE LockInv'
  BY <1>3, LocksLock DEF SendPLIToHost, Points, Depth, Writing
<1>4. ASSUME NEW c \in Clients, SendPLIThrottled(c) PROVE LockInv'
  BY <1>4, LocksUnlock DEF SendPLIThrottled, Points, Depth, Writing
<1>5. CASE StartTimer
  BY <1>5, LocksLock DEF StartTimer, Points, Depth, Writing
<1>6. CASE CloseSend
  BY <1>6, LocksUnlock DEF CloseSend, Points, Depth, Writing
<1>7. ASSUME NEW p \in Publishers, TrackArrives(p) PROVE LockInv'
  <2>1. room' = room /\ at[Track(p)] = "idle" /\ at' = [at EXCEPT ![Track(p)] = "lock"]
    BY <1>7 DEF TrackArrives, Goes
  <2> QED BY <2>1, LocksMove DEF LockInv, LockTypes, Points, Depth, Writing
<1>8. ASSUME NEW p \in Publishers, OnTrack(p) PROVE LockInv'
  BY <1>8, LocksOfTell, LocksOfRenegotiate DEF OnTrack
<1> QED BY <1>1, <1>2, <1>3, <1>4, <1>5, <1>6, <1>7, <1>8, LocksOfReader, LocksOfHub,
           LocksOfTell, RenegotiationAssumption
        DEF Next, Handle, RunHub, RenegotiationAssumption

-----------------------------------------------------------------------------
(* The channels, the pumps and the offers.                                  *)

SocketTypes ==
    /\ waiting \in [Clients -> 0..Cap]
    /\ closed \in [Clients -> BOOLEAN] /\ conn \in [Clients -> BOOLEAN]
    /\ pump \in [Clients -> {"select", "write", "gone"}]
PeerTypes ==
    /\ signaling \in [Clients -> {"stable", "offered", "answering", "closed"}]
    /\ offers \in [Clients -> [Places -> Nat]]
    /\ dropped \in [Clients -> BOOLEAN]

OneOffer(c) ==
    conn[c] /\ signaling[c] # "closed" =>
        /\ Outstanding(c) = IF signaling[c] = "offered" /\ ~dropped[c] THEN 1 ELSE 0
        /\ dropped[c] => signaling[c] = "offered"
OfferInv == SocketTypes /\ PeerTypes /\ \A c \in Clients : OneOffer(c)

LEMMA SafeSendTypes ==
  ASSUME SocketTypes, NEW cs, SafeSend(cs)
  PROVE  waiting' \in [Clients -> 0..Cap]
BY RenegotiationAssumption DEF RenegotiationAssumption, SocketTypes, SafeSend, Takes

LEMMA OffersAre ==
  ASSUME PeerTypes, NEW c \in Clients
  PROVE  /\ offers[c] \in [Places -> Nat]
         /\ offers[c]["send"] \in Nat /\ offers[c]["frame"] \in Nat /\ offers[c]["browser"] \in Nat
         /\ Outstanding(c) \in Nat
BY DEF PeerTypes, Places, Outstanding

LEMMA PeersKept ==
  ASSUME OfferInv, UNCHANGED <<closed, conn, pump, peer>>, waiting' \in [Clients -> 0..Cap]
  PROVE  OfferInv'
BY DEF OfferInv, SocketTypes, PeerTypes, OneOffer, Outstanding, peer

LEMMA OfferKeeps ==
  ASSUME OfferInv, NEW c \in Clients, Offer(c)
  PROVE  OfferInv'
<1>1. CASE UNCHANGED <<socket, peer>>
  BY <1>1 DEF OfferInv, SocketTypes, PeerTypes, OneOffer, Outstanding, peer, socket
<1>2. CASE ~UNCHANGED <<socket, peer>>
  <2>1. /\ signaling[c] = "stable" /\ SendOffer(c) /\ SafeSend({c})
        /\ signaling' = [signaling EXCEPT ![c] = "offered"]
        /\ UNCHANGED <<closed, conn, pump>>
    BY <1>2 DEF Offer, SendOffer
  <2>2. PeerTypes /\ SocketTypes /\ \A x \in Clients : OneOffer(x)
    BY DEF OfferInv
  <2>3. SocketTypes'
    BY <2>1, <2>2, SafeSendTypes DEF SocketTypes
  <2>4. /\ dropped' = [dropped EXCEPT ![c] = @ \/ (conn[c] /\ ~Takes(c))]
        /\ offers' = IF Takes(c) /\ conn[c] THEN [offers EXCEPT ![c]["send"] = @ + 1] ELSE offers
    BY <2>1 DEF SendOffer
  <2>5. Takes(c) \in BOOLEAN /\ conn[c] \in BOOLEAN /\ dropped[c] \in BOOLEAN
    BY <2>2 DEF Takes, SocketTypes, PeerTypes
  <2>6. PeerTypes'
    <3>1. offers' \in [Clients -> [Places -> Nat]]
      BY <2>2, <2>4, OffersAre DEF PeerTypes, Places
    <3>2. dropped' \in [Clients -> BOOLEAN]
      BY <2>2, <2>4, <2>5 DEF PeerTypes
    <3> QED BY <2>1, <2>2, <3>1, <3>2 DEF PeerTypes
  <2>7. OneOffer(c)'
    <3>1. OneOffer(c)
      BY <2>2
    <3>2. conn[c] => Outstanding(c) = 0 /\ ~dropped[c]
      BY <2>1, <3>1 DEF OneOffer
    <3>3. CASE Takes(c) /\ conn[c]
      <4>1. Outstanding(c)' = Outstanding(c) + 1
        BY <2>2, <2>4, <3>3, OffersAre DEF PeerTypes, Places, Outstanding
      <4>2. ~dropped'[c]
        BY <2>2, <2>4, <3>2, <3>3 DEF PeerTypes
      <4>3. signaling'[c] = "offered"
        BY <2>1, <2>2 DEF PeerTypes
      <4> QED BY <3>2, <3>3, <4>1, <4>2, <4>3 DEF OneOffer
    <3>4. CASE ~Takes(c) /\ conn[c]
      <4>1. Outstanding(c)' = Outstanding(c)
        BY <2>4, <3>4 DEF Outstanding
      <4>2. dropped'[c]
        BY <2>2, <2>4, <3>4 DEF PeerTypes
      <4>3. signaling'[c] = "offered"
        BY <2>1, <2>2 DEF PeerTypes
      <4> QED BY <3>2, <3>4, <4>1, <4>2, <4>3 DEF OneOffer
    <3>5. CASE ~conn[c]
      BY <2>1, <3>5 DEF OneOffer
    <3> QED BY <3>3, <3>4, <3>5
  <2>8. ASSUME NEW x \in Clients \ {c} PROVE OneOffer(x)'
    <3>1. OneOffer(x) /\ conn'[x] = conn[x] /\ signaling'[x] = signaling[x]
      BY <2>1, <2>2 DEF PeerTypes
    <3>2. dropped'[x] = dropped[x] /\ offers'[x] = offers[x]
      BY <2>2, <2>4 DEF PeerTypes
    <3> QED BY <3>1, <3>2 DEF OneOffer, Outstanding
  <2> QED BY <2>3, <2>6, <2>7, <2>8 DEF OfferInv
<1> QED BY <1>1, <1>2

LEMMA AnswerKeeps ==
  ASSUME OfferInv, NEW c \in Clients, ReadAnswer(c)
  PROVE  OfferInv'
<1>1. /\ offers[c]["browser"] > 0 /\ conn[c]
      /\ offers' = [offers EXCEPT ![c]["browser"] = @ - 1]
      /\ signaling' = IF signaling[c] = "offered" THEN [signaling EXCEPT ![c] = "stable"]
                                                  ELSE signaling
      /\ UNCHANGED <<waiting, closed, conn, pump, dropped>>
  BY DEF ReadAnswer, Reads, socket
<1>2. SocketTypes /\ PeerTypes /\ \A x \in Clients : OneOffer(x)
  BY DEF OfferInv
<1>3. SocketTypes'
  BY <1>1, <1>2 DEF SocketTypes
<1>4. PeerTypes'
  <2>1. offers' \in [Clients -> [Places -> Nat]]
    BY <1>1, <1>2, OffersAre DEF PeerTypes, Places
  <2> QED BY <1>1, <1>2, <2>1 DEF PeerTypes
<1>5. OneOffer(c)'
  <2>1. Outstanding(c)' = Outstanding(c) - 1 /\ Outstanding(c) > 0
    BY <1>1, <1>2, OffersAre DEF PeerTypes, Places, Outstanding
  <2>2. signaling[c] # "closed" => signaling[c] = "offered" /\ ~dropped[c] /\ Outstanding(c) = 1
    BY <1>1, <1>2, <2>1 DEF OneOffer
  <2>3. signaling[c] # "closed" => signaling'[c] = "stable"
    BY <1>1, <1>2, <2>2 DEF PeerTypes
  <2>4. signaling[c] = "closed" => signaling'[c] = "closed"
    BY <1>1
  <2> QED BY <1>1, <2>1, <2>2, <2>3, <2>4 DEF OneOffer
<1>6. ASSUME NEW x \in Clients \ {c} PROVE OneOffer(x)'
  <2>1. OneOffer(x) /\ signaling'[x] = signaling[x] /\ offers'[x] = offers[x]
    BY <1>1, <1>2 DEF PeerTypes
  <2> QED BY <1>1, <2>1 DEF OneOffer, Outstanding
<1> QED BY <1>3, <1>4, <1>5, <1>6 DEF OfferInv

\* A PeerConnection without an offer answers one of the client.
LEMMA AnsweringKeeps ==
  ASSUME OfferInv, NEW c \in Clients, SubscribeCoHost(c) \/ SetLocalAnswer(c)
  PROVE  OfferInv'
<1>1. /\ UNCHANGED <<waiting, closed, conn, pump, offers, dropped>>
      /\ \/ signaling' = signaling
         \/ /\ signaling[c] \in {"stable", "answering"}
            /\ \E to \in {"stable", "answering"} : signaling' = [signaling EXCEPT ![c] = to]
  BY DEF SubscribeCoHost, SetLocalAnswer, socket
<1>2. SocketTypes /\ PeerTypes /\ \A x \in Clients : OneOffer(x)
  BY DEF OfferInv
<1>3. SocketTypes' /\ PeerTypes'
  BY <1>1, <1>2 DEF SocketTypes, PeerTypes
<1>4. ASSUME NEW x \in Clients PROVE OneOffer(x)'
  BY <1>1, <1>2 DEF PeerTypes, OneOffer, Outstanding
<1> QED BY <1>3, <1>4 DEF OfferInv

LEMMA PumpKeeps ==
  ASSUME OfferInv, NEW c \in Clients, PumpTakes(c) \/ PumpWrites(c)
  PROVE  OfferInv'
<1>1. /\ UNCHANGED <<closed, conn, signaling, dropped>>
      /\ waiting' = waiting \/ waiting' = [waiting EXCEPT ![c] = 0]
      /\ \E to \in {"select", "write"} : pump' = [pump EXCEPT ![c] = to]
  BY DEF PumpTakes, PumpWrites
<1>2. SocketTypes /\ PeerTypes /\ \A x \in Clients : OneOffer(x)
  BY DEF OfferInv
<1>3. SocketTypes'
  BY <1>1, <1>2, RenegotiationAssumption DEF SocketTypes, RenegotiationAssumption
<1>4. /\ offers' \in [Clients -> [Places -> Nat]]
      /\ Outstanding(c)' = Outstanding(c)
      /\ \A x \in Clients \ {c} : offers'[x] = offers[x]
  <2>1. CASE PumpTakes(c)
    <3>1. offers' = [offers EXCEPT ![c]["send"] = 0, ![c]["frame"] = @ + offers[c]["send"]]
      BY <2>1 DEF PumpTakes
    <3> QED BY <1>2, <3>1, OffersAre DEF PeerTypes, Places, Outstanding
  <2>2. CASE PumpWrites(c)
    <3>1. offers' = [offers EXCEPT ![c]["frame"] = 0, ![c]["browser"] = @ + offers[c]["frame"]]
      BY <2>2 DEF PumpWrites
    <3> QED BY <1>2, <3>1, OffersAre DEF PeerTypes, Places, Outstanding
  <2> QED BY <2>1, <2>2
<1>5. ASSUME NEW x \in Clients PROVE OneOffer(x)'
  <2>1. OneOffer(x) /\ Outstanding(x)' = Outstanding(x)
    BY <1>2, <1>4 DEF Outstanding
  <2> QED BY <1>1, <2>1 DEF OneOffer
<1> QED BY <1>1, <1>2, <1>3, <1>4, <1>5 DEF OfferInv, PeerTypes

LEMMA DisconnectedKeeps ==
  ASSUME OfferInv, NEW c \in Clients, Disconnected(c), UNCHANGED <<waiting, closed>>,
         pump' = pump \/ pump' = [pump EXCEPT ![c] = "gone"],
         signaling' = signaling \/ signaling' = [signaling EXCEPT ![c] = "closed"]
  PROVE  OfferInv'
<1>1. SocketTypes /\ PeerTypes /\ \A x \in Clients : OneOffer(x)
  BY DEF OfferInv
<1>2. SocketTypes'
  BY <1>1 DEF SocketTypes, Disconnected
<1>3. NoOffers \in [Places -> Nat]
  BY DEF NoOffers
<1>4. PeerTypes'
  BY <1>1, <1>3 DEF PeerTypes, Disconnected
<1>5. ASSUME NEW x \in Clients PROVE OneOffer(x)'
  <2>1. CASE x = c
    BY <1>1, <2>1 DEF Disconnected, OneOffer, SocketTypes
  <2>2. CASE x # c
    <3>1. OneOffer(x) /\ conn'[x] = conn[x] /\ signaling'[x] = signaling[x]
      BY <1>1, <2>2 DEF Disconnected, SocketTypes, PeerTypes
    <3>2. offers'[x] = offers[x] /\ dropped'[x] = dropped[x]
      BY <1>1, <2>2 DEF Disconnected, PeerTypes
    <3> QED BY <3>1, <3>2 DEF OneOffer, Outstanding
  <2> QED BY <2>1, <2>2
<1> QED BY <1>2, <1>4, <1>5 DEF OfferInv

LEMMA OffersOfStep == OfferInv /\ [Next]_vars => OfferInv'
<1> SUFFICES ASSUME OfferInv, [Next]_vars PROVE OfferInv'
  OBVIOUS
<1>1. ASSUME UNCHANGED <<socket, peer>> PROVE OfferInv'
  BY <1>1 DEF OfferInv, SocketTypes, PeerTypes, OneOffer, Outstanding, peer, socket
<1>2. ASSUME NEW cs, SafeSend(cs), UNCHANGED <<closed, conn, pump, peer>> PROVE OfferInv'
  BY <1>2, SafeSendTypes, PeersKept DEF OfferInv
<1>3. ASSUME NEW c \in Clients,
             \/ RoomStateSync(c) \/ SeatRequest(c) \/ DirectSend(c) \/ RelaySeatRequest(c)
             \/ SendPLIToHost(c) \/ SendPLIThrottled(c) \/ ReadFails(c)
      PROVE  OfferInv'
  <2>1. /\ UNCHANGED <<closed, conn, pump, peer>>
        /\ UNCHANGED waiting \/ SafeSend({c}) \/ SafeSend({Host})
    BY <1>3 DEF RoomStateSync, SeatRequest, DirectSend, RelaySeatRequest, SendPLIToHost,
                SendPLIThrottled, ReadFails, socket
  <2> QED BY <1>1, <1>2, <2>1 DEF socket
<1>4. ASSUME NEW c \in Clients, TriggerICERestart(c) PROVE OfferInv'
  BY <1>4, OfferKeeps DEF TriggerICERestart
<1>5. ASSUME NEW c \in Clients, PumpEnds(c) \/ ConnectionFails(c) \/ HubReceives(c)
      PROVE  OfferInv'
  BY <1>5, DisconnectedKeeps DEF PumpEnds, ConnectionFails, HubReceives
<1>6. ASSUME NEW t, Tell(t) PROVE OfferInv'
  <2>1. UNCHANGED <<closed, conn, pump, peer>> /\ (UNCHANGED waiting \/ SafeSend(Told))
    BY <1>6 DEF Tell, LockRoom, SetInRoom, BroadcastToRoom, TellRoom, socket
  <2> QED BY <1>1, <1>2, <2>1 DEF socket
<1>7. CASE StartTimer
  BY <1>1, <1>7 DEF StartTimer
<1>8. CASE CloseSend
  <2>1. /\ UNCHANGED <<waiting, conn, pump, peer>>
        /\ closed' = [closed EXCEPT ![leaving] = TRUE]
    BY <1>8 DEF CloseSend
  <2> QED BY <2>1 DEF OfferInv, SocketTypes, PeerTypes, OneOffer, Outstanding, peer
<1>9. ASSUME NEW p \in Publishers, TrackArrives(p) \/ OnTrack(p) PROVE OfferInv'
  <2>1. ASSUME NEW c \in Clients, RenegotiateClient(p, c) PROVE OfferInv'
    BY <1>1, <2>1, OfferKeeps DEF RenegotiateClient
  <2>2. ASSUME \/ TrackArrives(p) \/ AddTrackAndRenegotiate(p) \/ GetHostPeerConnection(p)
               \/ RenegotiationDone(p)
        PROVE  OfferInv'
    BY <1>1, <2>2 DEF TrackArrives, AddTrackAndRenegotiate, GetHostPeerConnection,
                      RenegotiationDone
  <2> QED BY <1>6, <1>9, <2>1, <2>2 DEF OnTrack, Renegotiate
<1>10. CASE UNCHANGED vars
  BY <1>1, <1>10 DEF vars
<1> QED BY <1>3, <1>4, <1>5, <1>6, <1>7, <1>8, <1>9, <1>10, AnswerKeeps, AnsweringKeeps,
           PumpKeeps, RenegotiationAssumption
        DEF Next, Handle, Pump, RunHub, RenegotiationAssumption

-----------------------------------------------------------------------------
MemberTypes ==
    /\ targets \in [Threads -> SUBSET Clients]
    /\ leaving \in Clients \cup {None} /\ hosted \in BOOLEAN

IInv == LockInv /\ MemberTypes /\ OfferInv

LEMMA InitInv == Init => IInv
<1> SUFFICES ASSUME Init PROVE IInv
  OBVIOUS
<1> USE RenegotiationAssumption DEF RenegotiationAssumption
<1>1. room \in Mutexes(Threads) /\ Exclusive(room) /\ room.parked = {}
      /\ room.writer = Nobody /\ \A t \in Threads : room.holds[t] = 0
  <2>1. room = [holds |-> [t \in Threads |-> 0], parked |-> {}, writer |-> Nobody,
                active |-> FALSE]
    BY DEF Init, Unheld
  <2> QED BY <2>1 DEF Mutexes, Exclusive
<1>2. \A t \in Threads : at[t] \in {"read", "idle"}
  BY DEF Init
<1>3. at \in [Threads -> Points]
  BY DEF Init, Points
<1>4. ASSUME NEW t \in Threads PROVE LocksOf(t) /\ Owns(t)
  BY <1>1, <1>2, ThreadsAre DEF LocksOf, Owns, Depth, Writing
<1>5. LockInv
  BY <1>1, <1>3, <1>4 DEF LockInv, LockTypes, LocksHeld
<1>6. MemberTypes
  BY DEF Init, MemberTypes
<1>7. SocketTypes /\ PeerTypes
  BY DEF Init, SocketTypes, PeerTypes, NoOffers
<1>8. ASSUME NEW c \in Clients PROVE OneOffer(c)
  BY DEF Init, OneOffer, Outstanding, NoOffers, Places
<1> QED BY <1>5, <1>6, <1>7, <1>8 DEF IInv, OfferInv

LEMMA MembersOfStep == MemberTypes /\ [Next]_vars => MemberTypes'
<1> SUFFICES ASSUME MemberTypes, [Next]_vars PROVE MemberTypes'
  OBVIOUS
<1>1. ASSUME UNCHANGED <<targets, members>> PROVE MemberTypes'
  BY <1>1 DEF MemberTypes, members
<1>2. ASSUME NEW c \in Clients, HubReceives(c) PROVE MemberTypes'
  BY <1>2 DEF HubReceives, MemberTypes
<1>3. ASSUME NEW t, Tell(t) PROVE MemberTypes'
  <2>1. CASE SetInRoom(t)
    BY <2>1 DEF SetInRoom, MemberTypes
  <2> QED BY <1>1, <1>3, <2>1 DEF Tell, LockRoom, BroadcastToRoom, TellRoom
<1>4. CASE CloseSend
  BY <1>4 DEF CloseSend, MemberTypes
<1>5. ASSUME NEW p \in Publishers, Renegotiate(p) PROVE MemberTypes'
  <2>1. CASE AddTrackAndRenegotiate(p)
    BY <2>1 DEF AddTrackAndRenegotiate, MemberTypes, members
  <2>2. ASSUME NEW c \in Clients, RenegotiateClient(p, c) PROVE MemberTypes'
    BY <2>2, ThreadsAre DEF RenegotiateClient, MemberTypes, members
  <2> QED BY <1>1, <1>5, <2>1, <2>2 DEF Renegotiate, GetHostPeerConnection, RenegotiationDone
<1>6. ASSUME NEW c \in Clients,
             \/ RoomStateSync(c) \/ SeatRequest(c) \/ SubscribeCoHost(c)
             \/ TriggerICERestart(c) \/ ReadAnswer(c) \/ Handle(c) \/ Pump(c)
             \/ ConnectionFails(c)
      PROVE  MemberTypes'
  BY <1>1, <1>6 DEF RoomStateSync, SeatRequest, SubscribeCoHost, TriggerICERestart,
     ReadAnswer, Handle, SendPLIToHost, SendPLIThrottled, DirectSend, RelaySeatRequest,
     SetLocalAnswer, ReadFails, Pump, PumpTakes, PumpWrites, PumpEnds, ConnectionFails, locks
<1>7. ASSUME StartTimer \/ \E p \in Publishers : TrackArrives(p) PROVE MemberTypes'
  BY <1>1, <1>7 DEF StartTimer, TrackArrives
<1>8. CASE UNCHANGED vars
  BY <1>1, <1>8 DEF vars, locks
<1> QED BY <1>2, <1>3, <1>4, <1>5, <1>6, <1>7, <1>8, RenegotiationAssumption
        DEF Next, RunHub, OnTrack, RenegotiationAssumption

LEMMA StepInv == IInv /\ [Next]_vars => IInv'
BY LocksOfStep, MembersOfStep, OffersOfStep DEF IInv

\* Every variable has its type; in particular no goroutine reads Room.mu more
\* than twice or lets go of it more often than it took it (room_manager.go).
THEOREM TypeCorrect == Spec => []TypeOK
<1>1. IInv => TypeOK
  BY DEF IInv, LockInv, LockTypes, Points, MemberTypes, OfferInv, SocketTypes, PeerTypes, TypeOK
<1> QED BY <1>1, InitInv, StepInv, PTL DEF Spec

\* As long as a PeerConnection and its client's connection stand, one offer of
\* the server is unanswered exactly if it waits for an answer and the offer was
\* not dropped (room_manager.go, AddTrackAndRenegotiate; client.go,
\* handleSDPAnswer, WritePump).
THEOREM OffersComeOne == Spec => []OneOfferAtATime
<1>1. IInv => OneOfferAtATime
  BY DEF IInv, OfferInv, OneOffer, OneOfferAtATime
<1> QED BY <1>1, InitInv, StepInv, PTL DEF Spec

\* At most one thread is between its Lock and its Unlock of Room.mu, and once it
\* has the lock nobody reads (models/room.go, Room.mu).
OneWriterNoReaders ==
    \A t \in Threads : at[t] \in Writing =>
        /\ \A u \in Threads \ {t} : at[u] \notin Writing
        /\ room.active => \A u \in Threads : room.holds[u] = 0

\* Room.mu excludes, however its nested and waiting read locks interleave.
THEOREM RoomLockExcludes == Spec => []OneWriterNoReaders
<1>1. IInv => OneWriterNoReaders
  <2> SUFFICES ASSUME IInv, NEW t \in Threads, at[t] \in Writing
               PROVE  /\ \A u \in Threads \ {t} : at[u] \notin Writing
                      /\ room.active => \A u \in Threads : room.holds[u] = 0
    BY DEF OneWriterNoReaders
  <2>1. Exclusive(room) /\ \A u \in Threads : Owns(u)
    BY DEF IInv, LockInv, LocksHeld
  <2>2. DOMAIN room.holds = Threads
    BY DEF IInv, LockInv, LockTypes, Mutexes
  <2> QED BY <2>1, <2>2 DEF Exclusive, Owns, NoReaders
<1> QED BY <1>1, InitInv, StepInv, PTL DEF Spec

-----------------------------------------------------------------------------
(* RoomManager.mu: the collector is its only reader, and where the collector is
   tells how often it has the read lock; a call that waits is parked, with one
   lock less than it will have. *)

GCHas(n) == rm.holds[GC] = n /\ GC \notin rm.parked
GCWillHave(n) == GCHas(n) \/ (rm.holds[GC] = n - 1 /\ GC \in rm.parked)

LocksOfGC ==
  /\ Exclusive(rm)
  /\ \A t \in Lockers \ {GC} : rm.holds[t] = 0 /\ t \notin rm.parked
  /\ gc.at \in {"idle", "next", "rlock", "unregister"} => GCHas(0)
  /\ gc.at = "enter" => GCWillHave(1)
  /\ gc.at = "rooms" => GCHas(1)
  /\ gc.at = "nested" => GCWillHave(2)

\* As long as the collector is among the rooms they do not change under it.
ScanSeesRooms == gc.at \in {"rooms", "nested"} => gc.todo \subseteq rooms

HubHasClient == hub.at # "select" => hub.client \in Peers

HubInv == HubTypeOK /\ LocksOfGC /\ HubHasClient

LEMMA HubThreadsAre ==
  /\ HubRun \in Lockers /\ GC \in Lockers /\ Writers \subseteq Lockers
  /\ \A r \in Rooms : Closer(r) \in Writers
  /\ \A m \in Makers : Maker(m) \in Writers
  /\ Nobody \notin Lockers
<1>1. Nobody # HubRun /\ Nobody # GC /\ \A x : Nobody # Closer(x) /\ Nobody # Maker(x)
  BY DEF Nobody, HubRun, GC, Closer, Maker
<1> QED BY <1>1 DEF Lockers, Writers

LEMMA InitHubInv == HubInit => HubInv
<1> SUFFICES ASSUME HubInit PROVE HubInv
  OBVIOUS
<1> USE HubThreadsAre
<1>1. rm \in Mutexes(Lockers) /\ rm.parked = {} /\ \A t \in Lockers : rm.holds[t] = 0
      /\ Exclusive(rm)
  BY DEF HubInit, Unheld, Mutexes, Nobody, Exclusive, Nobody
<1>2. HubTypeOK
  BY <1>1 DEF HubInit, HubTypeOK
<1>3. LocksOfGC /\ HubHasClient
  BY <1>1 DEF HubInit, LocksOfGC, GCHas, HubHasClient
<1> QED BY <1>2, <1>3 DEF HubInv

-----------------------------------------------------------------------------
(* A writer of the lock takes nothing from the collector.                   *)

LEMMA HubLockKeeps ==
  ASSUME HubInv, NEW t \in Lockers, rm' = Locked(rm, t), gc' = gc
  PROVE  rm' \in Mutexes(Lockers) /\ LocksOfGC'
<1>1. rm \in Mutexes(Lockers)
  BY DEF HubInv, HubTypeOK
<1>2. /\ rm' \in Mutexes(Lockers) /\ rm'.holds = rm.holds /\ rm'.parked = rm.parked
      /\ Exclusive(rm')
  BY <1>1, HubThreadsAre, LockedIsMutex
<1>3. LocksOfGC
  BY DEF HubInv
<1> QED BY <1>2, <1>3 DEF LocksOfGC, GCHas, GCWillHave

LEMMA HubUnlockKeeps ==
  ASSUME HubInv, rm' = Unlocked(rm), gc' = gc
  PROVE  rm' \in Mutexes(Lockers) /\ LocksOfGC'
<1>1. rm \in Mutexes(Lockers) /\ rm.parked \subseteq Lockers /\ GC \in Lockers
  BY HubThreadsAre DEF HubInv, HubTypeOK, Mutexes
<1>2. gc.at \in {"idle", "next", "rlock", "enter", "rooms", "nested", "unregister"}
  BY DEF HubInv, HubTypeOK
<1>3. \A t \in rm.parked : t = GC /\ rm.holds[GC] < 2
  BY <1>1, <1>2 DEF HubInv, LocksOfGC, GCHas, GCWillHave
<1>4. /\ rm' \in Mutexes(Lockers) /\ rm'.parked = {} /\ Exclusive(rm')
      /\ \A t \in Lockers : rm'.holds[t] =
                              IF t \in rm.parked THEN rm.holds[t] + 1 ELSE rm.holds[t]
  BY <1>1, <1>3, UnlockedIsMutex
<1> QED BY <1>1, <1>2, <1>3, <1>4 DEF HubInv, LocksOfGC, GCHas, GCWillHave

LEMMA GCTypes ==
  ASSUME HubTypeOK
  PROVE  /\ gc.at \in {"idle", "next", "rlock", "enter", "rooms", "nested", "unregister"}
         /\ gc.client \in Peers \cup {NoClient}
         /\ gc.left \subseteq Peers /\ gc.todo \subseteq Rooms
         /\ gc = [at |-> gc.at, client |-> gc.client, left |-> gc.left, todo |-> gc.todo]
BY DEF HubTypeOK

-----------------------------------------------------------------------------
LEMMA HubInvOfStep == HubInv /\ [HubNext]_hubVars => HubInv'
<1> SUFFICES ASSUME HubInv, [HubNext]_hubVars PROVE HubInv'
  OBVIOUS
<1> USE HubThreadsAre
<1>1. HubTypeOK /\ LocksOfGC /\ HubHasClient /\ rm \in Mutexes(Lockers)
  BY DEF HubInv, HubTypeOK
<1>2. CASE UNCHANGED hubVars
  BY <1>2 DEF HubInv, HubTypeOK, LocksOfGC, HubHasClient, GCHas, GCWillHave, hubVars
<1>3. ASSUME NEW c \in Peers,
             Accept(c) \/ FallSilent(c) \/ Pong(c) \/ HangUp(c) \/ ReaderFails(c) \/ HubRegisters(c)
      PROVE  HubInv'
  <2>1. UNCHANGED <<rm, gc, hub, writer, rooms, hosts, shut>>
    BY <1>3 DEF Accept, FallSilent, Pong, HangUp, ReaderFails, HubRegisters
  <2>2. /\ clients' \subseteq Peers /\ open' \subseteq Peers /\ silent' \subseteq Peers
        /\ reader' \in [Peers -> {"off", "joining", "reading", "leaving", "left"}]
    BY <1>3, <1>1 DEF HubTypeOK, Accept, FallSilent, Pong, HangUp, ReaderFails, HubRegisters
  <2> QED BY <1>1, <2>1, <2>2 DEF HubInv, HubTypeOK, LocksOfGC, HubHasClient, GCHas, GCWillHave
<1>4. ASSUME NEW c \in Peers, HubUnregisters(c) PROVE HubInv'
  <2>1. UNCHANGED <<rm, writer, rooms, hosts, shut, open, silent>>
        /\ clients' \subseteq Peers /\ hub' = [at |-> "lock", client |-> c]
    BY <1>4, <1>1 DEF HubUnregisters, HubTypeOK
  <2>2. /\ reader' \in [Peers -> {"off", "joining", "reading", "leaving", "left"}]
        /\ \/ gc' = gc
           \/ gc.at = "unregister" /\ gc' = [gc EXCEPT !.at = "next", !.client = NoClient]
    BY <1>4, <1>1 DEF HubUnregisters, HubTypeOK
  <2>3. /\ gc' \in [at : {"idle", "next", "rlock", "enter", "rooms", "nested", "unregister"},
                    client : Peers \cup {NoClient}, left : SUBSET Peers, todo : SUBSET Rooms]
        /\ gc'.at = gc.at \/ (gc.at = "unregister" /\ gc'.at = "next")
    BY <1>1, <2>2 DEF HubTypeOK
  <2> QED BY <1>1, <2>1, <2>2, <2>3 DEF HubInv, HubTypeOK, LocksOfGC, HubHasClient, GCHas, GCWillHave
<1>5. CASE HubLocks
  <2>1. rm' \in Mutexes(Lockers) /\ LocksOfGC'
    BY <1>5, HubLockKeeps DEF HubLocks
  <2> QED BY <1>5, <1>1, <2>1 DEF HubLocks, HubInv, HubTypeOK, HubHasClient
<1>6. CASE HubDisconnects
  <2>1. rm' \in Mutexes(Lockers) /\ LocksOfGC'
    BY <1>6, HubUnlockKeeps DEF HubDisconnects
  <2> QED BY <1>6, <1>1, <2>1 DEF HubDisconnects, HubInv, HubTypeOK, HubHasClient
<1>7. CASE HubClosesSend
  <2>1. hub.client \in Peers /\ hub' = [at |-> "select", client |-> NoClient]
    BY <1>7, <1>1 DEF HubClosesSend, HubTypeOK, HubHasClient
  <2>2. UNCHANGED <<rm, gc>> /\ shut' \subseteq Peers
    BY <1>7, <1>1, <2>1 DEF HubClosesSend, HubTypeOK
  <2>3. LocksOfGC'
    BY <1>1, <2>2 DEF LocksOfGC, GCHas, GCWillHave
  <2> QED BY <1>7, <1>1, <2>1, <2>2, <2>3 DEF HubClosesSend, HubInv, HubTypeOK, HubHasClient
<1>8. ASSUME NEW x \in Writers, WriterLocks(x) PROVE HubInv'
  <2>1. rm' \in Mutexes(Lockers) /\ LocksOfGC'
    BY <1>8, HubLockKeeps DEF WriterLocks
  <2> QED BY <1>8, <1>1, <2>1 DEF WriterLocks, HubInv, HubTypeOK, HubHasClient
<1>9. ASSUME NEW m \in Makers, NEW r \in Rooms, MakerCreates(m, r) PROVE HubInv'
  <2>1. rm' \in Mutexes(Lockers) /\ LocksOfGC'
    BY <1>9, HubUnlockKeeps DEF MakerCreates
  <2> QED BY <1>9, <1>1, <2>1 DEF MakerCreates, HubInv, HubTypeOK, HubHasClient
<1>10. ASSUME NEW r \in Rooms, CloserCloses(r) PROVE HubInv'
  <2>1. rm' \in Mutexes(Lockers) /\ LocksOfGC'
    BY <1>10, HubUnlockKeeps DEF CloserCloses
  <2> QED BY <1>10, <1>1, <2>1 DEF CloserCloses, HubInv, HubTypeOK, HubHasClient
<1>11. ASSUME NEW m \in Makers, MakerStarts(m) PROVE HubInv'
  BY <1>11, <1>1 DEF MakerStarts, HubInv, HubTypeOK, LocksOfGC, HubHasClient, GCHas, GCWillHave
<1>12. CASE GCStep
  <2>1. UNCHANGED <<clients, reader, silent, shut, rooms, hub, hosts>> /\ open' \subseteq Peers
    BY <1>12, <1>1 DEF GCStep, GCScans, GCTakes, GCRests, GCRLocks, GCEnters, GCClosesRoom,
                       GCRemovesViewer, GCNestedReturns, GCUnlocks, HubTypeOK
  <2>2. writer' \in [Writers -> {"idle", "lock", "write", "done"}]
    <3>1. CASE UNCHANGED writer
      BY <1>1, <3>1 DEF HubTypeOK
    <3>2. ASSUME NEW r \in Rooms, GCClosesRoom(r)
          PROVE  writer' \in [Writers -> {"idle", "lock", "write", "done"}]
      BY <1>1, <3>2 DEF GCClosesRoom, HubTypeOK
    <3> QED BY <1>12, <3>1, <3>2 DEF GCStep, GCScans, GCTakes, GCRests, GCRLocks, GCEnters,
                                     GCRemovesViewer, GCNestedReturns, GCUnlocks
  <2> DEFINE GCs == [at : {"idle", "next", "rlock", "enter", "rooms", "nested", "unregister"},
                     client : Peers \cup {NoClient}, left : SUBSET Peers, todo : SUBSET Rooms]
  <2>3. gc \in GCs
    BY <1>1 DEF HubTypeOK
  <2>4. SUFFICES rm' \in Mutexes(Lockers) /\ LocksOfGC' /\ gc' \in GCs
    BY <1>1, <2>1, <2>2 DEF HubInv, HubTypeOK, HubHasClient
  <2> DEFINE Goal == rm' \in Mutexes(Lockers) /\ LocksOfGC' /\ gc' \in GCs
  <2>5. CASE GCScans \/ GCRests
    <3>1. rm' = rm /\ gc.at \in {"idle", "next"}
      BY <2>5 DEF GCScans, GCRests
    <3>2. Zombies \in SUBSET Peers
      BY <1>1 DEF Zombies, HubTypeOK
    <3>3. gc' \in GCs /\ gc'.at \in {"idle", "next"}
      BY <2>5, <2>3, <3>2 DEF GCScans, GCRests
    <3> QED BY <1>1, <3>1, <3>3 DEF LocksOfGC, GCHas, GCWillHave
  <2>6. ASSUME NEW c \in Peers, GCTakes(c) PROVE Goal
    <3>1. gc' \in GCs /\ rm' = rm /\ gc.at = "next" /\ gc'.at = "rlock"
      BY <2>6, <2>3 DEF GCTakes
    <3> QED BY <1>1, <3>1 DEF LocksOfGC, GCHas, GCWillHave
  <2>7. CASE GCRLocks
    <3>1. gc' \in GCs /\ rm' = RLocked(rm, GC) /\ gc.at = "rlock" /\ gc'.at = "enter"
      BY <2>7, <2>3 DEF GCRLocks
    <3>2. GCHas(0)
      BY <1>1, <3>1 DEF LocksOfGC
    <3> QED BY <1>1, <3>1, <3>2, RLockedIsMutex DEF LocksOfGC, GCHas, GCWillHave
  <2>8. CASE GCEnters
    <3>1. gc' \in GCs /\ rm' = rm /\ gc.at = "enter" /\ gc'.at = "rooms" /\ rm.holds[GC] = 1
      BY <1>1, <2>8, <2>3 DEF GCEnters, HubTypeOK
    <3> QED BY <1>1, <3>1 DEF LocksOfGC, GCHas, GCWillHave
  <2>9. ASSUME NEW r \in Rooms, GCClosesRoom(r) PROVE Goal
    <3>1. gc' \in GCs /\ rm' = rm /\ gc'.at = gc.at
      BY <2>9, <2>3 DEF GCClosesRoom
    <3> QED BY <1>1, <3>1 DEF LocksOfGC, GCHas, GCWillHave
  <2>10. ASSUME NEW r \in Rooms, GCRemovesViewer(r) PROVE Goal
    <3>1. gc' \in GCs /\ rm' = RLocked(rm, GC) /\ gc.at = "rooms" /\ gc'.at = "nested"
      BY <2>10, <2>3 DEF GCRemovesViewer
    <3>2. GCHas(1)
      BY <1>1, <3>1 DEF LocksOfGC
    <3> QED BY <1>1, <3>1, <3>2, RLockedIsMutex DEF LocksOfGC, GCHas, GCWillHave
  <2>11. CASE GCNestedReturns
    <3>1. /\ gc' \in GCs /\ rm' = RUnlocked(rm, GC) /\ gc.at = "nested" /\ gc'.at = "rooms"
          /\ rm.holds[GC] = 2
      BY <2>11, <2>3 DEF GCNestedReturns
    <3>2. GC \notin rm.parked
      BY <1>1, <3>1 DEF LocksOfGC, GCHas, GCWillHave
    <3>3. rm.holds \in [Lockers -> 0 .. 2] /\ rm.holds[GC] > 0
      BY <1>1, <3>1, <3>2 DEF Mutexes, GCHas
    <3>4. /\ rm' \in Mutexes(Lockers) /\ rm'.parked = rm.parked
          /\ rm'.holds = [rm.holds EXCEPT ![GC] = @ - 1] /\ Exclusive(rm')
      BY <1>1, <3>1, <3>3, RUnlockedIsMutex DEF LocksOfGC
    <3> QED BY <1>1, <3>1, <3>2, <3>3, <3>4 DEF LocksOfGC, GCHas, GCWillHave
  <2>12. CASE GCUnlocks
    <3>1. gc' \in GCs /\ rm' = RUnlocked(rm, GC) /\ gc.at = "rooms" /\ gc'.at = "unregister"
      BY <2>12, <2>3 DEF GCUnlocks
    <3>2. GCHas(1)
      BY <1>1, <3>1 DEF LocksOfGC
    <3>3. rm.holds \in [Lockers -> 0 .. 2] /\ rm.holds[GC] > 0
      BY <1>1, <3>1, <3>2 DEF Mutexes, GCHas
    <3>4. /\ rm' \in Mutexes(Lockers) /\ rm'.parked = rm.parked
          /\ rm'.holds = [rm.holds EXCEPT ![GC] = @ - 1] /\ Exclusive(rm')
      BY <1>1, <3>1, <3>3, RUnlockedIsMutex DEF LocksOfGC
    <3> QED BY <1>1, <3>1, <3>2, <3>3, <3>4 DEF LocksOfGC, GCHas, GCWillHave
  <2> QED BY <1>12, <2>5, <2>6, <2>7, <2>8, <2>9, <2>10, <2>11, <2>12 DEF GCStep
<1> QED BY <1>2, <1>3, <1>4, <1>5, <1>6, <1>7, <1>8, <1>9, <1>10, <1>11, <1>12
        DEF HubNext, HubStep, MakerStep, CloserStep

-----------------------------------------------------------------------------
LEMMA ScanOfStep == HubInv /\ ScanSeesRooms /\ [HubNext]_hubVars => ScanSeesRooms'
<1> SUFFICES ASSUME HubInv, ScanSeesRooms, [HubNext]_hubVars PROVE ScanSeesRooms'
  OBVIOUS
<1>1. CASE UNCHANGED <<gc, rooms>>
  BY <1>1 DEF ScanSeesRooms
<1>2. ASSUME NEW r \in Rooms, CloserCloses(r) PROVE ScanSeesRooms'
  <2>1. rm.active /\ gc' = gc
    BY <1>2 DEF CloserCloses, Writes
  <2>2. rm \in Mutexes(Lockers) /\ LocksOfGC
    BY DEF HubInv, HubTypeOK
  <2>3. rm.holds[GC] = 0
    BY <2>1, <2>2, HubThreadsAre DEF LocksOfGC, Exclusive, NoReaders, Mutexes
  <2>4. gc.at \notin {"rooms", "nested"}
    BY <2>2, <2>3 DEF LocksOfGC, GCHas, GCWillHave
  <2> QED BY <2>1, <2>4 DEF ScanSeesRooms
<1>3. ASSUME NEW m \in Makers, NEW r \in Rooms, MakerCreates(m, r) PROVE ScanSeesRooms'
  BY <1>3 DEF MakerCreates, ScanSeesRooms
<1>4. CASE GCStep
  <2>1. rooms' = rooms
    BY <1>4 DEF GCStep, GCScans, GCTakes, GCRests, GCRLocks, GCEnters,
                GCClosesRoom, GCRemovesViewer, GCNestedReturns, GCUnlocks
  <2>2. \/ gc'.at \notin {"rooms", "nested"}
        \/ gc'.todo = rooms
        \/ gc.at \in {"rooms", "nested"} /\ gc'.todo \subseteq gc.todo
    BY <1>4, GCTypes DEF HubInv, GCStep, GCScans, GCTakes, GCRests, GCRLocks,
       GCEnters, GCClosesRoom, GCRemovesViewer, GCNestedReturns, GCUnlocks
  <2> QED BY <2>1, <2>2 DEF ScanSeesRooms
<1>5. ASSUME NEW c \in Peers, HubUnregisters(c) PROVE ScanSeesRooms'
  BY <1>5, GCTypes DEF HubInv, HubUnregisters, ScanSeesRooms
<1> QED BY <1>1, <1>2, <1>3, <1>4, <1>5
        DEF HubNext, HubStep, MakerStep, CloserStep, Accept, FallSilent, Pong,
            HangUp, ReaderFails, HubRegisters, HubLocks, HubDisconnects,
            HubClosesSend, MakerStarts, WriterLocks, hubVars

(* HubTypeOK: every variable keeps its type; in particular no read lock of
   RoomManager.mu is counted below zero or above two. *)
THEOREM HubTypeCorrect == HubSpec => []HubTypeOK
<1>1. HubInv => HubTypeOK
  BY DEF HubInv
<1> QED BY <1>1, InitHubInv, HubInvOfStep, PTL DEF HubSpec

(* NobodyHoldsTheLockAtTheHub: the collector holds no read lock where it waits
   for Hub.Run to receive, so Hub.Run never waits for the collector in turn. *)
THEOREM NoLockAtTheHub == HubSpec => []NobodyHoldsTheLockAtTheHub
<1>1. HubInv => NobodyHoldsTheLockAtTheHub
  BY DEF HubInv, LocksOfGC, GCHas, NobodyHoldsTheLockAtTheHub
<1> QED BY <1>1, InitHubInv, HubInvOfStep, PTL DEF HubSpec

(* ScanSeesRooms: what the collector has still to visit is in activeRooms, as
   no writer of the map runs while it ranges over it, though one may wait. *)
THEOREM RoomsStayForTheScan == HubSpec => []ScanSeesRooms
<1>1. HubInit => ScanSeesRooms
  BY DEF HubInit, ScanSeesRooms
<1> QED BY <1>1, InitHubInv, HubInvOfStep, ScanOfStep, PTL DEF HubSpec
=============================================================================
