--------------------------- MODULE PresenceProofs ---------------------------
(***************************************************************************)
(* For any users, sockets and limit: bans hold, the two tables of a room   *)
(* agree, the limit is exceeded by overlapping joins only, and what the    *)
(* clients were last told is true.                                         *)
(***************************************************************************)
EXTENDS Presence, FiniteSetTheorems, TLAPS

LEMMA SocketsRun == Sockets \subseteq Goroutines /\ Timer \in Goroutines /\ Timer \notin Sockets
    BY PresenceAssumption DEF Goroutines

-----------------------------------------------------------------------------
(* Type correctness; the goroutine of the timers never joins, and whoever is
   at work works for a user. *)

Typed ==
    /\ TypeOK
    /\ at[Timer] \notin Joining
    /\ \A g \in Goroutines : at[g] # "idle" => whom[g] \in Users

LEMMA TypedInit == Init => Typed
    BY SocketsRun DEF Init, Typed, TypeOK, Joining

LEMMA TypedStep == Typed /\ [Next]_vars => Typed'
<1> SUFFICES ASSUME Typed, [Next]_vars PROVE Typed'
    OBVIOUS
<1> USE SocketsRun
<1>1. CASE UNCHANGED vars
    BY <1>1 DEF Typed, TypeOK, vars, room, presence, local
<1>2. ASSUME NEW s \in Sockets, CheckJoin(s) PROVE Typed'
    <2>1. Owner[s] \in Users
        BY PresenceAssumption
    <2> QED BY <1>2, <2>1 DEF CheckJoin, Begin, Typed, TypeOK, Joining, room, presence
<1>3. ASSUME NEW s \in Sockets, NEW u \in Users, KickParticipant(s, u) PROVE Typed'
    BY <1>3 DEF KickParticipant, BeginRemoval, Begin, Typed, TypeOK, Joining, Removing, presence
<1>4. ASSUME NEW u \in Users, GraceOver(u) PROVE Typed'
    BY <1>4 DEF GraceOver, BeginRemoval, Begin, Typed, TypeOK, Joining, Removing, room, presence
<1>5. ASSUME NEW g \in Goroutines, AddParticipant(g) PROVE Typed'
    BY <1>5 DEF AddParticipant, Continue, Typed, TypeOK, Joining, presence
<1>6. ASSUME NEW g \in Goroutines, AddViewer(g) PROVE Typed'
    BY <1>6 DEF AddViewer, Continue, Typed, TypeOK, Joining, presence
<1>7. ASSUME NEW g \in Goroutines, EnqueuePresenceJoin(g) \/ EnqueuePresenceLeave(g) PROVE Typed'
    BY <1>7 DEF EnqueuePresenceJoin, EnqueuePresenceLeave, Continue, Typed, TypeOK, Joining, room
<1>8. ASSUME NEW g \in Goroutines, RemoveViewer(g) \/ RemoveParticipant(g) PROVE Typed'
    BY <1>8 DEF RemoveViewer, RemoveParticipant, Continue, Typed, TypeOK, Joining, Removing, presence
<1>9. CASE Batch
    BY <1>9 DEF Batch, FlushPresence, BroadcastPresenceBatch, Typed, TypeOK, room, local
<1> QED BY <1>1, <1>2, <1>3, <1>4, <1>5, <1>6, <1>7, <1>8, <1>9 DEF Next, Handle

(* TypeOK: every variable of Presence keeps its type. *)
THEOREM TypeCorrect == Spec => []TypeOK
<1>1. Typed => TypeOK
    BY DEF Typed
<1> QED BY <1>1, TypedInit, TypedStep, PTL DEF Spec

LEMMA TypedInvariant == Spec => []Typed
    BY TypedInit, TypedStep, PTL DEF Spec

(* What a step does to the goroutines: g is at a new place, for u; the others
   stay where they are. *)
Moves(g, step, u) ==
    /\ at'[g] = step /\ whom'[g] = u
    /\ \A h \in Goroutines \ {g} : at'[h] = at[h] /\ whom'[h] = whom[h]

LEMMA BeginMoves ==
    ASSUME Typed, NEW g \in Goroutines, NEW step, NEW u, Begin(g, step, u)
    PROVE  at[g] = "idle" /\ Moves(g, step, u)
    BY DEF Typed, TypeOK, Begin, Moves

LEMMA ContinueMoves ==
    ASSUME Typed, NEW g \in Goroutines, NEW from, NEW to, Continue(g, from, to)
    PROVE  at[g] = from /\ Moves(g, to, IF to = "idle" THEN None ELSE whom[g])
    BY DEF Typed, TypeOK, Continue, Moves

-----------------------------------------------------------------------------
(* PresenceShown: when no change of the participants waits for its entry in
   the queue or for the batcher, the clients were last sent who is there. *)
THEOREM PresenceIsShown == Spec => []PresenceShown
<1> USE SocketsRun
<1>1. Init => PresenceShown
    BY DEF Init, PresenceShown
<1>2. Typed /\ PresenceShown /\ [Next]_vars => PresenceShown'
    <2> SUFFICES ASSUME Typed, PresenceShown, [Next]_vars, Announced'
                 PROVE  shown' = participants'
        BY DEF PresenceShown
    <2>1. CASE UNCHANGED vars
        BY <2>1 DEF PresenceShown, Announced, vars, room, presence, local
    <2>0. ASSUME NEW g \in Goroutines, NEW step, NEW u, Begin(g, step, u),
                 UNCHANGED <<participants, queued, batcher, shown>>
          PROVE  shown' = participants'
        BY <2>0, BeginMoves DEF Announced, Moves, PresenceShown
    <2>2. ASSUME NEW s \in Sockets, CheckJoin(s) PROVE shown' = participants'
        BY <2>0, <2>2 DEF CheckJoin, room, presence
    <2>7. ASSUME NEW s \in Sockets, NEW u \in Users, KickParticipant(s, u)
          PROVE  shown' = participants'
        BY <2>0, <2>7 DEF KickParticipant, BeginRemoval, presence
    <2>8. ASSUME NEW u \in Users, GraceOver(u) PROVE shown' = participants'
        BY <2>0, <2>8 DEF GraceOver, BeginRemoval, room, presence
    <2>3. ASSUME NEW g \in Goroutines, AddParticipant(g) \/ AddViewer(g) \/ RemoveParticipant(g)
          PROVE  FALSE
        <3>1. at'[g] \in {"addViewer", "enqueueJoin", "enqueueLeave"}
            BY <2>3, ContinueMoves DEF AddParticipant, AddViewer, RemoveParticipant, Moves
        <3> QED BY <3>1 DEF Announced
    <2>4. ASSUME NEW g \in Goroutines, EnqueuePresenceJoin(g) \/ EnqueuePresenceLeave(g)
          PROVE  FALSE
        BY <2>4 DEF EnqueuePresenceJoin, EnqueuePresenceLeave, Announced
    <2>5. ASSUME NEW g \in Goroutines, RemoveViewer(g) PROVE shown' = participants'
        <3>1. Announced
            BY <2>5, ContinueMoves DEF RemoveViewer, Announced, Moves, presence
        <3> QED BY <2>5, <3>1 DEF PresenceShown, RemoveViewer, presence
    <2>6. CASE Batch
        BY <2>6 DEF Batch, FlushPresence, BroadcastPresenceBatch, Announced, room
    <2> QED BY <2>1, <2>2, <2>3, <2>4, <2>5, <2>6, <2>7, <2>8 DEF Next, Handle
<1> QED BY <1>1, <1>2, TypedInvariant, PTL DEF Spec

-----------------------------------------------------------------------------
(* A user who is banned while his join is past the ban check is crossed. *)
LateJoinsCross ==
    \A s \in Sockets : at[s] \in {"addParticipant", "addViewer"} =>
        (whom[s] \in banned => whom[s] \in crossed)

(* BanHolds: a banned user is not in the room, once his kick is over, unless
   his join had passed the ban check before. *)
THEOREM BansHold == Spec => []BanHolds
<1> USE SocketsRun
<1>1. Init => LateJoinsCross /\ BanHolds
    BY DEF Init, LateJoinsCross, BanHolds
<1>2. Typed /\ LateJoinsCross /\ [Next]_vars => LateJoinsCross'
    <2> SUFFICES ASSUME Typed, LateJoinsCross, [Next]_vars,
                        NEW t \in Sockets, at'[t] \in {"addParticipant", "addViewer"},
                        whom'[t] \in banned'
                 PROVE  whom'[t] \in crossed'
        BY DEF LateJoinsCross
    <2>1. CASE UNCHANGED vars
        BY <2>1 DEF LateJoinsCross, vars, room, local
    <2>2. ASSUME NEW s \in Sockets, CheckJoin(s) PROVE whom'[t] \in crossed'
        <3>1. Begin(s, "addParticipant", Owner[s]) /\ Owner[s] \notin banned /\ banned' = banned
            BY <2>2 DEF CheckJoin, room
        <3>2. t # s /\ at[t] = at'[t] /\ whom[t] = whom'[t] /\ whom[t] # Owner[s]
            BY <3>1, BeginMoves DEF Moves
        <3> QED BY <2>2, <3>1, <3>2 DEF LateJoinsCross, CheckJoin
    <2>3. ASSUME NEW g \in Goroutines, NEW u \in Users, BeginRemoval(g, u),
                 banned' \subseteq banned \cup {u}
          PROVE  whom'[t] \in crossed'
        <3>1. t # g /\ at[t] = at'[t] /\ whom[t] = whom'[t]
            BY <2>3, BeginMoves DEF BeginRemoval, Moves
        <3>2. whom[t] = u => OnTheWay(u)
            BY <3>1 DEF OnTheWay
        <3> QED BY <2>3, <3>1, <3>2 DEF LateJoinsCross, BeginRemoval
    <2>4. ASSUME NEW g \in Goroutines, NEW from, NEW to, Continue(g, from, to),
                 UNCHANGED <<banned, crossed>>, from = "addParticipant" \/ to # "addViewer",
                 to # "addParticipant"
          PROVE  whom'[t] \in crossed'
        BY <2>4, ContinueMoves DEF LateJoinsCross, Moves
    <2>5. ASSUME NEW g \in Goroutines, Handle(g) PROVE whom'[t] \in crossed'
        BY <2>4, <2>5 DEF Handle, AddParticipant, AddViewer, EnqueuePresenceJoin, RemoveViewer,
                          RemoveParticipant, EnqueuePresenceLeave, room
    <2>6. CASE Batch
        BY <2>6 DEF Batch, FlushPresence, BroadcastPresenceBatch, LateJoinsCross, room, local
    <2> QED BY <2>1, <2>2, <2>3, <2>5, <2>6 DEF Next, KickParticipant, GraceOver, room
<1>3. Typed /\ LateJoinsCross /\ BanHolds /\ [Next]_vars => BanHolds'
    <2> SUFFICES ASSUME Typed, LateJoinsCross, BanHolds, [Next]_vars,
                        NEW v \in (banned' \cap viewers') \ crossed'
                 PROVE  \E g \in Goroutines : at'[g] = "removeViewer" /\ whom'[g] = v
        BY DEF BanHolds
    <2> DEFINE Goal == \E g \in Goroutines : at'[g] = "removeViewer" /\ whom'[g] = v
    <2>1. CASE UNCHANGED vars
        BY <2>1 DEF BanHolds, vars, room, local
    <2>2. ASSUME NEW s \in Sockets, CheckJoin(s) PROVE Goal
        <3>1. v \in (banned \cap viewers) \ crossed
            BY <2>2 DEF CheckJoin, room
        <3>2. PICK g \in Goroutines : at[g] = "removeViewer" /\ whom[g] = v
            BY <3>1 DEF BanHolds
        <3>3. Begin(s, "addParticipant", Owner[s])
            BY <2>2 DEF CheckJoin
        <3> QED BY <3>2, <3>3, BeginMoves DEF Moves
    <2>3. ASSUME NEW h \in Goroutines, NEW u \in Users, BeginRemoval(h, u),
                 banned' \subseteq banned \cup {u}, viewers' = viewers
          PROVE  Goal
        <3>1. Begin(h, "removeViewer", u)
            BY <2>3 DEF BeginRemoval
        <3>2. at[h] = "idle" /\ Moves(h, "removeViewer", u)
            BY <3>1, BeginMoves
        <3>3. CASE v = u
            BY <3>2, <3>3 DEF Moves
        <3>4. CASE v # u
            <4>1. v \in (banned \cap viewers) \ crossed
                BY <2>3, <3>4 DEF BeginRemoval
            <4>2. PICK g \in Goroutines : at[g] = "removeViewer" /\ whom[g] = v
                BY <4>1 DEF BanHolds
            <4> QED BY <3>2, <4>2 DEF Moves
        <3> QED BY <3>3, <3>4
    <2>4. ASSUME NEW h \in Goroutines, Handle(h) PROVE Goal
        <3>1. CASE AddViewer(h)
            <4>1. h \in Sockets /\ at[h] = "addViewer" /\ Moves(h, "enqueueJoin", whom[h])
                BY <3>1, ContinueMoves DEF AddViewer, Continue, Typed, Joining, Goroutines
            <4>2. v \in (banned \cap viewers) \ crossed
                BY <3>1, <4>1 DEF AddViewer, LateJoinsCross
            <4>3. PICK g \in Goroutines : at[g] = "removeViewer" /\ whom[g] = v
                BY <4>2 DEF BanHolds
            <4> QED BY <4>1, <4>3 DEF Moves
        <3>2. CASE RemoveViewer(h)
            <4>1. at[h] = "removeViewer" /\ Moves(h, "removeParticipant", whom[h])
                BY <3>2, ContinueMoves DEF RemoveViewer
            <4>2. v \in (banned \cap viewers) \ crossed /\ v # whom[h]
                BY <3>2 DEF RemoveViewer
            <4>3. PICK g \in Goroutines : at[g] = "removeViewer" /\ whom[g] = v
                BY <4>2 DEF BanHolds
            <4> QED BY <4>1, <4>2, <4>3 DEF Moves
        <3>3. ASSUME NEW from, NEW to, Continue(h, from, to), from # "removeViewer",
                     UNCHANGED <<viewers, banned, crossed>>
              PROVE  Goal
            <4>1. PICK g \in Goroutines : at[g] = "removeViewer" /\ whom[g] = v
                BY <3>3 DEF BanHolds
            <4> QED BY <3>3, <4>1, ContinueMoves DEF Moves
        <3> QED BY <2>4, <3>1, <3>2, <3>3
                DEF Handle, AddParticipant, EnqueuePresenceJoin, RemoveParticipant,
                    EnqueuePresenceLeave, room
    <2>5. CASE Batch
        BY <2>5 DEF Batch, FlushPresence, BroadcastPresenceBatch, BanHolds, room, local
    <2> QED BY <2>1, <2>2, <2>3, <2>4, <2>5 DEF Next, KickParticipant, GraceOver, room
<1> QED BY <1>1, <1>2, <1>3, TypedInvariant, PTL DEF Spec

-----------------------------------------------------------------------------
(* What a step does to those on the way. *)

At(u, steps) == \E g \in Goroutines : at[g] \in steps /\ whom[g] = u

LEMMA WayIsAt ==
    ASSUME Typed, NEW u
    PROVE  /\ OnTheWay(u) <=> At(u, {"addParticipant", "addViewer"})
           /\ OnTheWayOut(u) <=> At(u, {"removeViewer", "removeParticipant"})
    BY SocketsRun DEF OnTheWay, OnTheWayOut, At, Typed, Joining, Goroutines

LEMMA AtElsewhere ==
    ASSUME NEW g \in Goroutines, NEW step, NEW u, Moves(g, step, u), NEW v, NEW steps,
           v # u \/ step \notin steps, v # whom[g] \/ at[g] \notin steps
    PROVE  At(v, steps)' <=> At(v, steps)
    BY DEF Moves, At

LEMMA AtAfter ==
    ASSUME NEW g \in Goroutines, NEW step, NEW u, Moves(g, step, u), NEW steps, step \in steps
    PROVE  At(u, steps)'
    BY DEF Moves, At

LEMMA AtBefore ==
    ASSUME NEW g \in Goroutines, NEW step, NEW u, Moves(g, step, u), NEW v, NEW steps,
           v # u \/ step \notin steps, At(v, steps)'
    PROVE  At(v, steps)
    BY DEF Moves, At

(* While a join of u, and no removal, is under way, u is a participant or a
   join is about to make it one; the other way round for a removal. *)
Ordered(u) ==
    LET coming == At(u, {"addParticipant", "addViewer"})
        going == At(u, {"removeViewer", "removeParticipant"})
    IN /\ ~(coming /\ going)
       /\ coming => u \in participants \/ At(u, {"addParticipant"})
       /\ going => u \notin viewers \/ At(u, {"removeViewer"})
       /\ ~coming /\ ~going => (u \in viewers <=> u \in participants)

AllOrdered == \A u \in Users \ crossed : Ordered(u)

LEMMA OrderedStep == Typed /\ AllOrdered /\ [Next]_vars => AllOrdered'
<1> SUFFICES ASSUME Typed, AllOrdered, [Next]_vars, NEW v \in Users \ crossed'
             PROVE  Ordered(v)'
    BY DEF AllOrdered
<1> USE SocketsRun
<1>0. ASSUME v \notin crossed, v \in viewers' <=> v \in viewers,
             v \in participants' <=> v \in participants,
             \A steps \in SUBSET (Joining \cup Removing) : At(v, steps)' <=> At(v, steps)
      PROVE  Ordered(v)'
    <2>1. Ordered(v)
        BY <1>0 DEF AllOrdered
    <2>2. /\ At(v, {"addParticipant", "addViewer"})' <=> At(v, {"addParticipant", "addViewer"})
          /\ At(v, {"addParticipant"})' <=> At(v, {"addParticipant"})
          /\ At(v, {"removeViewer", "removeParticipant"})' <=> At(v, {"removeViewer", "removeParticipant"})
          /\ At(v, {"removeViewer"})' <=> At(v, {"removeViewer"})
        BY <1>0 DEF Joining, Removing
    <2> QED BY <1>0, <2>1, <2>2 DEF Ordered
<1>1. CASE UNCHANGED vars
    BY <1>0, <1>1 DEF vars, room, local, At
<1>2. ASSUME NEW s \in Sockets, CheckJoin(s) PROVE Ordered(v)'
    <2>1. at[s] = "idle" /\ Moves(s, "addParticipant", Owner[s])
        BY <1>2, BeginMoves DEF CheckJoin
    <2>2. CASE v = Owner[s]
        <3>1. ~At(v, {"removeViewer", "removeParticipant"})
            BY <1>2, <2>2, WayIsAt DEF CheckJoin
        <3>2. ~At(v, {"removeViewer", "removeParticipant"})'
            BY <2>1, <3>1, AtBefore
        <3>3. At(v, {"addParticipant"})' /\ At(v, {"addParticipant", "addViewer"})'
            BY <2>1, <2>2, AtAfter
        <3> QED BY <3>2, <3>3 DEF Ordered
    <2>3. CASE v # Owner[s]
        <3>1. v \notin crossed
            BY <1>2, <2>3 DEF CheckJoin
        <3>2. \A steps \in SUBSET (Joining \cup Removing) : At(v, steps)' <=> At(v, steps)
            BY <2>1, <2>3, AtElsewhere DEF Joining, Removing
        <3> QED BY <1>0, <1>2, <3>1, <3>2 DEF CheckJoin, room
    <2> QED BY <2>2, <2>3
<1>3. ASSUME NEW g \in Goroutines, NEW u \in Users, BeginRemoval(g, u),
             UNCHANGED <<viewers, participants>>
      PROVE  Ordered(v)'
    <2>1. at[g] = "idle" /\ Moves(g, "removeViewer", u)
        BY <1>3, BeginMoves DEF BeginRemoval
    <2>2. CASE v = u
        <3>1. ~At(v, {"addParticipant", "addViewer"})
            BY <1>3, <2>2, WayIsAt DEF BeginRemoval
        <3>2. ~At(v, {"addParticipant", "addViewer"})'
            BY <2>1, <3>1, AtBefore
        <3>3. At(v, {"removeViewer"})' /\ At(v, {"removeViewer", "removeParticipant"})'
            BY <2>1, <2>2, AtAfter
        <3> QED BY <3>2, <3>3 DEF Ordered
    <2>3. CASE v # u
        <3>1. v \notin crossed
            BY <1>3, <2>3 DEF BeginRemoval
        <3>2. \A steps \in SUBSET (Joining \cup Removing) : At(v, steps)' <=> At(v, steps)
            BY <2>1, <2>3, AtElsewhere DEF Joining, Removing
        <3> QED BY <1>0, <1>3, <3>1, <3>2
    <2> QED BY <2>2, <2>3
<1>4. ASSUME NEW g \in Goroutines, Handle(g) PROVE Ordered(v)'
    <2>1. v \notin crossed /\ Ordered(v)
        BY <1>4 DEF AllOrdered, Handle, AddParticipant, AddViewer, EnqueuePresenceJoin,
                    RemoveViewer, RemoveParticipant, EnqueuePresenceLeave
    <2>2. ASSUME NEW step, NEW u, Moves(g, step, u), v # whom[g], u \in {whom[g], None}
          PROVE  \A steps \in SUBSET (Joining \cup Removing) : At(v, steps)' <=> At(v, steps)
        BY <2>2, PresenceAssumption, AtElsewhere
    <2>3. CASE AddParticipant(g)
        <3>1. at[g] = "addParticipant" /\ Moves(g, "addViewer", whom[g])
            BY <2>3, ContinueMoves DEF AddParticipant
        <3>2. CASE v # whom[g]
            BY <1>0, <2>1, <2>2, <2>3, <3>1, <3>2 DEF AddParticipant
        <3>3. CASE v = whom[g]
            <4>1. At(v, {"addParticipant", "addViewer"}) /\ At(v, {"addParticipant", "addViewer"})'
                BY <3>1, <3>3 DEF Moves, At
            <4>2. ~At(v, {"removeViewer", "removeParticipant"})'
                BY <2>1, <3>1, <4>1, AtBefore DEF Ordered
            <4> QED BY <2>3, <3>3, <4>1, <4>2 DEF AddParticipant, Ordered
        <3> QED BY <3>2, <3>3
    <2>4. CASE AddViewer(g)
        <3>1. at[g] = "addViewer" /\ Moves(g, "enqueueJoin", whom[g])
            BY <2>4, ContinueMoves DEF AddViewer
        <3>2. CASE v # whom[g]
            BY <1>0, <2>1, <2>2, <2>4, <3>1, <3>2 DEF AddViewer
        <3>3. CASE v = whom[g]
            <4>1. At(v, {"addParticipant", "addViewer"})
                BY <3>1, <3>3 DEF At
            <4>2. ~At(v, {"removeViewer", "removeParticipant"})'
                BY <2>1, <3>1, <4>1, AtBefore DEF Ordered
            <4>3. v \in participants \/ At(v, {"addParticipant"})
                BY <2>1, <4>1 DEF Ordered
            <4>4. At(v, {"addParticipant"})' <=> At(v, {"addParticipant"})
                BY <3>1, AtElsewhere
            <4>5. At(v, {"addParticipant"})' => At(v, {"addParticipant", "addViewer"})'
                BY DEF At
            <4> QED BY <2>4, <3>3, <4>2, <4>3, <4>4, <4>5 DEF AddViewer, Ordered
        <3> QED BY <3>2, <3>3
    <2>5. CASE RemoveViewer(g)
        <3>1. at[g] = "removeViewer" /\ Moves(g, "removeParticipant", whom[g])
            BY <2>5, ContinueMoves DEF RemoveViewer
        <3>2. CASE v # whom[g]
            BY <1>0, <2>1, <2>2, <2>5, <3>1, <3>2 DEF RemoveViewer
        <3>3. CASE v = whom[g]
            <4>1. At(v, {"removeViewer", "removeParticipant"}) /\ At(v, {"removeViewer", "removeParticipant"})'
                BY <3>1, <3>3 DEF Moves, At
            <4>2. ~At(v, {"addParticipant", "addViewer"})'
                BY <2>1, <3>1, <4>1, AtBefore DEF Ordered
            <4> QED BY <2>5, <3>3, <4>1, <4>2 DEF RemoveViewer, Ordered
        <3> QED BY <3>2, <3>3
    <2>6. CASE RemoveParticipant(g)
        <3>1. at[g] = "removeParticipant" /\ Moves(g, "enqueueLeave", whom[g])
            BY <2>6, ContinueMoves DEF RemoveParticipant
        <3>2. CASE v # whom[g]
            BY <1>0, <2>1, <2>2, <2>6, <3>1, <3>2 DEF RemoveParticipant
        <3>3. CASE v = whom[g]
            <4>1. At(v, {"removeViewer", "removeParticipant"})
                BY <3>1, <3>3 DEF At
            <4>2. ~At(v, {"addParticipant", "addViewer"})'
                BY <2>1, <3>1, <4>1, AtBefore DEF Ordered
            <4>3. v \notin viewers \/ At(v, {"removeViewer"})
                BY <2>1, <4>1 DEF Ordered
            <4>4. At(v, {"removeViewer"})' <=> At(v, {"removeViewer"})
                BY <3>1, AtElsewhere
            <4>5. At(v, {"removeViewer"})' => At(v, {"removeViewer", "removeParticipant"})'
                BY DEF At
            <4> QED BY <2>6, <3>3, <4>2, <4>3, <4>4, <4>5 DEF RemoveParticipant, Ordered
        <3> QED BY <3>2, <3>3
    <2>7. CASE EnqueuePresenceJoin(g) \/ EnqueuePresenceLeave(g)
        <3>1. at[g] \in {"enqueueJoin", "enqueueLeave"} /\ Moves(g, "idle", None)
            BY <2>7, ContinueMoves DEF EnqueuePresenceJoin, EnqueuePresenceLeave
        <3>2. /\ At(v, {"addParticipant", "addViewer"})' <=> At(v, {"addParticipant", "addViewer"})
              /\ At(v, {"addParticipant"})' <=> At(v, {"addParticipant"})
              /\ At(v, {"removeViewer", "removeParticipant"})' <=> At(v, {"removeViewer", "removeParticipant"})
              /\ At(v, {"removeViewer"})' <=> At(v, {"removeViewer"})
            BY <3>1, AtElsewhere
        <3> QED BY <2>1, <2>7, <3>2
                DEF Ordered, EnqueuePresenceJoin, EnqueuePresenceLeave, room
    <2> QED BY <1>4, <2>3, <2>4, <2>5, <2>6, <2>7 DEF Handle
<1>5. CASE Batch
    BY <1>0, <1>5 DEF Batch, FlushPresence, BroadcastPresenceBatch, room, local, At
<1> QED BY <1>1, <1>2, <1>3, <1>4, <1>5 DEF Next, KickParticipant, GraceOver, room

(* TablesAgree: a user who neither comes nor goes, and whose last join and
   removal did not overlap, is in both tables of the room or in neither. *)
THEOREM TablesDoAgree == Spec => []TablesAgree
<1>1. Init => AllOrdered
    BY DEF Init, AllOrdered, Ordered, At
<1>2. Typed /\ AllOrdered => TablesAgree
    BY WayIsAt DEF AllOrdered, Ordered, TablesAgree
<1> QED BY <1>1, <1>2, OrderedStep, TypedInvariant, PTL DEF Spec

-----------------------------------------------------------------------------
(* At most one join that has passed the checks overlapped no other, and there
   is room for it. *)

Passed(s) == at[s] \in {"addParticipant", "addViewer"} /\ whom[s] \notin raced

OneHasPassed == \A s, t \in Sockets : Passed(s) /\ Passed(t) => s = t

HasItsPlace ==
    MaxViewers > 0 => \A s \in Sockets : Passed(s) =>
        Cardinality((viewers \ raced) \ {whom[s]}) < MaxViewers

LEMMA CardinalityOfUsers ==
    ASSUME NEW S, S \subseteq Users
    PROVE  /\ IsFiniteSet(S) /\ Cardinality(S) \in Nat
           /\ \A T \in SUBSET S : Cardinality(T) <= Cardinality(S)
           /\ \A x : Cardinality(S \cup {x}) <= Cardinality(S) + 1
<1>1. IsFiniteSet(S)
    BY PresenceAssumption, FS_Subset
<1>2. Cardinality(S) \in Nat
    BY <1>1, FS_CardinalityType
<1> QED BY <1>1, <1>2, FS_Subset, FS_AddElement

LEMMA OneHasPassedStep == Typed /\ OneHasPassed /\ [Next]_vars => OneHasPassed'
<1> SUFFICES ASSUME Typed, OneHasPassed, [Next]_vars,
                    NEW s \in Sockets, NEW t \in Sockets, Passed(s)', Passed(t)'
             PROVE  s = t
    BY DEF OneHasPassed
<1> USE SocketsRun
<1>0. ASSUME NEW x \in Sockets, Passed(x)', raced' = raced, NEW g \in Goroutines,
             NEW step, NEW u, Moves(g, step, u), step # "addParticipant",
             step = "addViewer" => at[g] = "addParticipant" /\ u = whom[g]
      PROVE  Passed(x)
    BY <1>0 DEF Passed, Moves
<1>1. CASE UNCHANGED vars
    BY <1>1 DEF OneHasPassed, Passed, vars, local
<1>2. ASSUME NEW j \in Sockets, CheckJoin(j) PROVE s = t
    <2>1. at[j] = "idle" /\ Moves(j, "addParticipant", Owner[j]) /\ Owner[j] \in Users
        BY <1>2, BeginMoves, PresenceAssumption DEF CheckJoin
    <2>2. CASE \E v \in Users : OnTheWay(v)
        <3>1. raced' = raced \cup {Owner[j]}
            BY <1>2, <2>2 DEF CheckJoin
        <3>2. s # j /\ t # j
            BY <2>1, <3>1 DEF Passed, Moves
        <3>3. Passed(s) /\ Passed(t)
            BY <2>1, <3>1, <3>2 DEF Passed, Moves
        <3> QED BY <3>3 DEF OneHasPassed
    <2>3. CASE ~\E v \in Users : OnTheWay(v)
        <3>1. ASSUME NEW x \in Sockets, Passed(x)', x # j PROVE FALSE
            <4>1. at[x] \in {"addParticipant", "addViewer"}
                BY <2>1, <3>1 DEF Moves, Passed
            <4>2. whom[x] \in Users
                BY <4>1 DEF Typed
            <4> QED BY <2>3, <4>1, <4>2 DEF OnTheWay
        <3> QED BY <3>1
    <2> QED BY <2>2, <2>3
<1>3. ASSUME NEW g \in Goroutines, NEW u, Begin(g, "removeViewer", u), raced' = raced
      PROVE  s = t
    <2>1. Moves(g, "removeViewer", u)
        BY <1>3, BeginMoves
    <2> QED BY <1>0, <1>3, <2>1 DEF OneHasPassed
<1>4. ASSUME NEW g \in Goroutines, Handle(g) PROVE s = t
    <2>1. ASSUME NEW from, NEW to, Continue(g, from, to), to # "addParticipant",
                 to = "addViewer" => from = "addParticipant"
          PROVE  Passed(s) /\ Passed(t)
        <3>1. raced' = raced
            BY <1>4 DEF Handle, AddParticipant, AddViewer, EnqueuePresenceJoin,
                        RemoveViewer, RemoveParticipant, EnqueuePresenceLeave
        <3>2. at[g] = from /\ Moves(g, to, IF to = "idle" THEN None ELSE whom[g])
            BY <2>1, ContinueMoves
        <3> QED BY <1>0, <2>1, <3>1, <3>2
    <2> QED BY <1>4, <2>1
            DEF OneHasPassed, Handle, AddParticipant, AddViewer, EnqueuePresenceJoin,
                RemoveViewer, RemoveParticipant, EnqueuePresenceLeave
<1>5. CASE Batch
    BY <1>5 DEF Batch, FlushPresence, BroadcastPresenceBatch, OneHasPassed, Passed, local
<1> QED BY <1>1, <1>2, <1>3, <1>4, <1>5 DEF Next, KickParticipant, GraceOver, BeginRemoval

LEMMA PlaceStep ==
    Typed /\ OneHasPassed /\ HasItsPlace /\ LimitHolds /\ [Next]_vars => (HasItsPlace /\ LimitHolds)'
<1> SUFFICES ASSUME Typed, OneHasPassed, HasItsPlace, LimitHolds, [Next]_vars, MaxViewers > 0
             PROVE  /\ Cardinality(viewers' \ raced') <= MaxViewers
                    /\ \A s \in Sockets : Passed(s)' =>
                         Cardinality((viewers' \ raced') \ {whom'[s]}) < MaxViewers
    BY DEF HasItsPlace, LimitHolds
<1> DEFINE Goal == /\ Cardinality(viewers' \ raced') <= MaxViewers
                   /\ \A s \in Sockets : Passed(s)' =>
                        Cardinality((viewers' \ raced') \ {whom'[s]}) < MaxViewers
<1> USE SocketsRun
<1>m. MaxViewers \in Nat /\ viewers \subseteq Users /\ viewers' \subseteq Users
    BY TypedStep, PresenceAssumption DEF Typed, TypeOK
<1>0. ASSUME viewers' \ raced' \subseteq viewers \ raced,
             \A s \in Sockets : Passed(s)' => Passed(s) /\ whom'[s] = whom[s]
      PROVE  Goal
    <2>1. Cardinality(viewers' \ raced') <= Cardinality(viewers \ raced)
          /\ Cardinality(viewers' \ raced') \in Nat /\ Cardinality(viewers \ raced) \in Nat
        BY <1>0, <1>m, CardinalityOfUsers
    <2>2. ASSUME NEW s \in Sockets, Passed(s)'
          PROVE  Cardinality((viewers' \ raced') \ {whom'[s]}) < MaxViewers
        <3>1. (viewers' \ raced') \ {whom'[s]} \subseteq (viewers \ raced) \ {whom[s]}
            BY <1>0, <2>2
        <3>2. /\ Cardinality((viewers' \ raced') \ {whom'[s]}) <= Cardinality((viewers \ raced) \ {whom[s]})
              /\ Cardinality((viewers' \ raced') \ {whom'[s]}) \in Nat
              /\ Cardinality((viewers \ raced) \ {whom[s]}) \in Nat
            BY <3>1, <1>m, CardinalityOfUsers
        <3>3. Cardinality((viewers \ raced) \ {whom[s]}) < MaxViewers
            BY <1>0, <2>2 DEF HasItsPlace
        <3> QED BY <3>2, <3>3, <1>m
    <2> QED BY <2>1, <2>2, <1>m DEF LimitHolds
<1>1. CASE UNCHANGED vars
    BY <1>0, <1>1 DEF Passed, vars, room, local
<1>2. ASSUME NEW j \in Sockets, CheckJoin(j) PROVE Goal
    <2>1. at[j] = "idle" /\ Moves(j, "addParticipant", Owner[j]) /\ Owner[j] \in Users
        BY <1>2, BeginMoves, PresenceAssumption DEF CheckJoin
    <2>2. viewers' = viewers /\ Cardinality(viewers) < MaxViewers
        BY <1>2 DEF CheckJoin, HasRoom, room
    <2>3. ASSUME NEW T, T \subseteq viewers PROVE Cardinality(T) < MaxViewers
        BY <1>m, <2>2, <2>3, CardinalityOfUsers
    <2> QED BY <1>m, <2>2, <2>3, CardinalityOfUsers
<1>3. ASSUME NEW g \in Goroutines, NEW u, Begin(g, "removeViewer", u), UNCHANGED <<raced, viewers>>
      PROVE  Goal
    <2>1. Moves(g, "removeViewer", u)
        BY <1>3, BeginMoves
    <2> QED BY <1>0, <1>3, <2>1 DEF Passed, Moves
<1>4. ASSUME NEW g \in Goroutines, AddViewer(g) PROVE Goal
    <2>1. g \in Sockets /\ at[g] = "addViewer" /\ Moves(g, "enqueueJoin", whom[g])
        BY <1>4, ContinueMoves DEF AddViewer, Continue, Typed, Joining, Goroutines
    <2>2. raced' = raced /\ viewers' = viewers \cup {whom[g]}
        BY <1>4 DEF AddViewer
    <2>3. \A s \in Sockets : Passed(s)' => s # g /\ Passed(s) /\ whom'[s] = whom[s]
        BY <2>1, <2>2 DEF Passed, Moves
    <2>4. CASE whom[g] \in raced
        BY <1>0, <2>2, <2>3, <2>4
    <2>5. CASE whom[g] \notin raced
        <3>1. Passed(g)
            BY <2>1, <2>5 DEF Passed
        <3>2. \A s \in Sockets : ~Passed(s)'
            BY <2>1, <2>3, <3>1 DEF OneHasPassed
        <3> DEFINE others == (viewers \ raced) \ {whom[g]}
        <3>3. Cardinality(others) < MaxViewers
            BY <2>1, <3>1 DEF HasItsPlace
        <3>4. viewers' \ raced' = others \cup {whom[g]}
            BY <2>2, <2>5
        <3>5. others \subseteq Users
            BY <1>m
        <3>6. Cardinality(others \cup {whom[g]}) <= Cardinality(others) + 1 /\ Cardinality(others) \in Nat
            BY <3>5, CardinalityOfUsers
        <3>7. Cardinality(others \cup {whom[g]}) \in Nat
            BY <3>4, <1>m, CardinalityOfUsers
        <3>8. Cardinality(others \cup {whom[g]}) <= MaxViewers
            <4> HIDE DEF others
            <4> QED BY <1>m, <3>3, <3>6, <3>7
        <3>9. Cardinality(viewers' \ raced') <= MaxViewers
            BY <3>4, <3>8
        <3> QED BY <3>2, <3>9
    <2> QED BY <2>4, <2>5
<1>5. ASSUME NEW g \in Goroutines, Handle(g), ~AddViewer(g) PROVE Goal
    <2>1. raced' = raced /\ viewers' \subseteq viewers
        BY <1>5 DEF Handle, AddParticipant, EnqueuePresenceJoin, RemoveViewer,
                    RemoveParticipant, EnqueuePresenceLeave, room
    <2>2. ASSUME NEW from, NEW to, Continue(g, from, to), to # "addParticipant",
                 to = "addViewer" => from = "addParticipant"
          PROVE  Goal
        <3>1. at[g] = from /\ Moves(g, to, IF to = "idle" THEN None ELSE whom[g])
            BY <2>2, ContinueMoves
        <3>2. \A s \in Sockets : Passed(s)' => Passed(s) /\ whom'[s] = whom[s]
            BY <2>1, <2>2, <3>1 DEF Passed, Moves
        <3> QED BY <1>0, <2>1, <3>2
    <2> QED BY <1>5, <2>2
            DEF Handle, AddParticipant, EnqueuePresenceJoin,
                RemoveViewer, RemoveParticipant, EnqueuePresenceLeave
<1>6. CASE Batch
    BY <1>0, <1>6 DEF Batch, FlushPresence, BroadcastPresenceBatch, Passed, room, local
<1> QED BY <1>1, <1>2, <1>3, <1>4, <1>5, <1>6
        DEF Next, KickParticipant, GraceOver, BeginRemoval, room

(* LimitHolds: without the users whose joins overlapped, a room never has more
   viewers than max_viewers_per_room. *)
THEOREM TheLimitHolds == Spec => []LimitHolds
<1>1. Init => OneHasPassed /\ HasItsPlace /\ LimitHolds
    <2> SUFFICES ASSUME Init PROVE OneHasPassed /\ HasItsPlace /\ LimitHolds
        OBVIOUS
    <2>1. OneHasPassed /\ HasItsPlace
        BY SocketsRun DEF Init, OneHasPassed, HasItsPlace, Passed
    <2>2. viewers \ raced = {}
        BY DEF Init
    <2> QED BY <2>1, <2>2, FS_EmptySet, PresenceAssumption DEF LimitHolds
<1> QED BY <1>1, OneHasPassedStep, PlaceStep, TypedInvariant, PTL DEF Spec
=============================================================================
