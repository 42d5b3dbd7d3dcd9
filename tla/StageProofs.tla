----------------------------- MODULE StageProofs -----------------------------
(***************************************************************************)
(* For any users, sockets and number of seats: no change of the seats, the *)
(* mute states, the viewers or the participants is left without a copy to  *)
(* Redis, and, where the host has one socket, no seat passes from one user *)
(* to another without being free.                                          *)
(***************************************************************************)
EXTENDS Stage, TLAPS

-----------------------------------------------------------------------------
(* A step of a goroutine keeps the types of the local variables. *)

LEMMA BeginTypes ==
    ASSUME TypeOK, NEW g \in Goroutines, NEW step \in Steps,
           NEW u \in Users \cup {None}, NEW k \in Seats, Begin(g, step, u, k)
    PROVE  /\ at' \in [Goroutines -> Steps]
           /\ whom' \in [Goroutines -> Users \cup {None}]
           /\ seat' \in [Goroutines -> Seats]
    BY DEF TypeOK, Begin

LEMMA ContinueTypes ==
    ASSUME TypeOK, NEW g \in Goroutines, NEW from, NEW to \in Steps, Continue(g, from, to)
    PROVE  /\ at' \in [Goroutines -> Steps]
           /\ whom' \in [Goroutines -> Users \cup {None}]
           /\ seat' \in [Goroutines -> Seats]
<1>1. 0 \in Seats
    BY StageAssumption DEF Seats
<1> QED BY <1>1 DEF TypeOK, Continue

LEMMA ChangeTypes ==
    ASSUME TypeOK, NEW p \in Parts, StateChanges(p)
    PROVE  /\ snapshot' \in [Goroutines -> SUBSET Parts]
           /\ saved' \in [Parts -> {"fresh", "outdated", "late"}]
    BY DEF TypeOK, StateChanges

LEMMA FreeSeatsAreSeats == FreeSeats \subseteq Seats
    BY DEF FreeSeats

-----------------------------------------------------------------------------
(* Type correctness: every variable of Stage keeps its type. *)
THEOREM TypeCorrect == Spec => []TypeOK
<1>1. 0 \in Seats /\ Sockets \subseteq Goroutines /\ Batcher \in Goroutines
    BY StageAssumption DEF Seats, Goroutines
<1>2. Init => TypeOK
    <2> SUFFICES ASSUME Init PROVE TypeOK
        OBVIOUS
    <2>1. activeSeats \in [Seats -> Users \cup {None}] /\ queued \in BOOLEAN
        BY StageAssumption DEF Init
    <2>2. /\ snapshot \in [Goroutines -> SUBSET Parts]
          /\ saved \in [Parts -> {"fresh", "outdated", "late"}]
        BY DEF Init
    <2>3. /\ at \in [Goroutines -> Steps]
          /\ whom \in [Goroutines -> Users \cup {None}]
          /\ seat \in [Goroutines -> Seats]
        BY <1>1 DEF Init, Steps
    <2> QED BY <2>1, <2>2, <2>3 DEF TypeOK
<1>3. TypeOK /\ [Next]_vars => TypeOK'
    <2> SUFFICES ASSUME TypeOK, [Next]_vars PROVE TypeOK'
        OBVIOUS
    <2>1. CASE UNCHANGED vars
        <3>1. UNCHANGED <<activeSeats, queued, snapshot, saved, at, whom, seat>>
            BY <2>1 DEF vars, redis, local
        <3> QED BY <3>1 DEF TypeOK
    <2>2. ASSUME NEW s \in Sockets, NEW u \in Users, SeatAccept(s, u) PROVE TypeOK'
        <3>1. PICK k \in FreeSeats : Begin(s, "setSeat", u, k)
            BY <2>2 DEF SeatAccept
        <3>2. k \in Seats /\ "setSeat" \in Steps /\ s \in Goroutines
            BY <1>1, FreeSeatsAreSeats DEF Steps
        <3> QED BY <2>2, <3>1, <3>2, BeginTypes DEF SeatAccept, TypeOK, redis
    <2>3. ASSUME NEW s \in Sockets, LeaveSeat(s) PROVE TypeOK'
        <3>1. Owner[s] \in Users /\ "freeSeats" \in Steps /\ s \in Goroutines
            BY <1>1, StageAssumption DEF Steps
        <3> QED BY <1>1, <2>3, <3>1, BeginTypes DEF LeaveSeat, TypeOK, redis
    <2>4. ASSUME NEW s \in Sockets, NEW u \in Users, KickSeat(s, u) PROVE TypeOK'
        <3>1. "freeSeats" \in Steps /\ s \in Goroutines
            BY <1>1 DEF Steps
        <3> QED BY <1>1, <2>4, <3>1, BeginTypes DEF KickSeat, TypeOK, redis
    <2>5. ASSUME NEW s \in Sockets, SetMediaState(s) \/ JoinViewer(s) \/ SetPKState(s)
          PROVE  TypeOK'
        <3>1. "snapshot" \in Steps /\ s \in Goroutines
            BY <1>1 DEF Steps
        <3>2. PICK p \in Parts : Begin(s, "snapshot", None, 0) /\ StateChanges(p)
            BY <2>5 DEF SetMediaState, JoinViewer, SetPKState, Parts
        <3>3. activeSeats' = activeSeats /\ queued' \in BOOLEAN
            BY <2>5 DEF SetMediaState, JoinViewer, SetPKState, TypeOK
        <3> QED BY <1>1, <3>1, <3>2, <3>3, BeginTypes, ChangeTypes DEF TypeOK
    <2>6. ASSUME NEW s \in Sockets, AddGiftScore(s) \/ SetRoomName(s) PROVE TypeOK'
        <3>1. "profile" \in Parts /\ StateChanges("profile")
            BY <2>6 DEF AddGiftScore, SetRoomName, Parts
        <3> QED BY <2>6, <3>1, ChangeTypes DEF AddGiftScore, SetRoomName, TypeOK, local
    <2>7. ASSUME NEW g \in Goroutines, RemoveViewer(g) PROVE TypeOK'
        <3>1. "enqueue" \in Steps
            BY DEF Steps
        <3>2. "roster" \in Parts /\ Begin(g, "enqueue", None, 0) /\ StateChanges("roster")
            BY <2>7 DEF RemoveViewer, Parts
        <3> QED BY <1>1, <2>7, <3>1, <3>2, BeginTypes, ChangeTypes DEF RemoveViewer, TypeOK
    <2>8. CASE FlushPresence
        <3>1. "snapshot" \in Steps
            BY DEF Steps
        <3> QED BY <1>1, <2>8, <3>1, BeginTypes DEF FlushPresence, TypeOK, redis
    <2>9. ASSUME NEW g \in Goroutines, SetActiveSeat(g) PROVE TypeOK'
        <3>1. "snapshot" \in Steps
            BY DEF Steps
        <3>2. activeSeats' \in [Seats -> Users \cup {None}]
            BY <2>9 DEF SetActiveSeat, TypeOK
        <3>3. "roster" \in Parts /\ StateChanges("roster")
            BY <2>9 DEF SetActiveSeat, Parts
        <3> QED BY <2>9, <3>1, <3>2, <3>3, ContinueTypes, ChangeTypes DEF SetActiveSeat, TypeOK
    <2>10. ASSUME NEW g \in Goroutines, RemoveUserFromSeats(g) PROVE TypeOK'
        <3>1. "snapshot" \in Steps
            BY DEF Steps
        <3>2. activeSeats' \in [Seats -> Users \cup {None}]
            BY <2>10 DEF RemoveUserFromSeats, TypeOK
        <3>3. "roster" \in Parts /\ StateChanges("roster")
            BY <2>10 DEF RemoveUserFromSeats, Parts
        <3> QED BY <2>10, <3>1, <3>2, <3>3, ContinueTypes, ChangeTypes DEF RemoveUserFromSeats, TypeOK
    <2>11. ASSUME NEW g \in Goroutines, EnqueuePresenceLeave(g) PROVE TypeOK'
        <3>1. "idle" \in Steps
            BY DEF Steps
        <3> QED BY <2>11, <3>1, ContinueTypes DEF EnqueuePresenceLeave, TypeOK, redis
    <2>12. ASSUME NEW g \in Goroutines, GetRoomState(g) PROVE TypeOK'
        <3>1. "save" \in Steps
            BY DEF Steps
        <3> QED BY <2>12, <3>1, ContinueTypes DEF GetRoomState, TypeOK
    <2>13. ASSUME NEW g \in Goroutines, SaveRoomState(g) PROVE TypeOK'
        <3>1. "idle" \in Steps
            BY DEF Steps
        <3> QED BY <2>13, <3>1, ContinueTypes DEF SaveRoomState, TypeOK
    <2> QED BY <2>1, <2>2, <2>3, <2>4, <2>5, <2>7, <2>8, <2>9, <2>10, <2>11, <2>12, <2>13,
               <2>6 DEF Next, Handle
<1> QED BY <1>2, <1>3, PTL DEF Spec

-----------------------------------------------------------------------------
(* While Redis lacks a change of the roster, a copy is still to come. *)
CopyIsComing ==
    queued \/ \E g \in Goroutines : at[g] \in {"enqueue", "snapshot", "save"}

ChangesAreCopied == saved["roster"] = "outdated" => CopyIsComing

(* A goroutine that begins something gives up nothing. *)
LEMMA BeginKeepsCopies ==
    ASSUME TypeOK, NEW g \in Goroutines, NEW step, NEW u, NEW k, Begin(g, step, u, k),
           CopyIsComing, queued' = queued
    PROVE  CopyIsComing'
    BY DEF TypeOK, Begin, CopyIsComing

LEMMA CopyPending ==
    ASSUME TypeOK, NEW g \in Goroutines,
           at' = [at EXCEPT ![g] = "snapshot"] \/ at' = [at EXCEPT ![g] = "save"]
               \/ at' = [at EXCEPT ![g] = "enqueue"] \/ queued'
    PROVE  CopyIsComing'
    BY DEF TypeOK, CopyIsComing

(* SavedAfterChange: whenever nothing runs and nothing is queued, the last
   change of the seats, mute states, viewers and participants was followed by
   a copy to Redis. *)
THEOREM ChangesAreSaved == Spec => []SavedAfterChange
<1>1. Sockets \subseteq Goroutines /\ Batcher \in Goroutines /\ "roster" \in Parts
    BY DEF Goroutines, Parts
<1>2. Init => ChangesAreCopied
    BY <1>1 DEF Init, ChangesAreCopied
<1>3. TypeOK /\ ChangesAreCopied /\ [Next]_vars => ChangesAreCopied'
    <2> SUFFICES ASSUME TypeOK, ChangesAreCopied, [Next]_vars, saved'["roster"] = "outdated"
                 PROVE  CopyIsComing'
        BY DEF ChangesAreCopied
    <2>1. CASE UNCHANGED vars
        BY <2>1 DEF ChangesAreCopied, CopyIsComing, vars, redis, local
    <2>2. ASSUME NEW s \in Sockets, LeaveSeat(s) PROVE CopyIsComing'
        BY <1>1, <2>2, BeginKeepsCopies DEF LeaveSeat, ChangesAreCopied, redis
    <2>3. ASSUME NEW s \in Sockets, NEW u \in Users, KickSeat(s, u) PROVE CopyIsComing'
        BY <1>1, <2>3, BeginKeepsCopies DEF KickSeat, ChangesAreCopied, redis
    <2>4. ASSUME NEW s \in Sockets, NEW u \in Users, SeatAccept(s, u) PROVE CopyIsComing'
        <3>1. PICK k \in FreeSeats : Begin(s, "setSeat", u, k)
            BY <2>4 DEF SeatAccept
        <3> QED BY <1>1, <2>4, <3>1, BeginKeepsCopies DEF SeatAccept, ChangesAreCopied, redis
    <2>5. ASSUME NEW s \in Sockets, SetMediaState(s) \/ JoinViewer(s) \/ SetPKState(s)
          PROVE  CopyIsComing'
        BY <1>1, <2>5, CopyPending DEF SetMediaState, JoinViewer, SetPKState, Begin
    <2>6. ASSUME NEW s \in Sockets, AddGiftScore(s) \/ SetRoomName(s) PROVE CopyIsComing'
        <3>1. StateChanges("profile") /\ at' = at /\ queued' = queued
            BY <2>6 DEF AddGiftScore, SetRoomName, local
        <3>2. saved'["roster"] = saved["roster"]
            BY <1>1, <3>1 DEF StateChanges, TypeOK
        <3> QED BY <3>1, <3>2 DEF ChangesAreCopied, CopyIsComing
    <2>7. ASSUME NEW g \in Goroutines, RemoveViewer(g) PROVE CopyIsComing'
        BY <2>7, CopyPending DEF RemoveViewer, Begin
    <2>8. CASE FlushPresence
        BY <1>1, <2>8, CopyPending DEF FlushPresence, Begin
    <2>9. ASSUME NEW g \in Goroutines,
                 SetActiveSeat(g) \/ RemoveUserFromSeats(g) \/ GetRoomState(g)
          PROVE  CopyIsComing'
        BY <2>9, CopyPending DEF SetActiveSeat, RemoveUserFromSeats, GetRoomState, Continue
    <2>10. ASSUME NEW g \in Goroutines, EnqueuePresenceLeave(g) PROVE CopyIsComing'
        BY <2>10 DEF EnqueuePresenceLeave, CopyIsComing
    <2>11. ASSUME NEW g \in Goroutines, SaveRoomState(g) PROVE CopyIsComing'
        BY <1>1, <2>11 DEF SaveRoomState
    <2> QED BY <2>1, <2>2, <2>3, <2>4, <2>5, <2>7, <2>8, <2>9, <2>10, <2>11,
               <2>6 DEF Next, Handle
<1>4. ChangesAreCopied => SavedAfterChange
    BY DEF ChangesAreCopied, CopyIsComing, SavedAfterChange, Quiet
<1> QED BY <1>2, <1>3, <1>4, TypeCorrect, PTL DEF Spec

-----------------------------------------------------------------------------
(* The seat that handleSeatAccept is about to give is still free. *)
SeatIsFree ==
    \A g \in Goroutines : at[g] = "setSeat" =>
        /\ g \in Sockets /\ Owner[g] = Host
        /\ HostHasOneSocket => activeSeats[seat[g]] = None

LEMMA SeatIsFreeInvariant == Spec => []SeatIsFree
<1>1. Sockets \subseteq Goroutines
    BY DEF Goroutines
<1>2. Init => SeatIsFree
    BY DEF Init, SeatIsFree
<1>3. TypeOK /\ SeatIsFree /\ [Next]_vars => SeatIsFree'
    <2> SUFFICES ASSUME TypeOK, SeatIsFree, [Next]_vars,
                        NEW g \in Goroutines, at'[g] = "setSeat"
                 PROVE  /\ g \in Sockets /\ Owner[g] = Host
                        /\ HostHasOneSocket => activeSeats'[seat'[g]] = None
        BY DEF SeatIsFree, HostHasOneSocket
    <2> DEFINE Goal == /\ g \in Sockets /\ Owner[g] = Host
                       /\ HostHasOneSocket => activeSeats'[seat'[g]] = None
    <2>1. ASSUME at[g] = "setSeat", seat'[g] = seat[g],
                 \A k \in Seats : activeSeats'[k] \in {activeSeats[k], None}
          PROVE  Goal
        BY <2>1 DEF TypeOK, SeatIsFree
    <2>2. CASE UNCHANGED vars
        BY <2>1, <2>2 DEF TypeOK, vars, local
    <2>3. ASSUME NEW s \in Sockets, NEW u \in Users, SeatAccept(s, u) PROVE Goal
        <3>1. PICK k \in FreeSeats : Begin(s, "setSeat", u, k)
            BY <2>3 DEF SeatAccept
        <3>2. CASE g = s
            BY <1>1, <2>3, <3>1, <3>2 DEF SeatAccept, Begin, FreeSeats, TypeOK
        <3>3. CASE g # s
            BY <1>1, <2>1, <2>3, <3>1, <3>3 DEF SeatAccept, Begin, TypeOK
        <3> QED BY <3>2, <3>3
    <2>4. ASSUME NEW s \in Sockets,
                 LeaveSeat(s) \/ SetMediaState(s) \/ JoinViewer(s) \/ SetPKState(s)
                   \/ \E u \in Users : KickSeat(s, u)
          PROVE  Goal
        BY <1>1, <2>1, <2>4
           DEF LeaveSeat, SetMediaState, JoinViewer, SetPKState, KickSeat, Begin, TypeOK
    <2>5. ASSUME NEW s \in Sockets, AddGiftScore(s) \/ SetRoomName(s) PROVE Goal
        BY <2>1, <2>5 DEF AddGiftScore, SetRoomName, TypeOK, local
    <2>6. ASSUME NEW h \in Goroutines, RemoveViewer(h) PROVE Goal
        BY <2>1, <2>6 DEF RemoveViewer, Begin, TypeOK
    <2>7. CASE FlushPresence
        BY <2>1, <2>7 DEF FlushPresence, Begin, TypeOK, Goroutines
    <2>8. ASSUME NEW h \in Goroutines, SetActiveSeat(h) PROVE Goal
        <3>1. g # h /\ at[g] = "setSeat" /\ at[h] = "setSeat" /\ seat'[g] = seat[g]
            BY <2>8 DEF SetActiveSeat, Continue, TypeOK
        <3>2. g \in Sockets /\ h \in Sockets /\ Owner[g] = Host /\ Owner[h] = Host
            BY <3>1 DEF SeatIsFree
        <3> QED BY <3>1, <3>2 DEF HostHasOneSocket
    <2>9. ASSUME NEW h \in Goroutines, RemoveUserFromSeats(h) PROVE Goal
        <3>1. \A k \in Seats : activeSeats'[k] \in {activeSeats[k], None}
            BY <2>9 DEF RemoveUserFromSeats
        <3> QED BY <2>1, <2>9, <3>1 DEF RemoveUserFromSeats, Continue, TypeOK
    <2>10. ASSUME NEW h \in Goroutines,
                 EnqueuePresenceLeave(h) \/ GetRoomState(h) \/ SaveRoomState(h)
          PROVE  Goal
        BY <2>1, <2>10 DEF EnqueuePresenceLeave, GetRoomState, SaveRoomState, Continue, TypeOK
    <2> QED BY <2>2, <2>3, <2>4, <2>6, <2>7, <2>8, <2>9, <2>10, <2>5 DEF Next, Handle
<1> QED BY <1>2, <1>3, TypeCorrect, PTL DEF Spec

(* SeatsKept: where the host has one socket, a taken seat only becomes free. *)
THEOREM SeatsAreKept == Spec => SeatsKept
<1> DEFINE Kept == HostHasOneSocket =>
        \A k \in Seats : activeSeats[k] # None => activeSeats'[k] \in {activeSeats[k], None}
<1>1. TypeOK /\ SeatIsFree /\ [Next]_vars => [Kept]_vars
    <2> SUFFICES ASSUME TypeOK, SeatIsFree, Next PROVE Kept
        OBVIOUS
    <2>1. ASSUME NEW g \in Goroutines, SetActiveSeat(g) PROVE Kept
        <3>1. at[g] = "setSeat" /\ activeSeats' = [activeSeats EXCEPT ![seat[g]] = whom[g]]
            BY <2>1 DEF SetActiveSeat, Continue
        <3> QED BY <3>1 DEF SeatIsFree, TypeOK
    <2>2. ASSUME NEW g \in Goroutines, RemoveUserFromSeats(g) PROVE Kept
        BY <2>2 DEF RemoveUserFromSeats, TypeOK
    <2>3. CASE UNCHANGED activeSeats
        BY <2>3
    <2>4. ASSUME NEW g \in Goroutines,
                 RemoveViewer(g) \/ EnqueuePresenceLeave(g) \/ GetRoomState(g) \/ SaveRoomState(g)
          PROVE  UNCHANGED activeSeats
        BY <2>4 DEF RemoveViewer, EnqueuePresenceLeave, GetRoomState, SaveRoomState
    <2>5. ASSUME NEW s \in Sockets,
                 \/ LeaveSeat(s) \/ SetMediaState(s) \/ JoinViewer(s)
                 \/ SetPKState(s) \/ AddGiftScore(s) \/ SetRoomName(s)
                 \/ \E u \in Users : SeatAccept(s, u) \/ KickSeat(s, u)
          PROVE  UNCHANGED activeSeats
        BY <2>5 DEF LeaveSeat, SetMediaState, JoinViewer, SetPKState, AddGiftScore, SetRoomName,
                    SeatAccept, KickSeat
    <2>6. CASE FlushPresence
        BY <2>3, <2>6 DEF FlushPresence
    <2> QED BY <2>1, <2>2, <2>3, <2>4, <2>5, <2>6 DEF Next, Handle
<1> QED BY <1>1, TypeCorrect, SeatIsFreeInvariant, PTL DEF Spec, SeatsKept
=============================================================================
