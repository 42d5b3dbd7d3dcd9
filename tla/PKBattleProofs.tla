--------------------------- MODULE PKBattleProofs ---------------------------
(***************************************************************************)
(* For any rooms, sessions, handlers and number of gifts, restarts and     *)
(* reopened rooms: sessions are paired, no gift is counted twice or lost,  *)
(* and no battle shows points that were not given.                         *)
(***************************************************************************)
EXTENDS PKBattle, FiniteSetTheorems, TLAPS

-----------------------------------------------------------------------------
(* A handler is at one of its steps, with the rooms and the session the step
   needs; each of them has been opened some time. *)

ToSteps == {"find", "redis", "restore", "score", "buffer"}
SyncSteps == {"read1", "show1", "read2", "show2"}
SessSteps == {"engage", "save", "unstore", "hide1", "hide2", "restore", "scores"} \cup SyncSteps

Records == [pc : {"idle"} \cup ToSteps \cup SessSteps,
            from : RoomIDs \cup {None}, to : RoomIDs \cup {None},
            sess : Sessions \cup {None},
            objects : [1..2 -> Nat], scores : [1..2 -> Nat],
            use : {"none", "target", "sync", "ask"}]

Opened(r) == object[r] > 0
OpenedBoth(s) == Opened(s[1]) /\ Opened(s[2])

Valid(rec) ==
    /\ rec \in Records
    /\ rec.pc \in ToSteps => rec.to \in RoomIDs
    /\ rec.pc \in SessSteps => rec.sess \in Sessions
    /\ rec.from # None => Opened(rec.from)
    /\ rec.to # None => Opened(rec.to)
    /\ rec.sess # None => OpenedBoth(rec.sess)

HandlersValid == handler \in [Handlers -> Records] /\ \A h \in Handlers : Valid(handler[h])

SessionsOpened ==
    \A r \in RoomIDs : /\ activePKs[r] # None => OpenedBoth(activePKs[r])
                       /\ stored[r] # None => OpenedBoth(stored[r])

OpenIsOpened == \A r \in RoomIDs : open[r] => Opened(r)

Typed == TypeOK /\ HandlersValid /\ SessionsOpened /\ OpenIsOpened

LEMMA SessionRooms ==
    ASSUME NEW s \in Sessions
    PROVE  /\ s[1] \in RoomIDs /\ s[2] \in RoomIDs /\ s[1] # s[2] /\ s # None
           /\ \A r : Opponent(s, r) \in {s[1], s[2]}
<1>1. s \in RoomIDs \X RoomIDs /\ s[1] # s[2]
    BY PKAssumption
<1>2. s # None
    BY PKAssumption
<1> QED BY <1>1, <1>2 DEF Opponent

LEMMA IdleIsValid == Valid(Idle)
<1>1. <<0, 0>> \in [1..2 -> Nat]
    OBVIOUS
<1>2. Idle \in Records
    BY <1>1 DEF Idle, Records
<1> QED BY <1>2 DEF Idle, Valid, ToSteps, SessSteps, SyncSteps

LEMMA ValidKeeps ==
    ASSUME HandlersValid, NEW h \in Handlers, NEW new, Valid(new), Go(h, new), object' = object
    PROVE  HandlersValid'
<1>1. new \in Records
    BY DEF Valid
<1>2. handler' \in [Handlers -> Records] /\ handler' = [handler EXCEPT ![h] = new]
    BY <1>1 DEF HandlersValid, Go
<1>3. ASSUME NEW k \in Handlers PROVE Valid(handler[k])'
    <2>1. Valid(handler'[k])
        BY <1>2 DEF HandlersValid
    <2> QED BY <2>1 DEF Valid, OpenedBoth, Opened
<1> QED BY <1>2, <1>3 DEF HandlersValid

LEMMA StepIsValid ==
    ASSUME HandlersValid, NEW h \in Handlers, NEW pc \in {"idle"} \cup ToSteps \cup SessSteps,
           Step(h, pc),
           pc \in ToSteps => handler[h].to \in RoomIDs,
           pc \in SessSteps => handler[h].sess \in Sessions
    PROVE  LET new == [handler[h] EXCEPT !.pc = pc] IN Valid(new) /\ Go(h, new)
    BY DEF HandlersValid, Valid, Records, Step, Go

LEMMA NextSyncIsValid ==
    ASSUME HandlersValid, NEW h \in Handlers, NextSync(h)
    PROVE  \E new : Valid(new) /\ Go(h, new) /\ new.pc \in {"idle", "find"}
<1>1. CASE handler[h].from = None
    BY <1>1, IdleIsValid DEF NextSync, Idle
<1>2. CASE handler[h].from # None
    <2> DEFINE new == [Idle EXCEPT !.pc = "find", !.use = "sync", !.to = handler[h].from]
    <2>1. handler[h].from \in RoomIDs /\ Opened(handler[h].from)
        BY <1>2 DEF HandlersValid, Valid, Records
    <2>2. Valid(new) /\ new.pc = "find"
        BY <2>1, IdleIsValid DEF Valid, Records, Idle, ToSteps, SessSteps, SyncSteps
    <2> QED BY <1>2, <2>2 DEF NextSync
<1> QED BY <1>1, <1>2

LEMMA UnknownIsValid ==
    ASSUME HandlersValid, NEW h \in Handlers, handler[h].pc \in {"find", "redis"}, Unknown(h)
    PROVE  \E new : Valid(new) /\ Go(h, new) /\ new.pc \in {"idle", "find", "score"}
<1>1. CASE handler[h].use = "target"
    <2> DEFINE rec == handler[h]
               new == [rec EXCEPT !.pc = "score", !.use = "none"]
    <2>1. /\ rec \in Records /\ Valid(rec) /\ rec.to \in RoomIDs /\ rec.sess \in Sessions \cup {None}
        BY DEF HandlersValid, Valid, Records, ToSteps
    <2>2. new \in Records
        BY <2>1 DEF Records, ToSteps
    <2>3. new.pc = "score" /\ new.to = rec.to /\ new.sess = rec.sess /\ new.from = rec.from
        BY <2>1 DEF Records
    <2>4. Valid(new) /\ new.pc = "score"
        <3> HIDE DEF rec, new
        <3> QED BY <2>1, <2>2, <2>3 DEF Valid, ToSteps, SessSteps, SyncSteps
    <2> QED BY <1>1, <2>4 DEF Unknown
<1>2. CASE handler[h].use = "sync"
    BY <1>2, NextSyncIsValid DEF Unknown
<1>3. CASE handler[h].use \notin {"target", "sync"}
    BY <1>3, IdleIsValid DEF Unknown, Idle
<1> QED BY <1>1, <1>2, <1>3

LEMMA KnownIsValid ==
    ASSUME HandlersValid, NEW h \in Handlers, handler[h].pc \in {"find", "restore"},
           NEW s \in Sessions, OpenedBoth(s), Known(h, s)
    PROVE  \E new : Valid(new) /\ Go(h, new) /\ new.pc \in {"idle", "score", "scores"}
<1>1. CASE handler[h].use = "target"
    <2> DEFINE rec == handler[h]
               to == Opponent(s, rec.to)
               new == [rec EXCEPT !.pc = "score", !.to = to, !.use = "none", !.sess = None]
    <2>1. to \in RoomIDs /\ Opened(to)
        BY SessionRooms DEF OpenedBoth
    <2>2. rec \in Records /\ Valid(rec)
        BY DEF HandlersValid
    <2>3. /\ new \in Records
          /\ new.pc = "score" /\ new.to = to /\ new.sess = None /\ new.from = rec.from
        <3> HIDE DEF rec, to
        <3> QED BY <2>1, <2>2 DEF Records, ToSteps
    <2>4. Valid(new) /\ new.pc = "score"
        <3> HIDE DEF rec, new, to
        <3> QED BY <2>1, <2>2, <2>3 DEF Valid, ToSteps, SessSteps, SyncSteps
    <2> QED BY <1>1, <2>4 DEF Known
<1>2. CASE handler[h].use = "sync"
    <2> DEFINE new == [handler[h] EXCEPT !.pc = "scores", !.sess = s, !.to = None]
    <2> DEFINE rec == handler[h]
    <2>1. rec \in Records /\ Valid(rec) /\ rec.use \in {"none", "target", "sync", "ask"}
        BY DEF HandlersValid, Valid, Records
    <2>2. new \in Records
        BY <2>1 DEF Records, SessSteps
    <2>3. new.pc = "scores" /\ new.to = None /\ new.sess = s /\ new.from = rec.from
        BY <2>1 DEF Records
    <2>4. Valid(new) /\ new.pc = "scores"
        <3> HIDE DEF rec, new
        <3> QED BY <2>1, <2>2, <2>3 DEF Valid, ToSteps, SessSteps, SyncSteps
    <2> QED BY <1>2, <2>4 DEF Known
<1>3. CASE handler[h].use \notin {"target", "sync"}
    BY <1>3, IdleIsValid DEF Known, Idle
<1> QED BY <1>1, <1>2, <1>3

(* What each step of a handler makes of it. *)
LEMMA HandleIsValid ==
    ASSUME Typed, NEW h \in Handlers, Handle(h)
    PROVE  \E new : Valid(new) /\ Go(h, new)
<1> DEFINE Goal == \E new : Valid(new) /\ Go(h, new)
<1>0. /\ HandlersValid /\ handler[h] \in Records /\ Valid(handler[h])
      /\ handler[h].pc \in ToSteps => handler[h].to \in RoomIDs /\ Opened(handler[h].to)
      /\ handler[h].pc \in SessSteps => handler[h].sess \in Sessions
    BY PKAssumption DEF Typed, HandlersValid, Valid
<1>1. ASSUME NEW pc \in {"idle"} \cup ToSteps \cup SessSteps, Step(h, pc),
             pc \in ToSteps => handler[h].to \in RoomIDs,
             pc \in SessSteps => handler[h].sess \in Sessions
      PROVE  Goal
    BY <1>0, <1>1, StepIsValid
<1>2. CASE EngageRooms(h)
    BY <1>0, <1>1, <1>2 DEF EngageRooms, At, ToSteps, SessSteps, SyncSteps
<1>3. CASE SavePKSession(h)
    BY <1>3, IdleIsValid DEF SavePKSession
<1>4. CASE DeletePKSession(h)
    BY <1>0, <1>1, <1>4 DEF DeletePKSession, At, ToSteps, SessSteps, SyncSteps
<1>5. CASE FindSession(h)
    <2>1. handler[h].pc = "find" /\ handler[h].to \in RoomIDs
        BY <1>0, <1>5 DEF FindSession, At, ToSteps
    <2> DEFINE s == activePKs[handler[h].to]
    <2>2. CASE s # None
        <3>1. s \in Sessions /\ OpenedBoth(s)
            BY <2>1, <2>2 DEF Typed, TypeOK, SessionsOpened
        <3>2. Known(h, s)
            BY <1>5, <2>2 DEF FindSession
        <3> QED BY <1>0, <2>1, <3>1, <3>2, KnownIsValid
    <2>3. CASE s = None /\ HasRedis
        <3>1. Step(h, "redis")
            BY <1>5, <2>3 DEF FindSession
        <3> QED BY <1>0, <1>1, <2>1, <3>1 DEF ToSteps, SessSteps, SyncSteps
    <2>4. CASE s = None /\ ~HasRedis
        <3>1. Unknown(h)
            BY <1>5, <2>4 DEF FindSession
        <3> QED BY <1>0, <2>1, <3>1, UnknownIsValid
    <2> QED BY <2>2, <2>3, <2>4
<1>6. CASE ReadStored(h)
    <2>1. handler[h].pc = "redis" /\ handler[h].to \in RoomIDs
        BY <1>0, <1>6 DEF ReadStored, At, ToSteps
    <2> DEFINE s == stored[handler[h].to]
    <2> DEFINE new == [handler[h] EXCEPT !.pc = "restore", !.sess = s]
    <2>2. CASE s # None /\ Go(h, new)
        <3>1. s \in Sessions /\ OpenedBoth(s)
            BY <2>1, <2>2 DEF Typed, TypeOK, SessionsOpened
        <3>2. Valid(new)
            BY <1>0, <2>1, <3>1 DEF Valid, Records, ToSteps, SessSteps, SyncSteps
        <3> QED BY <2>2, <3>2
    <2>3. CASE Unknown(h)
        BY <1>0, <2>1, <2>3, UnknownIsValid
    <2> QED BY <1>6, <2>2, <2>3 DEF ReadStored
<1>7. CASE RestoreSession(h)
    <2>1. handler[h].pc = "restore" /\ handler[h].sess \in Sessions /\ OpenedBoth(handler[h].sess)
        BY <1>0, <1>7, PKAssumption DEF RestoreSession, At, SessSteps, Valid
    <2> QED BY <1>0, <1>7, <2>1, KnownIsValid DEF RestoreSession
<1>8. CASE AddHostScore(h)
    BY <1>0, <1>1, <1>8 DEF AddHostScore, At, ToSteps, SessSteps, SyncSteps
<1>9. CASE BufferScore(h)
    <2> DEFINE new == [handler[h] EXCEPT !.pc = "find", !.use = "sync"]
    <2>1. Valid(new)
        BY <1>0, <1>9 DEF BufferScore, At, Valid, Records, ToSteps, SessSteps, SyncSteps
    <2> QED BY <1>9, <2>1 DEF BufferScore
<1>10. CASE ReadScores(h)
    <2>1. PICK a \in Nat, b \in Nat : Go(h, [handler[h] EXCEPT !.pc = "read1", !.scores = <<a, b>>])
        <3>1. handler[h].sess[1] \in RoomIDs /\ handler[h].sess[2] \in RoomIDs
            BY <1>0, <1>10, SessionRooms DEF ReadScores, At, SessSteps
        <3> QED BY <1>10, <3>1 DEF ReadScores, Typed, TypeOK
    <2>2. <<a, b>> \in [1..2 -> Nat]
        OBVIOUS
    <2>3. Valid([handler[h] EXCEPT !.pc = "read1", !.scores = <<a, b>>])
        BY <1>0, <1>10, <2>2 DEF ReadScores, At, Valid, Records, ToSteps, SessSteps, SyncSteps
    <2> QED BY <2>1, <2>3
<1>11. ASSUME NEW i \in 1..2, HideBattle(h, i) PROVE Goal
    <2>1. CASE i = 1
        BY <1>0, <1>1, <1>11, <2>1 DEF HideBattle, At, ToSteps, SessSteps, SyncSteps
    <2>2. CASE i = 2
        BY <1>11, <2>2, IdleIsValid DEF HideBattle
    <2> QED BY <2>1, <2>2
<1>12. ASSUME NEW i \in 1..2, LookupRoom(h, i) PROVE Goal
    <2> DEFINE r == handler[h].sess[i]
    <2> DEFINE new == [handler[h] EXCEPT
                          !.pc = IF i = 1 THEN "show1" ELSE "show2",
                          !.objects[i] = object[r],
                          !.scores[i] = IF @ = 0 THEN hostScore[r] ELSE @]
    <2>1. /\ handler[h].pc = IF i = 1 THEN "read1" ELSE "read2"
          /\ handler[h].sess \in Sessions /\ r \in RoomIDs
        BY <1>0, <1>12, SessionRooms DEF LookupRoom, At, SessSteps, SyncSteps
    <2>2. CASE open[r]
        <3>1. object[r] \in Nat /\ hostScore[r] \in Nat
            BY <2>1, PKAssumption DEF Typed, TypeOK
        <3>2. handler[h] \in Records /\ Valid(handler[h])
            BY <1>0 DEF Valid
        <3>3. /\ new \in Records /\ new.pc = (IF i = 1 THEN "show1" ELSE "show2")
              /\ new.from = handler[h].from /\ new.to = handler[h].to /\ new.sess = handler[h].sess
            <4>1. /\ [handler[h].objects EXCEPT ![i] = object[r]] \in [1..2 -> Nat]
                  /\ [handler[h].scores EXCEPT ![i] = IF @ = 0 THEN hostScore[r] ELSE @] \in [1..2 -> Nat]
                BY <3>1, <3>2 DEF Records
            <4> DEFINE os == [handler[h].objects EXCEPT ![i] = object[r]]
                       ss == [handler[h].scores EXCEPT ![i] = IF @ = 0 THEN hostScore[r] ELSE @]
                       pc == IF i = 1 THEN "show1" ELSE "show2"
            <4>2. new = [handler[h] EXCEPT !.pc = pc, !.objects = os, !.scores = ss]
                BY <3>2 DEF Records
            <4>3. pc \in SessSteps /\ os \in [1..2 -> Nat] /\ ss \in [1..2 -> Nat]
                BY <4>1 DEF SessSteps, SyncSteps
            <4> HIDE DEF os, ss, pc, new
            <4>4. new \in Records
                BY <3>2, <4>2, <4>3 DEF Records
            <4>5. new.pc = pc /\ new.from = handler[h].from /\ new.to = handler[h].to
                  /\ new.sess = handler[h].sess
                BY <3>2, <4>2 DEF Records
            <4> QED BY <4>4, <4>5 DEF pc
        <3>4. Valid(new)
            <4> HIDE DEF new, r
            <4> QED BY <2>1, <3>2, <3>3 DEF Valid, ToSteps, SessSteps, SyncSteps
        <3> QED BY <1>12, <2>2, <3>4 DEF LookupRoom
    <2>3. CASE ~open[r] /\ i = 1
        BY <1>0, <1>1, <1>12, <2>1, <2>3 DEF LookupRoom, ToSteps, SessSteps, SyncSteps
    <2>4. CASE ~open[r] /\ i = 2
        BY <1>0, <1>12, <2>4, NextSyncIsValid DEF LookupRoom
    <2> QED BY <2>2, <2>3, <2>4
<1>13. ASSUME NEW i \in 1..2, ShowScores(h, i) PROVE Goal
    <2> DEFINE rec == handler[h]
               new == [rec EXCEPT !.pc = "read2", !.objects = <<0, 0>>]
    <2>1. CASE i = 1
        <3>1. <<0, 0>> \in [1..2 -> Nat]
            OBVIOUS
        <3>2. rec.pc = "show1" /\ rec \in Records /\ Valid(rec)
            BY <1>0, <1>13, <2>1 DEF ShowScores, At
        <3>3. /\ new \in Records
              /\ new.pc = "read2" /\ new.to = rec.to /\ new.sess = rec.sess /\ new.from = rec.from
            <4> HIDE DEF rec
            <4> QED BY <3>1, <3>2 DEF Records, SessSteps, SyncSteps
        <3>4. Valid(new)
            <4> HIDE DEF rec, new
            <4> QED BY <3>2, <3>3 DEF Valid, ToSteps, SessSteps, SyncSteps
        <3> QED BY <1>13, <2>1, <3>4 DEF ShowScores
    <2>2. CASE i = 2
        BY <1>0, <1>13, <2>2, NextSyncIsValid DEF ShowScores
    <2> QED BY <2>1, <2>2
<1> QED BY <1>2, <1>3, <1>4, <1>5, <1>6, <1>7, <1>8, <1>9, <1>10, <1>11, <1>12, <1>13 DEF Handle

-----------------------------------------------------------------------------
(* Typed holds in every state. *)

LEMMA TypedInit == Init => Typed
<1> SUFFICES ASSUME Init PROVE Typed
    OBVIOUS
<1>1. HandlersValid
    BY IdleIsValid DEF Init, HandlersValid, Valid
<1>2. handler = [h \in Handlers |-> Idle] /\ \A h \in Handlers : handler[h].sess = None
    BY DEF Init, Idle
<1>3. TypeOK
    BY <1>2, PKAssumption DEF Init, TypeOK
<1> QED BY <1>1, <1>3 DEF Init, Typed, SessionsOpened, OpenIsOpened

\* Which handler writes which of the shared variables.
LEMMA HandlersWrite ==
    ASSUME NEW h \in Handlers, Handle(h)
    PROVE  /\ UNCHANGED <<redis, open, object, gifts, crashes>>
           /\ UNCHANGED hostScore \/ AddHostScore(h)
           /\ UNCHANGED scoreVars \/ BufferScore(h)
           /\ \/ UNCHANGED pkVars
              \/ EngageRooms(h) \/ SavePKSession(h) \/ DeletePKSession(h) \/ RestoreSession(h)
<1>1. CASE EngageRooms(h) \/ SavePKSession(h) \/ DeletePKSession(h) \/ RestoreSession(h)
    BY <1>1 DEF EngageRooms, SavePKSession, DeletePKSession, RestoreSession, roomVars
<1>2. CASE FindSession(h) \/ ReadStored(h) \/ ReadScores(h)
    BY <1>2 DEF FindSession, ReadStored, ReadScores, roomVars
<1>3. CASE AddHostScore(h) \/ BufferScore(h)
    BY <1>3 DEF AddHostScore, BufferScore, roomVars
<1>4. ASSUME NEW i \in 1..2, HideBattle(h, i) \/ LookupRoom(h, i) \/ ShowScores(h, i)
      PROVE  UNCHANGED <<redis, open, object, gifts, crashes, hostScore, scoreVars, pkVars>>
    BY <1>4 DEF HideBattle, LookupRoom, ShowScores, roomVars
<1> QED BY <1>1, <1>2, <1>3, <1>4 DEF Handle

LEMMA OpenedStays ==
    ASSUME Typed, [Next]_vars
    PROVE  \A r \in RoomIDs : Opened(r) => Opened(r)'
<1> SUFFICES ASSUME NEW q \in RoomIDs, Opened(q) PROVE Opened(q)'
    OBVIOUS
<1>0. \A r \in RoomIDs : object[r] \in Nat
    BY PKAssumption DEF Typed, TypeOK
<1>1. CASE object' = object
    BY <1>1 DEF Opened
<1>2. ASSUME NEW r \in RoomIDs, OpenRoom(r) PROVE Opened(q)'
    <2>1. object' = [object EXCEPT ![r] = @ + 1]
        BY <1>2 DEF OpenRoom
    <2>2. object'[q] = object[q] \/ object'[q] = object[q] + 1
        BY <2>1
    <2> QED BY <1>0, <2>2 DEF Opened
<1> QED BY <1>1, <1>2, HandlersWrite
        DEF Next, vars, roomVars, CloseRoom, Crash, StartPK, StopPK, AskSession, ReceiveGift,
            Flush, TakePending, BatchIncrementScores

LEMMA HandlersStep == Typed /\ [Next]_vars => HandlersValid'
<1> SUFFICES ASSUME Typed, [Next]_vars PROVE HandlersValid'
    OBVIOUS
<1>0. HandlersValid
    BY DEF Typed
<1>1. ASSUME handler' = handler PROVE HandlersValid'
    <2>1. ASSUME NEW h \in Handlers PROVE Valid(handler[h])'
        <3>1. Valid(handler[h]) /\ handler[h] \in Records
            BY <1>0 DEF HandlersValid
        <3>2. \A s \in Sessions : OpenedBoth(s) => OpenedBoth(s)'
            BY OpenedStays, SessionRooms DEF OpenedBoth
        <3> QED BY <1>1, <3>1, <3>2, OpenedStays DEF Valid, Records
    <2> QED BY <1>0, <1>1, <2>1 DEF HandlersValid
<1>2. ASSUME NEW h \in Handlers, NEW new, Valid(new), Go(h, new), object' = object
      PROVE  HandlersValid'
    BY <1>0, <1>2, ValidKeeps
<1>3. ASSUME NEW h \in Handlers, Handle(h) PROVE HandlersValid'
    <2>1. object' = object
        BY <1>3 DEF Handle, EngageRooms, SavePKSession, DeletePKSession, FindSession, ReadStored,
               RestoreSession, AddHostScore, BufferScore, ReadScores, HideBattle, LookupRoom,
               ShowScores, roomVars
    <2> QED BY <1>2, <1>3, <2>1, HandleIsValid
<1>4. CASE Crash
    <2>1. Valid(Idle)'
        BY IdleIsValid DEF Valid, Idle
    <2>2. handler' = [h \in Handlers |-> Idle]
        BY <1>4 DEF Crash
    <2>3. Idle \in Records
        BY IdleIsValid DEF Valid
    <2> QED BY <2>1, <2>2, <2>3 DEF HandlersValid, Valid
<1>5. ASSUME NEW h \in Hosts, NEW s \in Sessions, StartPK(h, s) PROVE HandlersValid'
    <2> DEFINE new == [Idle EXCEPT !.pc = "engage", !.sess = s, !.objects = <<object[s[1]], object[s[2]]>>]
    <2>1. s[1] \in RoomIDs /\ s[2] \in RoomIDs /\ open[s[1]] /\ open[s[2]]
        BY <1>5, SessionRooms DEF StartPK
    <2>2. object[s[1]] \in Nat /\ object[s[2]] \in Nat
        BY <2>1, PKAssumption DEF Typed, TypeOK
    <2>3. <<object[s[1]], object[s[2]]>> \in [1..2 -> Nat]
        BY <2>2
    <2>4. OpenedBoth(s)
        BY <2>1 DEF Typed, OpenIsOpened, OpenedBoth
    <2>5. Valid(new)
        BY <2>3, <2>4, IdleIsValid DEF Valid, Records, Idle, ToSteps, SessSteps, SyncSteps
    <2> QED BY <1>2, <1>5, <2>5 DEF StartPK, roomVars, Handlers
<1>6. ASSUME NEW h \in Hosts, NEW r \in RoomIDs, StopPK(h, r) PROVE HandlersValid'
    <2> DEFINE new == [Idle EXCEPT !.pc = "unstore", !.sess = activePKs[r]]
    <2>1. activePKs[r] \in Sessions /\ OpenedBoth(activePKs[r])
        BY <1>6 DEF StopPK, Typed, TypeOK, SessionsOpened
    <2>2. Valid(new)
        BY <2>1, IdleIsValid DEF Valid, Records, Idle, ToSteps, SessSteps, SyncSteps
    <2> QED BY <1>2, <1>6, <2>2 DEF StopPK, roomVars, Handlers
<1>7. ASSUME NEW h \in Givers, NEW r \in RoomIDs, AskSession(h, r) PROVE HandlersValid'
    <2> DEFINE new == [Idle EXCEPT !.pc = "find", !.use = "ask", !.to = r]
    <2>1. Opened(r)
        BY <1>7 DEF AskSession, Typed, OpenIsOpened
    <2>2. Valid(new)
        BY <2>1, IdleIsValid DEF Valid, Records, Idle, ToSteps, SessSteps, SyncSteps
    <2> QED BY <1>2, <1>7, <2>2 DEF AskSession, roomVars, Handlers
<1>8. ASSUME NEW h \in Givers, NEW r \in RoomIDs, ReceiveGift(h, r) PROVE HandlersValid'
    <2> DEFINE gift == [Idle EXCEPT !.from = r, !.to = r, !.pc = "score"]
    <2>1. Opened(r)
        BY <1>8 DEF ReceiveGift, Typed, OpenIsOpened
    <2>2. Valid(gift) /\ gift \in Records
        BY <2>1, IdleIsValid DEF Valid, Records, Idle, ToSteps, SessSteps, SyncSteps
    <2>3. object' = object /\ h \in Handlers
        BY <1>8 DEF ReceiveGift, roomVars, Handlers
    <2>4. CASE Go(h, gift)
        BY <1>2, <2>2, <2>3, <2>4
    <2>5. CASE linkedRoom[r] # None /\ open[linkedRoom[r]] /\ Go(h, [gift EXCEPT !.to = linkedRoom[r]])
        <3>1. linkedRoom[r] \in RoomIDs /\ Opened(linkedRoom[r])
            BY <2>5 DEF Typed, TypeOK, OpenIsOpened
        <3>2. Valid([gift EXCEPT !.to = linkedRoom[r]])
            BY <2>1, <3>1, IdleIsValid DEF Valid, Records, Idle, ToSteps, SessSteps, SyncSteps
        <3> QED BY <1>2, <2>3, <2>5, <3>2
    <2>6. CASE Go(h, [gift EXCEPT !.pc = "find", !.use = "target"])
        <3>1. Valid([gift EXCEPT !.pc = "find", !.use = "target"])
            BY <2>1, IdleIsValid DEF Valid, Records, Idle, ToSteps, SessSteps, SyncSteps
        <3> QED BY <1>2, <2>3, <2>6, <3>1
    <2> QED BY <1>8, <2>4, <2>5, <2>6 DEF ReceiveGift
<1>9. ASSUME NEW r \in RoomIDs, OpenRoom(r) \/ CloseRoom(r) PROVE HandlersValid'
    BY <1>1, <1>9 DEF OpenRoom, CloseRoom
<1> QED BY <1>1, <1>3, <1>4, <1>5, <1>6, <1>7, <1>8, <1>9
        DEF Next, Flush, TakePending, BatchIncrementScores, vars

RoomTypes ==
    /\ open \in [RoomIDs -> BOOLEAN]
    /\ object \in [RoomIDs -> Nat] /\ \A r \in RoomIDs : object[r] <= MaxOpens[r]
    /\ hostScore \in [RoomIDs -> Nat]
    /\ pkState \in [RoomIDs -> {None} \cup [peer : RoomIDs, mine : Nat, theirs : Nat]]
    /\ linkedRoom \in [RoomIDs -> RoomIDs \cup {None}]

LEMMA RoomTypesStep == Typed /\ [Next]_vars => (RoomTypes /\ OpenIsOpened)'
<1> SUFFICES ASSUME Typed, [Next]_vars PROVE (RoomTypes /\ OpenIsOpened)'
    OBVIOUS
<1>0. /\ RoomTypes /\ OpenIsOpened /\ TypeOK
      /\ \A h \in Handlers : /\ handler[h] \in Records
                             /\ handler[h].pc \in SessSteps => handler[h].sess \in Sessions
                             /\ handler[h].pc \in ToSteps => handler[h].to \in RoomIDs
    BY DEF Typed, TypeOK, RoomTypes, HandlersValid, Valid
<1>1. ASSUME UNCHANGED roomVars PROVE (RoomTypes /\ OpenIsOpened)'
    BY <1>0, <1>1 DEF RoomTypes, OpenIsOpened, Opened, roomVars
<1>2. ASSUME NEW r \in RoomIDs, OpenRoom(r) PROVE (RoomTypes /\ OpenIsOpened)'
    <2>0. object[r] < MaxOpens[r] /\ object[r] \in Nat /\ MaxOpens[r] \in Nat
        BY <1>0, <1>2, PKAssumption DEF OpenRoom, RoomTypes
    <2>1. object[r] \in Nat /\ MaxOpens[r] \in Nat /\ object[r] + 1 <= MaxOpens[r]
        BY <2>0
    <2>2. object' = [object EXCEPT ![r] = @ + 1] /\ object' \in [RoomIDs -> Nat]
        BY <1>0, <1>2, <2>1 DEF OpenRoom, RoomTypes
    <2>3. \A q \in RoomIDs : object'[q] <= MaxOpens[q] /\ (object[q] > 0 => object'[q] > 0) /\ object'[r] > 0
        BY <1>0, <2>1, <2>2 DEF RoomTypes
    <2> QED BY <1>0, <1>2, <2>2, <2>3 DEF OpenRoom, RoomTypes, OpenIsOpened, Opened
<1>3. ASSUME NEW r \in RoomIDs, CloseRoom(r) PROVE (RoomTypes /\ OpenIsOpened)'
    BY <1>0, <1>3 DEF CloseRoom, RoomTypes, OpenIsOpened, Opened
<1>4. CASE Crash
    BY <1>0, <1>4 DEF Crash, RoomTypes, OpenIsOpened, Opened
<1>5. ASSUME NEW h \in Handlers, EngageRooms(h) PROVE (RoomTypes /\ OpenIsOpened)'
    <2> DEFINE s == handler[h].sess
    <2>1. s \in Sessions
        BY <1>0, <1>5 DEF EngageRooms, At, SessSteps
    <2>2. \A r \in RoomIDs : Opponent(s, r) \in RoomIDs
        BY <2>1, SessionRooms
    <2>3. \A r \in RoomIDs : Shown(Opponent(s, r), hostScore[r], hostScore[Opponent(s, r)])
                                \in [peer : RoomIDs, mine : Nat, theirs : Nat]
        BY <1>0, <2>2 DEF RoomTypes, Shown
    <2>4. pkState' \in [RoomIDs -> {None} \cup [peer : RoomIDs, mine : Nat, theirs : Nat]]
        BY <1>0, <1>5, <2>3 DEF EngageRooms, RoomTypes
    <2>5. linkedRoom' \in [RoomIDs -> RoomIDs \cup {None}]
        BY <1>0, <1>5, <2>2 DEF EngageRooms, RoomTypes
    <2> QED BY <1>0, <1>5, <2>4, <2>5 DEF EngageRooms, RoomTypes, OpenIsOpened, Opened
<1>6. ASSUME NEW h \in Handlers, NEW i \in 1..2, HideBattle(h, i) PROVE (RoomTypes /\ OpenIsOpened)'
    BY <1>0, <1>6 DEF HideBattle, RoomTypes, OpenIsOpened, Opened
<1>7. ASSUME NEW h \in Handlers, NEW i \in 1..2, ShowScores(h, i) PROVE (RoomTypes /\ OpenIsOpened)'
    <2> DEFINE s == handler[h].sess
    <2>1. s \in Sessions /\ s[i] \in RoomIDs /\ Opponent(s, s[i]) \in RoomIDs
        BY <1>0, <1>7, SessionRooms DEF ShowScores, At, SessSteps, SyncSteps
    <2>2. handler[h].scores[i] \in Nat /\ handler[h].scores[3 - i] \in Nat
        BY <1>0 DEF Records
    <2>3. Shown(Opponent(s, s[i]), handler[h].scores[i], handler[h].scores[3 - i])
              \in [peer : RoomIDs, mine : Nat, theirs : Nat]
        BY <2>1, <2>2 DEF Shown
    <2>4. pkState' \in [RoomIDs -> {None} \cup [peer : RoomIDs, mine : Nat, theirs : Nat]]
        BY <1>0, <1>7, <2>1, <2>3 DEF ShowScores, RoomTypes
    <2> QED BY <1>0, <1>7, <2>4 DEF ShowScores, RoomTypes, OpenIsOpened, Opened
<1>8. ASSUME NEW h \in Handlers, AddHostScore(h) PROVE (RoomTypes /\ OpenIsOpened)'
    BY <1>0, <1>8 DEF AddHostScore, At, ToSteps, RoomTypes, OpenIsOpened, Opened
<1> QED BY <1>1, <1>2, <1>3, <1>4, <1>5, <1>6, <1>7, <1>8
        DEF Next, vars, StartPK, StopPK, AskSession, ReceiveGift, Handle, SavePKSession,
            DeletePKSession, FindSession, ReadStored, RestoreSession, BufferScore, ReadScores,
            LookupRoom, Flush, TakePending, BatchIncrementScores

PKTypes ==
    /\ activePKs \in [RoomIDs -> Sessions \cup {None}]
    /\ stored \in [RoomIDs -> Sessions \cup {None}]
    /\ mu \in Handlers \cup {None}

LEMMA PKTypesStep == Typed /\ [Next]_vars => (PKTypes /\ SessionsOpened)'
<1> SUFFICES ASSUME Typed, [Next]_vars PROVE (PKTypes /\ SessionsOpened)'
    OBVIOUS
<1>0. /\ PKTypes /\ SessionsOpened /\ None \notin Sessions
      /\ \A h \in Handlers : Valid(handler[h])
    BY PKAssumption DEF Typed, TypeOK, PKTypes, HandlersValid
<1>o. \A s \in Sessions : OpenedBoth(s) => OpenedBoth(s)'
    BY OpenedStays, SessionRooms DEF OpenedBoth
(* Every entry of the two tables is an old one, none, or a handler's. *)
<1>1. ASSUME NEW s \in Sessions \cup {None}, s # None => OpenedBoth(s),
             \A r \in RoomIDs : /\ activePKs'[r] \in {activePKs[r], None, s}
                                /\ stored'[r] \in {stored[r], None, s},
             activePKs' = [r \in RoomIDs |-> activePKs'[r]], stored' = [r \in RoomIDs |-> stored'[r]],
             mu' \in Handlers \cup {None}
      PROVE  (PKTypes /\ SessionsOpened)'
    <2>1. \A r \in RoomIDs : /\ activePKs'[r] \in Sessions \cup {None}
                             /\ stored'[r] \in Sessions \cup {None}
                             /\ activePKs'[r] # None => OpenedBoth(activePKs'[r])
                             /\ stored'[r] # None => OpenedBoth(stored'[r])
        BY <1>0, <1>1 DEF PKTypes, SessionsOpened
    <2>2. PKTypes'
        BY <1>1, <2>1 DEF PKTypes
    <2>3. SessionsOpened'
        BY <1>o, <2>1 DEF SessionsOpened, OpenedBoth, Opened
    <2> QED BY <2>2, <2>3
<1>2. ASSUME UNCHANGED <<activePKs, stored>>, mu' \in Handlers \cup {None} PROVE (PKTypes /\ SessionsOpened)'
    BY <1>0, <1>1, <1>2 DEF PKTypes
<1>3. ASSUME NEW r \in RoomIDs, CloseRoom(r) PROVE (PKTypes /\ SessionsOpened)'
    BY <1>0, <1>1, <1>3 DEF CloseRoom, PKTypes
<1>4. CASE Crash
    BY <1>0, <1>1, <1>4 DEF Crash, PKTypes
<1>5. ASSUME NEW h \in Handlers, EngageRooms(h) \/ SavePKSession(h) \/ DeletePKSession(h) \/ RestoreSession(h)
      PROVE  (PKTypes /\ SessionsOpened)'
    <2>1. handler[h].sess \in Sessions /\ OpenedBoth(handler[h].sess)
        BY <1>0, <1>5, PKAssumption
           DEF EngageRooms, SavePKSession, DeletePKSession, RestoreSession, At, Valid, SessSteps
    <2>2. mu' \in Handlers \cup {None}
        BY <1>0, <1>5 DEF EngageRooms, SavePKSession, DeletePKSession, RestoreSession, PKTypes
    <2>3. \A r \in RoomIDs : /\ activePKs'[r] \in {activePKs[r], None, handler[h].sess}
                             /\ stored'[r] \in {stored[r], None, handler[h].sess}
        BY <1>0, <1>5 DEF EngageRooms, SavePKSession, DeletePKSession, RestoreSession, PKTypes
    <2>4. activePKs' = [r \in RoomIDs |-> activePKs'[r]] /\ stored' = [r \in RoomIDs |-> stored'[r]]
        BY <1>0, <1>5 DEF EngageRooms, SavePKSession, DeletePKSession, RestoreSession, PKTypes
    <2> QED BY <1>1, <2>1, <2>2, <2>3, <2>4
<1>6. ASSUME NEW h \in Hosts, NEW r \in RoomIDs, StopPK(h, r) PROVE (PKTypes /\ SessionsOpened)'
    BY <1>0, <1>1, <1>6 DEF StopPK, PKTypes
<1>7. ASSUME NEW h \in Hosts, NEW s \in Sessions, StartPK(h, s) PROVE (PKTypes /\ SessionsOpened)'
    BY <1>2, <1>7 DEF StartPK, Handlers
<1>8. CASE UNCHANGED pkVars
    BY <1>0, <1>2, <1>8 DEF pkVars, PKTypes
<1> QED BY <1>3, <1>4, <1>5, <1>6, <1>7, <1>8, HandlersWrite
        DEF Next, vars, pkVars, OpenRoom, AskSession, ReceiveGift, Flush, TakePending,
            BatchIncrementScores

ScoreTypes ==
    /\ redis \in Modes
    /\ pending \in [RoomIDs -> Nat]
    /\ deltas \in [RoomIDs -> Nat]
    /\ redisScore \in [RoomIDs -> Nat]
    /\ gifts \in 0..MaxGifts /\ crashes \in 0..MaxCrashes

LEMMA ScoreTypesStep == Typed /\ [Next]_vars => ScoreTypes'
<1> SUFFICES ASSUME Typed, [Next]_vars PROVE ScoreTypes'
    OBVIOUS
<1>0. /\ ScoreTypes /\ MaxGifts \in Nat /\ MaxCrashes \in Nat
      /\ \A h \in Handlers : handler[h].pc \in ToSteps => handler[h].to \in RoomIDs
    BY PKAssumption DEF Typed, TypeOK, ScoreTypes, HandlersValid, Valid
<1>1. ASSUME UNCHANGED <<redis, scoreVars, gifts, crashes>> PROVE ScoreTypes'
    BY <1>0, <1>1 DEF ScoreTypes, scoreVars
<1>2. ASSUME NEW r \in RoomIDs, CloseRoom(r) PROVE ScoreTypes'
    BY <1>0, <1>2 DEF CloseRoom, ScoreTypes
<1>3. CASE Crash
    BY <1>0, <1>3 DEF Crash, ScoreTypes
<1>4. ASSUME NEW h \in Handlers, BufferScore(h) PROVE ScoreTypes'
    BY <1>0, <1>4 DEF BufferScore, At, ToSteps, ScoreTypes
<1>5. ASSUME NEW h \in Givers, NEW r \in RoomIDs, ReceiveGift(h, r) PROVE ScoreTypes'
    BY <1>0, <1>5 DEF ReceiveGift, ScoreTypes, scoreVars
<1>6. CASE TakePending
    BY <1>0, <1>6 DEF TakePending, ScoreTypes
<1>7. CASE BatchIncrementScores
    <2>1. PICK done \in SUBSET RoomIDs :
              redisScore' = [r \in RoomIDs |->
                               IF r \in done THEN redisScore[r] + deltas[r] ELSE redisScore[r]]
        BY <1>7 DEF BatchIncrementScores
    <2>2. redisScore' \in [RoomIDs -> Nat]
        BY <1>0, <2>1 DEF ScoreTypes
    <2> QED BY <1>0, <1>7, <2>2 DEF BatchIncrementScores, ScoreTypes
<1> QED BY <1>1, <1>2, <1>3, <1>4, <1>5, <1>6, <1>7, HandlersWrite
        DEF Next, vars, OpenRoom, AskSession, StartPK, StopPK, Flush

LEMMA TypedStep == Typed /\ [Next]_vars => Typed'
<1> SUFFICES ASSUME Typed, [Next]_vars PROVE Typed'
    OBVIOUS
<1>1. HandlersValid' /\ RoomTypes' /\ OpenIsOpened' /\ PKTypes' /\ SessionsOpened' /\ ScoreTypes'
    BY HandlersStep, RoomTypesStep, PKTypesStep, ScoreTypesStep
<1>2. \A h \in Handlers : handler'[h].sess \in Sessions \cup {None}
    BY <1>1 DEF HandlersValid, Records
<1> QED BY <1>1, <1>2 DEF Typed, TypeOK, RoomTypes, PKTypes, ScoreTypes

LEMMA TypedInvariant == Spec => []Typed
    BY TypedInit, TypedStep, PTL DEF Spec

(* TypeOK: every variable of PKBattle keeps its type. *)
THEOREM TypeCorrect == Spec => []TypeOK
<1>1. Typed => TypeOK
    BY DEF Typed
<1> QED BY <1>1, TypedInvariant, PTL

-----------------------------------------------------------------------------
(* PKManager.mu is held from StartPK to the end of it, in which time nobody
   else changes activePKs; without Redis nothing is restored. *)

Engaging == {"engage", "save"}
Restoring == {"redis", "restore"}

MuHeld == \A h \in Handlers : handler[h].pc \in Engaging <=> mu = h

EngageFree ==
    \A h \in Handlers : handler[h].pc = "engage" =>
        /\ activePKs[handler[h].sess[1]] = None
        /\ activePKs[handler[h].sess[2]] = None

NothingRestored == redis = "off" => \A h \in Handlers : handler[h].pc \notin Restoring

PKInv == MuHeld /\ EngageFree /\ NothingRestored /\ SessionsPaired

(* What a step outside StartPK does: the handler becomes new. *)
Syncs(h) == ReadScores(h) \/ \E i \in 1..2 : LookupRoom(h, i) \/ ShowScores(h, i)

Effect(h, new) ==
    /\ Go(h, new)
    /\ handler[h].pc \notin Engaging /\ new.pc \notin Engaging
    /\ redis = "off" => new.pc \notin Restoring
    /\ handler[h].pc = "buffer" => BufferScore(h)
    /\ new.pc = "buffer" => AddHostScore(h)
    /\ new.pc \in SyncSteps => Syncs(h)
    /\ mu' = mu /\ redis' = redis
    /\ activePKs' = activePKs \/ (mu = None /\ redis # "off")

LEMMA OtherSteps ==
    ASSUME Typed, NothingRestored, NEW h \in Handlers, Handle(h), ~EngageRooms(h), ~SavePKSession(h)
    PROVE  \E new : Effect(h, new)
<1> DEFINE Goal == \E new : Effect(h, new)
<1>0. /\ HandlersValid /\ handler[h] \in Records /\ Valid(handler[h])
      /\ handler[h].pc \in ToSteps => handler[h].to \in RoomIDs
      /\ handler[h].pc \in SessSteps => handler[h].sess \in Sessions /\ OpenedBoth(handler[h].sess)
      /\ redis = "off" => handler[h].pc \notin Restoring
    BY PKAssumption DEF Typed, HandlersValid, Valid, NothingRestored
<1>1. ASSUME NEW new, Go(h, new), handler[h].pc \notin Engaging,
             handler[h].pc # "buffer" \/ BufferScore(h),
             new.pc \in {"idle", "hide1", "hide2", "find", "score", "scores"}
               \/ (new.pc = "buffer" /\ AddHostScore(h)) \/ (new.pc \in SyncSteps /\ Syncs(h)),
             UNCHANGED <<mu, redis, activePKs>>
      PROVE  Goal
    <2>1. /\ new.pc \notin Engaging \cup Restoring
          /\ new.pc = "buffer" => AddHostScore(h)
          /\ new.pc \in SyncSteps => Syncs(h)
        BY <1>1 DEF Engaging, Restoring, SyncSteps
    <2> QED BY <1>1, <2>1 DEF Effect
<1>2. ASSUME NEW pc, Step(h, pc), handler[h].pc \notin Engaging \cup {"buffer"},
             pc \in {"hide1", "hide2"}
               \/ (pc = "buffer" /\ AddHostScore(h)) \/ (pc \in SyncSteps /\ Syncs(h)),
             UNCHANGED <<mu, redis, activePKs>>
      PROVE  Goal
    <2>1. Go(h, [handler[h] EXCEPT !.pc = pc]) /\ [handler[h] EXCEPT !.pc = pc].pc = pc
        BY <1>0, <1>2 DEF Step, Go, Records
    <2> QED BY <1>1, <1>2, <2>1
<1>4. CASE DeletePKSession(h)
    BY <1>2, <1>4 DEF DeletePKSession, At, Engaging, roomVars
<1>5. CASE FindSession(h)
    <2>1. handler[h].pc = "find" /\ handler[h].to \in RoomIDs /\ UNCHANGED <<mu, redis, activePKs>>
        BY <1>0, <1>5 DEF FindSession, At, ToSteps, pkVars
    <2>p. handler[h].pc \notin Engaging
        BY <2>1 DEF Engaging
    <2>b. handler[h].pc # "buffer"
        BY <2>1
    <2> DEFINE s == activePKs[handler[h].to]
    <2>2. CASE s # None
        <3>1. s \in Sessions /\ OpenedBoth(s)
            BY <2>1, <2>2 DEF Typed, TypeOK, SessionsOpened
        <3>2. Known(h, s)
            BY <1>5, <2>2 DEF FindSession
        <3>3. PICK new : Go(h, new) /\ new.pc \in {"idle", "score", "scores"}
            BY <1>0, <2>1, <3>1, <3>2, KnownIsValid
        <3> QED BY <1>1, <2>1, <2>p, <2>b, <3>3
    <2>3. CASE s = None /\ HasRedis
        <3>1. Step(h, "redis") /\ redis # "off"
            BY <1>5, <2>3 DEF FindSession, HasRedis
        <3>2. Go(h, [handler[h] EXCEPT !.pc = "redis"]) /\ [handler[h] EXCEPT !.pc = "redis"].pc = "redis"
            BY <1>0, <3>1 DEF Step, Go, Records
        <3> QED BY <2>1, <2>p, <3>1, <3>2 DEF Effect, Engaging, SyncSteps
    <2>4. CASE s = None /\ ~HasRedis
        <3>1. Unknown(h)
            BY <1>5, <2>4 DEF FindSession
        <3>2. PICK new : Go(h, new) /\ new.pc \in {"idle", "find", "score"}
            BY <1>0, <2>1, <3>1, UnknownIsValid
        <3> QED BY <1>1, <2>1, <2>p, <2>b, <3>2
    <2> QED BY <2>2, <2>3, <2>4
<1>6. CASE ReadStored(h)
    <2>1. handler[h].pc = "redis" /\ UNCHANGED <<mu, redis, activePKs>>
        BY <1>6 DEF ReadStored, At, pkVars
    <2>2. handler[h].pc \notin Engaging /\ redis # "off"
        BY <1>0, <2>1 DEF Engaging, Restoring
    <2> DEFINE new == [handler[h] EXCEPT !.pc = "restore", !.sess = stored[handler[h].to]]
    <2>3. CASE Go(h, new)
        <3>1. new.pc = "restore"
            BY <1>0 DEF Records
        <3> QED BY <2>1, <2>2, <2>3, <3>1 DEF Effect, Engaging, SyncSteps
    <2>4. CASE Unknown(h)
        <3>1. PICK u : Go(h, u) /\ u.pc \in {"idle", "find", "score"}
            BY <1>0, <2>1, <2>4, UnknownIsValid
        <3> QED BY <1>1, <2>1, <2>2, <3>1
    <2> QED BY <1>6, <2>3, <2>4 DEF ReadStored
<1>7. CASE RestoreSession(h)
    <2>1. handler[h].pc = "restore" /\ mu = None /\ UNCHANGED <<mu, redis>>
        BY <1>7 DEF RestoreSession, At
    <2>2. handler[h].pc \notin Engaging /\ redis # "off"
        BY <1>0, <2>1 DEF Engaging, Restoring
    <2>3. PICK new : Go(h, new) /\ new.pc \in {"idle", "score", "scores"}
        BY <1>0, <1>7, <2>1, KnownIsValid DEF RestoreSession, SessSteps
    <2> QED BY <2>1, <2>2, <2>3 DEF Effect, Engaging, Restoring, SyncSteps
<1>8. CASE AddHostScore(h)
    BY <1>2, <1>8 DEF AddHostScore, At, Engaging, pkVars
<1>9. CASE BufferScore(h)
    <2> DEFINE new == [handler[h] EXCEPT !.pc = "find", !.use = "sync"]
    <2>1. new.pc = "find"
        BY <1>0 DEF Records
    <2> QED BY <1>1, <1>9, <2>1 DEF BufferScore, At, Engaging, pkVars
<1>10. CASE ReadScores(h)
    <2>1. PICK a, b : Go(h, [handler[h] EXCEPT !.pc = "read1", !.scores = <<a, b>>])
        BY <1>10 DEF ReadScores
    <2>2. [handler[h] EXCEPT !.pc = "read1", !.scores = <<a, b>>].pc = "read1"
        BY <1>0 DEF Records
    <2> QED BY <1>1, <1>10, <2>1, <2>2 DEF ReadScores, Syncs, At, Engaging, SyncSteps, pkVars
<1>11. ASSUME NEW i \in 1..2, HideBattle(h, i) PROVE Goal
    <2>1. handler[h].pc \notin Engaging \cup {"buffer"} /\ UNCHANGED <<mu, redis, activePKs>>
        BY <1>11 DEF HideBattle, At, Engaging, pkVars
    <2>2. CASE i = 1
        BY <1>2, <1>11, <2>1, <2>2 DEF HideBattle
    <2>3. CASE i = 2
        BY <1>1, <1>11, <2>1, <2>3 DEF HideBattle, Idle
    <2> QED BY <2>2, <2>3
<1>12. ASSUME NEW i \in 1..2, LookupRoom(h, i) PROVE Goal
    <2> DEFINE r == handler[h].sess[i]
    <2> DEFINE new == [handler[h] EXCEPT
                          !.pc = IF i = 1 THEN "show1" ELSE "show2",
                          !.objects[i] = object[r],
                          !.scores[i] = IF @ = 0 THEN hostScore[r] ELSE @]
    <2>1. handler[h].pc \notin Engaging \cup {"buffer"} /\ UNCHANGED <<mu, redis, activePKs>>
        BY <1>12 DEF LookupRoom, At, Engaging, pkVars
    <2>2. CASE open[r]
        <3>1. new.pc \in SyncSteps
            BY <1>0 DEF Records, SyncSteps
        <3> QED BY <1>1, <1>12, <2>1, <2>2, <3>1 DEF LookupRoom, Syncs
    <2>3. CASE ~open[r] /\ i = 1
        BY <1>2, <1>12, <2>1, <2>3 DEF LookupRoom, Syncs, SyncSteps
    <2>4. CASE ~open[r] /\ i = 2
        <3>1. PICK u : Go(h, u) /\ u.pc \in {"idle", "find"}
            BY <1>0, <1>12, <2>4, NextSyncIsValid DEF LookupRoom
        <3> QED BY <1>1, <2>1, <3>1
    <2> QED BY <2>2, <2>3, <2>4
<1>13. ASSUME NEW i \in 1..2, ShowScores(h, i) PROVE Goal
    <2> DEFINE rec == handler[h]
               new == [rec EXCEPT !.pc = "read2", !.objects = <<0, 0>>]
    <2>1. handler[h].pc \notin Engaging \cup {"buffer"} /\ UNCHANGED <<mu, redis, activePKs>>
        BY <1>13 DEF ShowScores, At, Engaging, pkVars
    <2>2. CASE i = 1
        <3>1. new.pc = "read2"
            BY <1>0 DEF Records
        <3> QED BY <1>1, <1>13, <2>1, <2>2, <3>1 DEF ShowScores, Syncs, SyncSteps
    <2>3. CASE i = 2
        <3>1. PICK u : Go(h, u) /\ u.pc \in {"idle", "find"}
            BY <1>0, <1>13, <2>3, NextSyncIsValid DEF ShowScores
        <3> QED BY <1>1, <2>1, <3>1
    <2> QED BY <2>2, <2>3
<1> QED BY <1>4, <1>5, <1>6, <1>7, <1>8, <1>9, <1>10, <1>11, <1>12, <1>13 DEF Handle

(* The steps that change neither mu nor activePKs nor a handler inside StartPK. *)
LEMMA PKKept ==
    ASSUME Typed, PKInv, NEW h \in Handlers, NEW new, Go(h, new), redis' = redis, mu' = mu,
           handler[h].pc \notin Engaging, new.pc \notin Engaging,
           redis = "off" => new.pc \notin Restoring,
           activePKs' = activePKs \/ (mu = None /\ redis # "off")
    PROVE  PKInv'
<1>1. handler' = [handler EXCEPT ![h] = new] /\ handler \in [Handlers -> Records]
    BY DEF Go, Typed, HandlersValid
<1>2. \A k \in Handlers : handler'[k] = IF k = h THEN new ELSE handler[k]
    BY <1>1
<1>3. MuHeld'
    BY <1>2 DEF PKInv, MuHeld
<1>4. NothingRestored'
    BY <1>2 DEF PKInv, NothingRestored
<1>5. EngageFree'
    <2> SUFFICES ASSUME NEW k \in Handlers, handler'[k].pc = "engage"
                 PROVE  /\ activePKs'[handler'[k].sess[1]] = None
                        /\ activePKs'[handler'[k].sess[2]] = None
        BY DEF EngageFree
    <2>1. k # h /\ handler[k] = handler'[k]
        BY <1>2 DEF Engaging
    <2>2. mu = k /\ k # None
        BY <2>1, PKAssumption DEF PKInv, MuHeld, Engaging
    <2> QED BY <2>1, <2>2 DEF PKInv, EngageFree
<1>6. SessionsPaired'
    BY DEF PKInv, SessionsPaired
<1> QED BY <1>3, <1>4, <1>5, <1>6 DEF PKInv

LEMMA PKInvStep == Typed /\ PKInv /\ [Next]_vars => PKInv'
<1> SUFFICES ASSUME Typed, PKInv, [Next]_vars PROVE PKInv'
    OBVIOUS
<1>0. /\ handler \in [Handlers -> Records] /\ activePKs \in [RoomIDs -> Sessions \cup {None}]
      /\ None \notin Handlers /\ None \notin Sessions
      /\ \A h \in Handlers : Valid(handler[h])
      /\ MuHeld /\ EngageFree /\ NothingRestored /\ SessionsPaired
    BY PKAssumption DEF Typed, TypeOK, HandlersValid, PKInv
<1>1. ASSUME UNCHANGED <<redis, activePKs, mu, handler>> PROVE PKInv'
    BY <1>0, <1>1 DEF PKInv, MuHeld, EngageFree, NothingRestored, SessionsPaired
<1>2. ASSUME NEW h \in Handlers, NEW pc \in {"find", "score"}, NEW new, new.pc = pc, Go(h, new),
             At(h, "idle"), UNCHANGED <<redis, activePKs, mu>>
      PROVE  PKInv'
    BY <1>2, PKKept DEF At, Engaging, Restoring
<1>3. CASE Crash
    <2>1. handler' = [h \in Handlers |-> Idle] /\ mu' = None /\ activePKs' = [r \in RoomIDs |-> None]
        BY <1>3 DEF Crash
    <2>2. \A h \in Handlers : handler'[h].pc = "idle"
        BY <2>1 DEF Idle
    <2> QED BY <1>0, <2>1, <2>2
            DEF PKInv, MuHeld, EngageFree, NothingRestored, SessionsPaired, Engaging, Restoring
<1>4. ASSUME NEW h \in Hosts, NEW s \in Sessions, StartPK(h, s) PROVE PKInv'
    <2> DEFINE new == [Idle EXCEPT !.pc = "engage", !.sess = s, !.objects = <<object[s[1]], object[s[2]]>>]
    <2>1. h \in Handlers /\ mu = None /\ mu' = h /\ Go(h, new) /\ UNCHANGED <<redis, activePKs>>
        BY <1>4 DEF StartPK, Handlers
    <2>2. new.pc = "engage" /\ new.sess = s
        BY DEF Idle
    <2>3. handler' = [handler EXCEPT ![h] = new]
        BY <2>1 DEF Go
    <2> HIDE DEF new
    <2>4. \A k \in Handlers : handler'[k] = IF k = h THEN new ELSE handler[k]
        BY <1>0, <2>3
    <2>5. MuHeld'
        BY <1>0, <2>1, <2>2, <2>4 DEF MuHeld, Engaging
    <2>6. EngageFree'
        <3>1. activePKs[s[1]] = None /\ activePKs[s[2]] = None
            BY <1>4 DEF StartPK
        <3> QED BY <1>0, <2>1, <2>2, <2>4, <3>1 DEF EngageFree
    <2>7. NothingRestored'
        BY <1>0, <2>1, <2>2, <2>4 DEF NothingRestored, Restoring
    <2> QED BY <1>0, <2>1, <2>5, <2>6, <2>7 DEF PKInv, SessionsPaired
<1>5. ASSUME NEW h \in Hosts, NEW r \in RoomIDs, StopPK(h, r) PROVE PKInv'
    <2> DEFINE s == activePKs[r]
    <2> DEFINE new == [Idle EXCEPT !.pc = "unstore", !.sess = s]
    <2>1. h \in Handlers /\ mu = None /\ mu' = mu /\ redis' = redis /\ Go(h, new) /\ At(h, "idle")
        BY <1>5 DEF StopPK, Handlers
    <2>2. new.pc = "unstore"
        BY DEF Idle
    <2>3. s \in Sessions /\ activePKs' = [activePKs EXCEPT ![s[1]] = None, ![s[2]] = None]
        BY <1>0, <1>5 DEF StopPK
    <2>4. s[1] \in RoomIDs /\ s[2] \in RoomIDs
        BY <2>3, SessionRooms
    <2>5. \A q \in RoomIDs : activePKs'[q] = IF q \in {s[1], s[2]} THEN None ELSE activePKs[q]
        BY <1>0, <2>3, <2>4
    <2>6. handler' = [handler EXCEPT ![h] = new]
        BY <2>1 DEF Go
    <2> HIDE DEF new
    <2>7. \A k \in Handlers : handler'[k] = IF k = h THEN new ELSE handler[k]
        BY <1>0, <2>6
    <2>8. MuHeld' /\ NothingRestored'
        BY <1>0, <2>1, <2>2, <2>7 DEF MuHeld, NothingRestored, Engaging, Restoring, At
    <2>9. EngageFree'
        BY <1>0, <2>1, <2>2, <2>7 DEF EngageFree, MuHeld, Engaging
    <2>10. SessionsPaired'
        <3> SUFFICES ASSUME redis = "off", NEW q \in RoomIDs, activePKs'[q] # None
                     PROVE  LET t == activePKs'[q]
                            IN q \in {t[1], t[2]} /\ activePKs'[t[1]] = t /\ activePKs'[t[2]] = t
            BY <2>1 DEF SessionsPaired
        <3> DEFINE t == activePKs[q]
        <3>1. q \notin {s[1], s[2]} /\ activePKs'[q] = t /\ t # None
            BY <2>5
        <3>2. q \in {t[1], t[2]} /\ activePKs[t[1]] = t /\ activePKs[t[2]] = t
            BY <1>0, <3>1 DEF SessionsPaired
        <3>3. activePKs[s[1]] = s /\ activePKs[s[2]] = s
            BY <1>0, <2>3 DEF SessionsPaired
        <3>4. t \in Sessions /\ t[1] \in RoomIDs /\ t[2] \in RoomIDs
            BY <1>0, <3>1, SessionRooms
        <3>5. t[1] \notin {s[1], s[2]} /\ t[2] \notin {s[1], s[2]}
            BY <3>1, <3>2, <3>3
        <3> QED BY <2>5, <3>1, <3>2, <3>4, <3>5
    <2> QED BY <2>8, <2>9, <2>10 DEF PKInv
<1>6. ASSUME NEW h \in Handlers, EngageRooms(h) PROVE PKInv'
    <2> DEFINE s == handler[h].sess
    <2> DEFINE new == [handler[h] EXCEPT !.pc = "save"]
    <2>1. /\ At(h, "engage") /\ mu' = mu /\ redis' = redis
          /\ handler' = [handler EXCEPT ![h].pc = "save"]
          /\ activePKs' = [r \in RoomIDs |-> IF r \in {s[1], s[2]} THEN s ELSE activePKs[r]]
        BY <1>6 DEF EngageRooms, Step
    <2>2. s \in Sessions /\ s[1] \in RoomIDs /\ s[2] \in RoomIDs
        BY <1>0, <2>1, SessionRooms DEF Valid, At, SessSteps
    <2>3. new.pc = "save" /\ handler' = [handler EXCEPT ![h] = new]
        BY <1>0, <2>1 DEF Records
    <2> HIDE DEF new
    <2>4. \A k \in Handlers : handler'[k] = IF k = h THEN new ELSE handler[k]
        BY <1>0, <2>3
    <2>5. mu = h /\ \A k \in Handlers : handler[k].pc \in Engaging => k = h
        BY <1>0, <2>1 DEF MuHeld, Engaging, At
    <2>6. MuHeld' /\ NothingRestored' /\ EngageFree'
        BY <1>0, <2>1, <2>3, <2>4, <2>5 DEF MuHeld, NothingRestored, EngageFree, Engaging, Restoring
    <2>7. activePKs[s[1]] = None /\ activePKs[s[2]] = None
        BY <1>0, <2>1 DEF EngageFree, At
    <2>8. SessionsPaired'
        <3> SUFFICES ASSUME redis = "off", NEW q \in RoomIDs, activePKs'[q] # None
                     PROVE  LET t == activePKs'[q]
                            IN q \in {t[1], t[2]} /\ activePKs'[t[1]] = t /\ activePKs'[t[2]] = t
            BY <2>1 DEF SessionsPaired
        <3>1. CASE q \in {s[1], s[2]}
            BY <2>1, <2>2, <3>1
        <3>2. CASE q \notin {s[1], s[2]}
            <4> DEFINE t == activePKs[q]
            <4>1. activePKs'[q] = t /\ t # None
                BY <2>1, <3>2
            <4>2. q \in {t[1], t[2]} /\ activePKs[t[1]] = t /\ activePKs[t[2]] = t
                BY <1>0, <4>1 DEF SessionsPaired
            <4>3. t[1] \in RoomIDs /\ t[2] \in RoomIDs
                BY <1>0, <4>1, SessionRooms
            <4>4. t[1] \notin {s[1], s[2]} /\ t[2] \notin {s[1], s[2]}
                BY <2>7, <4>1, <4>2
            <4> QED BY <2>1, <4>1, <4>2, <4>3, <4>4
        <3> QED BY <3>1, <3>2
    <2> QED BY <2>6, <2>8 DEF PKInv
<1>7. ASSUME NEW h \in Handlers, SavePKSession(h) PROVE PKInv'
    <2>1. handler' = [handler EXCEPT ![h] = Idle] /\ mu' = None /\ UNCHANGED <<redis, activePKs>> /\ At(h, "save")
        BY <1>7 DEF SavePKSession, Go
    <2>2. \A k \in Handlers : handler'[k] = IF k = h THEN Idle ELSE handler[k]
        BY <1>0, <2>1
    <2>3. Idle.pc = "idle"
        BY DEF Idle
    <2>4. \A k \in Handlers : handler[k].pc \in Engaging => k = h
        BY <1>0, <2>1 DEF MuHeld, Engaging, At
    <2> QED BY <1>0, <2>1, <2>2, <2>3, <2>4
            DEF PKInv, MuHeld, EngageFree, NothingRestored, SessionsPaired, Engaging, Restoring
<1>8. ASSUME NEW h \in Handlers, Handle(h) PROVE PKInv'
    <2>1. CASE EngageRooms(h) \/ SavePKSession(h)
        BY <1>6, <1>7, <2>1
    <2>2. CASE ~EngageRooms(h) /\ ~SavePKSession(h)
        BY <1>0, <1>8, <2>2, OtherSteps, PKKept DEF Effect
    <2> QED BY <2>1, <2>2
<1>9. ASSUME NEW h \in Givers, NEW r \in RoomIDs, AskSession(h, r) PROVE PKInv'
    <2> DEFINE new == [Idle EXCEPT !.pc = "find", !.use = "ask", !.to = r]
    <2>1. new.pc = "find" /\ Go(h, new) /\ At(h, "idle") /\ UNCHANGED <<redis, activePKs, mu>>
        BY <1>9 DEF AskSession, pkVars, Idle
    <2> QED BY <1>2, <2>1 DEF Handlers
<1>10. ASSUME NEW h \in Givers, NEW r \in RoomIDs, ReceiveGift(h, r) PROVE PKInv'
    <2> DEFINE gift == [Idle EXCEPT !.from = r, !.to = r, !.pc = "score"]
    <2>1. At(h, "idle") /\ UNCHANGED <<redis, activePKs, mu>> /\ h \in Handlers
        BY <1>10 DEF ReceiveGift, pkVars, Handlers
    <2>2. gift.pc = "score" /\ [gift EXCEPT !.to = linkedRoom[r]].pc = "score"
          /\ [gift EXCEPT !.pc = "find", !.use = "target"].pc = "find"
        BY DEF Idle
    <2>3. \/ Go(h, gift) \/ Go(h, [gift EXCEPT !.to = linkedRoom[r]])
          \/ Go(h, [gift EXCEPT !.pc = "find", !.use = "target"])
        BY <1>10 DEF ReceiveGift
    <2> QED BY <1>2, <2>1, <2>2, <2>3
<1>11. ASSUME NEW r \in RoomIDs, OpenRoom(r) \/ CloseRoom(r) PROVE PKInv'
    BY <1>1, <1>11 DEF OpenRoom, CloseRoom, pkVars
<1> QED BY <1>1, <1>3, <1>4, <1>5, <1>8, <1>9, <1>10, <1>11
        DEF Next, vars, pkVars, Flush, TakePending, BatchIncrementScores

LEMMA PKInvInit == Init => PKInv
<1> SUFFICES ASSUME Init PROVE PKInv
    OBVIOUS
<1>1. \A h \in Handlers : handler[h].pc = "idle"
    BY DEF Init, Idle
<1>2. None \notin Handlers /\ mu = None
    BY PKAssumption DEF Init
<1> QED BY <1>1, <1>2
        DEF Init, PKInv, MuHeld, EngageFree, NothingRestored, SessionsPaired, Engaging, Restoring

LEMMA PKInvariant == Spec => [](Typed /\ PKInv)
    BY TypedInit, TypedStep, PKInvInit, PKInvStep, PTL DEF Spec

(* SessionsPaired: without Redis, a session stands under both of its rooms or
   under neither, whatever starts, stops, closes or restarts meanwhile. *)
THEOREM SessionsArePaired == Spec => []SessionsPaired
<1>1. PKInv => SessionsPaired
    BY DEF PKInv
<1> QED BY <1>1, PKInvariant, PTL

-----------------------------------------------------------------------------
(* A number of points that the first room under a name has earned: once true
   of a number it stays true, since the score of a room grows while it is
   open and a name is never the first again. *)
Earned(n, r) ==
    /\ object[r] = 0 => n = 0
    /\ open[r] /\ object[r] = 1 => n <= hostScore[r]

LEMMA EarnedStays ==
    ASSUME Typed, [Next]_vars, NEW n \in Nat, NEW r \in RoomIDs, Earned(n, r)
    PROVE  Earned(n, r)'
<1>0. /\ RoomTypes /\ \A h \in Handlers : handler[h].pc \in ToSteps => handler[h].to \in RoomIDs
    BY DEF Typed, TypeOK, RoomTypes, HandlersValid, Valid
<1>1. CASE UNCHANGED <<open, object, hostScore>>
    BY <1>1 DEF Earned
<1>2. ASSUME NEW q \in RoomIDs, OpenRoom(q) PROVE Earned(n, r)'
    <2>1. CASE q # r
        BY <1>0, <1>2, <2>1 DEF OpenRoom, RoomTypes, Earned
    <2>2. CASE q = r
        <3>1. object'[r] = object[r] + 1 /\ object[r] \in Nat /\ hostScore'[r] = 0
            BY <1>0, <1>2, <2>2 DEF OpenRoom, RoomTypes
        <3> QED BY <3>1 DEF Earned
    <2> QED BY <2>1, <2>2
<1>3. ASSUME NEW q \in RoomIDs, CloseRoom(q) PROVE Earned(n, r)'
    BY <1>0, <1>3 DEF CloseRoom, RoomTypes, Earned
<1>4. CASE Crash
    BY <1>0, <1>4 DEF Crash, RoomTypes, Earned
<1>5. ASSUME NEW h \in Handlers, AddHostScore(h) PROVE Earned(n, r)'
    <2>1. /\ UNCHANGED <<open, object>> /\ hostScore[r] \in Nat
          /\ hostScore'[r] = hostScore[r] \/ hostScore'[r] = hostScore[r] + 1
        BY <1>0, <1>5 DEF AddHostScore, At, ToSteps, RoomTypes
    <2> QED BY <2>1 DEF Earned
<1> QED BY <1>1, <1>2, <1>3, <1>4, <1>5, HandlersWrite
        DEF Next, vars, roomVars, StartPK, StopPK, AskSession, ReceiveGift, Flush, TakePending,
            BatchIncrementScores

-----------------------------------------------------------------------------
(* The gifts in hand. *)

Holders(r) == {h \in Handlers : At(h, "buffer") /\ handler[h].to = r}

LEMMA HoldersFinite ==
    ASSUME NEW r
    PROVE  IsFiniteSet(Holders(r)) /\ InHand(r) = Cardinality(Holders(r)) /\ InHand(r) \in Nat
<1>1. Holders(r) \subseteq Handlers
    BY DEF Holders
<1>2. IsFiniteSet(Holders(r))
    BY <1>1, PKAssumption, FS_Subset
<1> QED BY <1>2, FS_CardinalityType DEF InHand, Holders

LEMMA InHandKept ==
    ASSUME HandlersValid, NEW h \in Handlers, NEW new, Go(h, new), NEW r,
           handler[h].pc # "buffer" \/ handler[h].to # r,
           new.pc # "buffer" \/ new.to # r
    PROVE  InHand(r)' = InHand(r)
<1>1. \A k \in Handlers : handler'[k] = IF k = h THEN new ELSE handler[k]
    BY DEF HandlersValid, Go
<1>2. {k \in Handlers : At(k, "buffer")' /\ handler'[k].to = r}
        = {k \in Handlers : At(k, "buffer") /\ handler[k].to = r}
    BY <1>1 DEF At
<1> QED BY <1>2 DEF InHand

LEMMA InHandTaken ==
    ASSUME HandlersValid, NEW h \in Handlers, NEW new, Go(h, new), NEW r,
           handler[h].pc # "buffer", new.pc = "buffer", new.to = r
    PROVE  InHand(r)' = InHand(r) + 1
<1>1. \A k \in Handlers : handler'[k] = IF k = h THEN new ELSE handler[k]
    BY DEF HandlersValid, Go
<1>2. Holders(r)' = Holders(r) \cup {h} /\ h \notin Holders(r)
    BY <1>1 DEF At, Holders
<1>3. Cardinality(Holders(r) \cup {h}) = Cardinality(Holders(r)) + 1
    BY <1>2, HoldersFinite, FS_AddElement
<1> QED BY <1>2, <1>3 DEF InHand, Holders

LEMMA InHandGiven ==
    ASSUME HandlersValid, NEW h \in Handlers, NEW new, Go(h, new), NEW r,
           handler[h].pc = "buffer", handler[h].to = r, new.pc # "buffer"
    PROVE  InHand(r)' + 1 = InHand(r)
<1>1. \A k \in Handlers : handler'[k] = IF k = h THEN new ELSE handler[k]
    BY DEF HandlersValid, Go
<1>2. Holders(r)' = Holders(r) \ {h} /\ h \in Holders(r)
    BY <1>1 DEF At, Holders
<1>3. Cardinality(Holders(r) \ {h}) = Cardinality(Holders(r)) - 1 /\ Cardinality(Holders(r)) \in Nat
    BY <1>2, HoldersFinite, FS_RemoveElement, FS_CardinalityType
<1>4. Cardinality(Holders(r)') + 1 = Cardinality(Holders(r))
    BY <1>2, <1>3
<1> QED BY <1>4 DEF InHand, Holders

-----------------------------------------------------------------------------
(* Ledger, for closed rooms too. *)

Balanced(r) ==
    /\ Earned(OnTheWay(r), r)
    /\ redis = "good" /\ open[r] => hostScore[r] <= OnTheWay(r)

AllBalanced == \A r \in RoomIDs : Balanced(r)

LEMMA BalancedStep == Typed /\ PKInv /\ AllBalanced /\ [Next]_vars => AllBalanced'
<1> SUFFICES ASSUME Typed, PKInv, AllBalanced, [Next]_vars, NEW r \in RoomIDs PROVE Balanced(r)'
    BY DEF AllBalanced
<1>0. /\ RoomTypes /\ ScoreTypes /\ HandlersValid /\ Balanced(r)
      /\ \A h \in Handlers : /\ handler[h] \in Records
                             /\ handler[h].pc \in ToSteps =>
                                  handler[h].to \in RoomIDs /\ Opened(handler[h].to)
    BY PKAssumption DEF Typed, TypeOK, RoomTypes, ScoreTypes, HandlersValid, Valid, AllBalanced
<1>n. /\ redisScore[r] \in Nat /\ pending[r] \in Nat /\ deltas[r] \in Nat /\ InHand(r) \in Nat
      /\ OnTheWay(r) \in Nat /\ hostScore[r] \in Nat /\ object[r] \in Nat
    BY <1>0, HoldersFinite DEF RoomTypes, ScoreTypes, OnTheWay
<1>p. InHand(r)' \in Nat
    <2>1. IsFiniteSet(Holders(r)')
        <3>1. Holders(r)' \subseteq Handlers
            BY DEF Holders
        <3> QED BY <3>1, PKAssumption, FS_Subset
    <2> QED BY <2>1, FS_CardinalityType DEF InHand, Holders
(* Less on its way is still earned. *)
<1>1. ASSUME OnTheWay(r)' \in Nat, OnTheWay(r)' <= OnTheWay(r),
             redis' = "good" /\ open'[r] => hostScore'[r] <= OnTheWay(r)'
      PROVE  Balanced(r)'
    <2>1. Earned(OnTheWay(r), r)
        BY <1>0 DEF Balanced
    <2>2. Earned(OnTheWay(r)', r)
        BY <1>1, <1>n, <2>1 DEF Earned
    <2>3. \A n \in Nat : Earned(n, r) => Earned(n, r)'
        BY EarnedStays
    <2>4. \A n \in Nat : Earned(n, r)' <=> (/\ object'[r] = 0 => n = 0
                                            /\ open'[r] /\ object'[r] = 1 => n <= hostScore'[r])
        BY DEF Earned
    <2>5. /\ object'[r] = 0 => OnTheWay(r)' = 0
          /\ open'[r] /\ object'[r] = 1 => OnTheWay(r)' <= hostScore'[r]
        BY <1>1, <2>2, <2>3, <2>4
    <2> QED BY <1>1, <2>5 DEF Balanced, Earned
<1>2. ASSUME OnTheWay(r)' = OnTheWay(r), redis' = redis,
             redis = "good" /\ open'[r] =>
                 (open[r] /\ hostScore'[r] = hostScore[r]) \/ hostScore'[r] = 0
      PROVE  Balanced(r)'
    BY <1>0, <1>1, <1>2, <1>n DEF Balanced
<1>3. ASSUME handler' = handler PROVE InHand(r)' = InHand(r)
    BY <1>3 DEF InHand, At
<1>4. ASSUME UNCHANGED scoreVars, InHand(r)' = InHand(r) PROVE OnTheWay(r)' = OnTheWay(r)
    BY <1>4 DEF OnTheWay, scoreVars
<1>5. CASE UNCHANGED vars
    BY <1>2, <1>3, <1>4, <1>5 DEF vars, roomVars
<1>6. ASSUME NEW q \in RoomIDs, OpenRoom(q) PROVE Balanced(r)'
    <2>1. OnTheWay(r)' = OnTheWay(r) /\ redis' = redis
        BY <1>3, <1>4, <1>6 DEF OpenRoom
    <2>2. hostScore'[r] = 0 \/ (hostScore'[r] = hostScore[r] /\ open'[r] = open[r])
        BY <1>0, <1>6 DEF OpenRoom, RoomTypes
    <2> QED BY <1>2, <2>1, <2>2
<1>7. ASSUME NEW q \in RoomIDs, CloseRoom(q) PROVE Balanced(r)'
    <2>1. /\ UNCHANGED <<redis, pending, deltas>> /\ InHand(r)' = InHand(r)
          /\ redisScore'[r] = redisScore[r] \/ (q = r /\ redisScore'[r] = 0)
        BY <1>0, <1>3, <1>7 DEF CloseRoom, ScoreTypes
    <2>2. CASE q = r
        <3>1. ~open'[r]
            BY <1>0, <1>7, <2>2 DEF CloseRoom, RoomTypes
        <3>2. OnTheWay(r)' \in Nat /\ OnTheWay(r)' <= OnTheWay(r)
            BY <1>n, <2>1 DEF OnTheWay
        <3> QED BY <1>1, <3>1, <3>2
    <2>3. CASE q # r
        <3>1. open'[r] = open[r] /\ hostScore'[r] = hostScore[r]
            BY <1>0, <1>7, <2>3 DEF CloseRoom, RoomTypes
        <3>2. OnTheWay(r)' = OnTheWay(r)
            BY <2>1, <2>3 DEF OnTheWay
        <3> QED BY <1>2, <2>1, <3>1, <3>2
    <2> QED BY <2>2, <2>3
<1>8. CASE Crash
    <2>1. /\ pending'[r] = 0 /\ deltas'[r] = 0 /\ redisScore' = redisScore /\ ~open'[r]
          /\ handler' = [h \in Handlers |-> Idle]
        BY <1>8 DEF Crash
    <2>2. Holders(r)' = {}
        BY <2>1 DEF Holders, At, Idle
    <2>3. InHand(r)' = 0
        BY <2>2, FS_EmptySet DEF InHand, Holders
    <2>4. OnTheWay(r)' \in Nat /\ OnTheWay(r)' <= OnTheWay(r)
        BY <1>n, <2>1, <2>3 DEF OnTheWay
    <2> QED BY <1>1, <2>1, <2>4
<1>9. ASSUME NEW h \in Handlers, NEW new, Go(h, new), handler[h].pc # "buffer", new.pc # "buffer",
             UNCHANGED <<redis, open, hostScore, scoreVars>>
      PROVE  Balanced(r)'
    <2>1. InHand(r)' = InHand(r)
        BY <1>0, <1>9, InHandKept
    <2> QED BY <1>0, <1>2, <1>4, <1>9, <2>1 DEF RoomTypes
<1>10. ASSUME NEW h \in Hosts, NEW s \in Sessions, StartPK(h, s) PROVE Balanced(r)'
    <2>1. [Idle EXCEPT !.pc = "engage", !.sess = s, !.objects = <<object[s[1]], object[s[2]]>>].pc = "engage"
        BY DEF Idle
    <2> QED BY <1>9, <1>10, <2>1 DEF StartPK, At, Handlers, roomVars
<1>11. ASSUME NEW h \in Hosts, NEW q \in RoomIDs, StopPK(h, q) PROVE Balanced(r)'
    <2>1. [Idle EXCEPT !.pc = "unstore", !.sess = activePKs[q]].pc = "unstore"
        BY DEF Idle
    <2> QED BY <1>9, <1>11, <2>1 DEF StopPK, At, Handlers, roomVars
<1>12. ASSUME NEW h \in Givers, NEW q \in RoomIDs, AskSession(h, q) PROVE Balanced(r)'
    <2>1. [Idle EXCEPT !.pc = "find", !.use = "ask", !.to = q].pc = "find"
        BY DEF Idle
    <2> QED BY <1>9, <1>12, <2>1 DEF AskSession, At, Handlers, roomVars
<1>13. ASSUME NEW h \in Givers, NEW q \in RoomIDs, ReceiveGift(h, q) PROVE Balanced(r)'
    <2> DEFINE gift == [Idle EXCEPT !.from = q, !.to = q, !.pc = "score"]
    <2>1. At(h, "idle") /\ UNCHANGED <<redis, open, hostScore, scoreVars>> /\ h \in Handlers
        BY <1>13 DEF ReceiveGift, roomVars, Handlers
    <2>2. gift.pc = "score" /\ [gift EXCEPT !.to = linkedRoom[q]].pc = "score"
          /\ [gift EXCEPT !.pc = "find", !.use = "target"].pc = "find"
        BY DEF Idle
    <2>3. \/ Go(h, gift) \/ Go(h, [gift EXCEPT !.to = linkedRoom[q]])
          \/ Go(h, [gift EXCEPT !.pc = "find", !.use = "target"])
        BY <1>13 DEF ReceiveGift
    <2> QED BY <1>9, <2>1, <2>2, <2>3 DEF At
<1>14. ASSUME NEW h \in Handlers, AddHostScore(h) PROVE Balanced(r)'
    <2> DEFINE q == handler[h].to
    <2> DEFINE new == [handler[h] EXCEPT !.pc = "buffer"]
    <2>1. /\ q \in RoomIDs /\ Opened(q) /\ handler[h].pc = "score"
          /\ UNCHANGED <<redis, scoreVars, open, object>>
          /\ hostScore' = [hostScore EXCEPT ![q] = IF open[q] THEN @ + 1 ELSE @]
        BY <1>0, <1>14 DEF AddHostScore, At, ToSteps
    <2>2. Go(h, new) /\ new.pc = "buffer" /\ new.to = q
        BY <1>0, <1>14 DEF AddHostScore, Step, Go, Records
    <2>3. CASE q # r
        <3>1. InHand(r)' = InHand(r)
            BY <1>0, <2>1, <2>2, <2>3, InHandKept
        <3>2. hostScore'[r] = hostScore[r]
            BY <1>0, <2>1, <2>3 DEF RoomTypes
        <3> QED BY <1>2, <1>4, <2>1, <3>1, <3>2
    <2>4. CASE q = r
        <3>1. InHand(r)' = InHand(r) + 1
            BY <1>0, <2>1, <2>2, <2>4, InHandTaken
        <3>2. OnTheWay(r)' = OnTheWay(r) + 1
            BY <1>n, <2>1, <3>1 DEF OnTheWay, scoreVars
        <3>3. open[r] => hostScore'[r] = hostScore[r] + 1
            BY <1>0, <2>1, <2>4 DEF RoomTypes
        <3>4. object[r] # 0
            BY <1>n, <2>1, <2>4 DEF Opened
        <3>5. /\ object'[r] = object[r] /\ open'[r] = open[r] /\ redis' = redis
            BY <2>1
        <3>6. /\ open[r] /\ object[r] = 1 => OnTheWay(r) <= hostScore[r]
              /\ redis = "good" /\ open[r] => hostScore[r] <= OnTheWay(r)
            BY <1>0 DEF Balanced, Earned
        <3>7. /\ open'[r] /\ object'[r] = 1 => OnTheWay(r)' <= hostScore'[r]
              /\ redis' = "good" /\ open'[r] => hostScore'[r] <= OnTheWay(r)'
            BY <1>n, <3>2, <3>3, <3>5, <3>6
        <3> QED BY <3>4, <3>5, <3>7 DEF Balanced, Earned
    <2> QED BY <2>3, <2>4
<1>15. ASSUME NEW h \in Handlers, BufferScore(h) PROVE Balanced(r)'
    <2> DEFINE q == handler[h].to
    <2> DEFINE new == [handler[h] EXCEPT !.pc = "find", !.use = "sync"]
    <2>1. /\ q \in RoomIDs /\ handler[h].pc = "buffer" /\ UNCHANGED <<redis, open, hostScore, deltas, redisScore>>
          /\ pending' = [pending EXCEPT ![q] = @ + 1] /\ Go(h, new)
        BY <1>0, <1>15 DEF BufferScore, At, ToSteps, roomVars
    <2>2. new.pc = "find"
        BY <1>0 DEF Records
    <2>3. CASE q # r
        <3>1. InHand(r)' = InHand(r)
            BY <1>0, <2>1, <2>2, <2>3, InHandKept
        <3>2. pending'[r] = pending[r]
            BY <1>0, <2>1, <2>3 DEF ScoreTypes
        <3>3. OnTheWay(r)' = OnTheWay(r)
            BY <2>1, <3>1, <3>2 DEF OnTheWay
        <3> QED BY <1>0, <1>2, <2>1, <3>3
    <2>4. CASE q = r
        <3>1. InHand(r)' + 1 = InHand(r)
            BY <1>0, <2>1, <2>2, <2>4, InHandGiven
        <3>2. pending'[r] = pending[r] + 1
            BY <1>0, <2>1, <2>4 DEF ScoreTypes
        <3>3. OnTheWay(r)' = OnTheWay(r)
            BY <1>n, <1>p, <2>1, <3>1, <3>2 DEF OnTheWay
        <3> QED BY <1>2, <2>1, <3>3
    <2> QED BY <2>3, <2>4
<1>16. ASSUME NEW h \in Handlers, Handle(h), ~AddHostScore(h), ~BufferScore(h) PROVE Balanced(r)'
    <2>1. UNCHANGED <<redis, open, hostScore, scoreVars>>
        BY <1>16 DEF Handle, roomVars, EngageRooms, SavePKSession, DeletePKSession, FindSession,
               ReadStored, RestoreSession, ReadScores, HideBattle, LookupRoom, ShowScores
    <2>2. CASE EngageRooms(h)
        <3>1. /\ handler[h].pc = "engage" /\ Go(h, [handler[h] EXCEPT !.pc = "save"])
              /\ [handler[h] EXCEPT !.pc = "save"].pc = "save"
            BY <1>0, <2>2 DEF EngageRooms, At, Step, Go, Records
        <3> QED BY <1>9, <2>1, <3>1
    <2>3. CASE SavePKSession(h)
        BY <1>9, <2>1, <2>3 DEF SavePKSession, At, Idle
    <2>4. CASE ~EngageRooms(h) /\ ~SavePKSession(h)
        <3>1. PICK new : Go(h, new) /\ handler[h].pc # "buffer" /\ new.pc # "buffer"
            BY <1>16, <2>4, OtherSteps DEF Effect, PKInv
        <3> QED BY <1>9, <2>1, <3>1
    <2> QED BY <2>2, <2>3, <2>4
<1>17. CASE TakePending
    <2>1. /\ deltas[r] = 0 /\ deltas' = pending /\ pending'[r] = 0
          /\ UNCHANGED <<redis, open, hostScore, redisScore, handler>>
        BY <1>17 DEF TakePending, roomVars
    <2>2. OnTheWay(r)' = OnTheWay(r)
        BY <1>3, <1>n, <2>1 DEF OnTheWay
    <2> QED BY <1>2, <2>1, <2>2
<1>18. CASE BatchIncrementScores
    <2>1. PICK done \in SUBSET RoomIDs :
              /\ redis = "good" => done = RoomIDs
              /\ redisScore' = [q \in RoomIDs |->
                                   IF q \in done THEN redisScore[q] + deltas[q] ELSE redisScore[q]]
        BY <1>18 DEF BatchIncrementScores
    <2>2. deltas'[r] = 0 /\ UNCHANGED <<redis, open, hostScore, pending, handler>>
        BY <1>18 DEF BatchIncrementScores, roomVars
    <2>3. redisScore'[r] \in {redisScore[r] + deltas[r], redisScore[r]}
          /\ (redis = "good" => redisScore'[r] = redisScore[r] + deltas[r])
        BY <2>1
    <2>4. InHand(r)' = InHand(r)
        BY <1>3, <2>2
    <2>5. /\ OnTheWay(r)' \in Nat /\ OnTheWay(r)' <= OnTheWay(r)
          /\ redis = "good" => OnTheWay(r)' = OnTheWay(r)
        BY <1>n, <2>2, <2>3, <2>4 DEF OnTheWay
    <2>6. redis = "good" /\ open[r] => hostScore[r] <= OnTheWay(r)
        BY <1>0 DEF Balanced
    <2> QED BY <1>1, <2>2, <2>5, <2>6
<1> QED BY <1>5, <1>6, <1>7, <1>8, <1>10, <1>11, <1>12, <1>13, <1>14, <1>15, <1>16, <1>17, <1>18
        DEF Next, Flush

LEMMA BalancedInit == Init => AllBalanced
<1> SUFFICES ASSUME Init, NEW r \in RoomIDs PROVE Balanced(r)
    BY DEF AllBalanced
<1>1. Holders(r) = {}
    BY DEF Init, Holders, At, Idle
<1>2. InHand(r) = 0
    BY <1>1, FS_EmptySet DEF InHand, Holders
<1>3. OnTheWay(r) = 0
    BY <1>2 DEF Init, OnTheWay
<1> QED BY <1>3 DEF Init, Balanced, Earned

LEMMA BalancedInvariant == Spec => [](Typed /\ AllBalanced)
    BY PKInvariant, BalancedInit, BalancedStep, PTL DEF Spec

(* Ledger: whatever fails, no gift to the first room under a name is counted
   twice, and while Redis answers none is lost. *)
THEOREM LedgerHolds == Spec => []Ledger
<1>1. Typed /\ AllBalanced => Ledger
    BY DEF AllBalanced, Balanced, Earned, Ledger
<1> QED BY <1>1, BalancedInvariant, PTL

-----------------------------------------------------------------------------
(* What the clients are shown, and the scores that handlers have read. *)

ShowsEarned ==
    \A r \in RoomIDs : pkState[r] # None =>
        open[r] /\ Earned(pkState[r].mine, r) /\ Earned(pkState[r].theirs, pkState[r].peer)

ReadEarned(rec) ==
    rec.pc \in SyncSteps => \A i \in 1..2 : Earned(rec.scores[i], rec.sess[i])

HandlersReadEarned == \A h \in Handlers : ReadEarned(handler[h])

ShownInv == ShowsEarned /\ HandlersReadEarned

(* Earned, of a number, in the next state. *)
Later(n, r) ==
    /\ object'[r] = 0 => n = 0
    /\ open'[r] /\ object'[r] = 1 => n <= hostScore'[r]

LEMMA EarnedLater ==
    ASSUME Typed, [Next]_vars
    PROVE  \A n \in Nat, r \in RoomIDs : Earned(n, r) => Later(n, r)
<1> SUFFICES ASSUME NEW n \in Nat, NEW r \in RoomIDs, Earned(n, r) PROVE Later(n, r)
    OBVIOUS
<1>1. Earned(n, r)'
    BY EarnedStays
<1> QED BY <1>1 DEF Earned, Later

LEMMA ShowsEarnedStep == Typed /\ ShownInv /\ [Next]_vars => ShowsEarned'
<1> SUFFICES ASSUME Typed, ShownInv, [Next]_vars, NEW r \in RoomIDs, pkState'[r] # None
             PROVE  /\ open'[r] /\ Later(pkState'[r].mine, r)
                    /\ Later(pkState'[r].theirs, pkState'[r].peer)
    BY DEF ShowsEarned, Earned, Later
<1> DEFINE Goal == /\ open'[r] /\ Later(pkState'[r].mine, r)
                   /\ Later(pkState'[r].theirs, pkState'[r].peer)
<1>0. /\ RoomTypes /\ \A h \in Handlers : handler[h] \in Records /\ Valid(handler[h])
      /\ pkState[r] \in {None} \cup [peer : RoomIDs, mine : Nat, theirs : Nat]
      /\ open \in [RoomIDs -> BOOLEAN]
    BY DEF Typed, TypeOK, RoomTypes, HandlersValid
<1>1. ASSUME pkState'[r] = pkState[r], open[r] => open'[r] PROVE Goal
    <2>1. pkState[r] \in [peer : RoomIDs, mine : Nat, theirs : Nat]
        BY <1>0, <1>1
    <2>2. open[r] /\ Earned(pkState[r].mine, r) /\ Earned(pkState[r].theirs, pkState[r].peer)
        BY <1>1 DEF ShownInv, ShowsEarned
    <2>3. Later(pkState[r].mine, r) /\ Later(pkState[r].theirs, pkState[r].peer)
        BY <2>1, <2>2, EarnedLater
    <2> QED BY <1>1, <2>2, <2>3
<1>2. ASSUME UNCHANGED <<pkState, open>> PROVE Goal
    BY <1>1, <1>2
<1>3. ASSUME NEW q \in RoomIDs, OpenRoom(q) \/ CloseRoom(q) PROVE Goal
    BY <1>0, <1>1, <1>3 DEF OpenRoom, CloseRoom, RoomTypes
<1>4. ASSUME Crash PROVE Goal
    BY <1>4 DEF Crash
<1>5. ASSUME NEW h \in Handlers, NEW i \in 1..2, HideBattle(h, i) PROVE Goal
    BY <1>0, <1>1, <1>5 DEF HideBattle, RoomTypes
<1>6. ASSUME NEW h \in Handlers, EngageRooms(h) PROVE Goal
    <2> DEFINE s == handler[h].sess
    <2> DEFINE p == Opponent(s, r)
    <2>1. /\ s \in Sessions /\ OpenedBoth(s) /\ UNCHANGED <<open, object, hostScore>>
        BY <1>0, <1>6, PKAssumption DEF EngageRooms, At, Valid, SessSteps
    <2>2. CASE \E i \in 1..2 : s[i] = r /\ Current(h, i)
        <3>1. pkState'[r] = Shown(p, hostScore[r], hostScore[p])
            BY <1>6, <2>2 DEF EngageRooms
        <3>2. open[r] /\ p \in RoomIDs /\ Opened(p) /\ Opened(r)
            BY <2>1, <2>2, SessionRooms DEF Current, OpenedBoth
        <3>3. Later(hostScore[r], r) /\ Later(hostScore[p], p)
            BY <1>0, <2>1, <3>2 DEF Later, Opened, RoomTypes
        <3> QED BY <2>1, <3>1, <3>2, <3>3 DEF Shown
    <2>3. CASE ~ \E i \in 1..2 : s[i] = r /\ Current(h, i)
        <3>1. pkState'[r] = pkState[r]
            BY <1>6, <2>3 DEF EngageRooms
        <3> QED BY <1>1, <2>1, <3>1
    <2> QED BY <2>2, <2>3
<1>7. ASSUME NEW h \in Handlers, NEW i \in 1..2, ShowScores(h, i) PROVE Goal
    <2> DEFINE s == handler[h].sess
    <2>1. handler[h].pc \in SyncSteps /\ UNCHANGED <<open, object, hostScore>>
        BY <1>7 DEF ShowScores, At, SyncSteps
    <2>2. s \in Sessions /\ handler[h].scores \in [1..2 -> Nat]
        BY <1>0, <2>1 DEF Valid, Records, SessSteps
    <2>3. s[1] \in RoomIDs /\ s[2] \in RoomIDs /\ s[1] # s[2]
        BY <2>2, SessionRooms
    <2>4. CASE s[i] = r /\ Current(h, i)
        <3> DEFINE p == s[3 - i]
        <3> DEFINE mine == handler[h].scores[i]
        <3> DEFINE theirs == handler[h].scores[3 - i]
        <3>1. pkState'[r] = Shown(Opponent(s, r), mine, theirs)
            BY <1>0, <1>7, <2>4 DEF ShowScores, RoomTypes
        <3>2. Opponent(s, r) = p /\ p \in RoomIDs /\ 3 - i \in 1..2
            BY <2>3, <2>4 DEF Opponent
        <3>3. Earned(mine, r) /\ Earned(theirs, p) /\ mine \in Nat /\ theirs \in Nat
            BY <2>1, <2>2, <2>4, <3>2 DEF ShownInv, HandlersReadEarned, ReadEarned
        <3>4. Later(mine, r) /\ Later(theirs, p)
            BY <2>3, <3>2, <3>3, EarnedLater
        <3>5. open[r]
            BY <2>4 DEF Current
        <3> QED BY <2>1, <3>1, <3>2, <3>4, <3>5 DEF Shown
    <2>5. CASE ~(s[i] = r /\ Current(h, i))
        <3>1. pkState'[r] = pkState[r]
            BY <1>0, <1>7, <2>3, <2>5 DEF ShowScores, RoomTypes
        <3> QED BY <1>1, <2>1, <3>1
    <2> QED BY <2>4, <2>5
<1>8. ASSUME NEW h \in Handlers,
             \/ \E i \in 1..2 : LookupRoom(h, i)
             \/ SavePKSession(h) \/ DeletePKSession(h) \/ FindSession(h) \/ ReadStored(h)
             \/ RestoreSession(h) \/ AddHostScore(h) \/ BufferScore(h) \/ ReadScores(h)
      PROVE  UNCHANGED <<pkState, open>>
    <2>1. CASE SavePKSession(h) \/ DeletePKSession(h) \/ RestoreSession(h)
        BY <2>1 DEF SavePKSession, DeletePKSession, RestoreSession, roomVars
    <2>2. CASE FindSession(h) \/ ReadStored(h) \/ ReadScores(h) \/ \E i \in 1..2 : LookupRoom(h, i)
        BY <2>2 DEF FindSession, ReadStored, ReadScores, LookupRoom, roomVars
    <2>3. CASE AddHostScore(h) \/ BufferScore(h)
        BY <2>3 DEF AddHostScore, BufferScore, roomVars
    <2> QED BY <1>8, <2>1, <2>2, <2>3
<1>9. ASSUME NEW h \in Handlers, Handle(h) PROVE Goal
    <2> HIDE DEF Goal
    <2>1. CASE EngageRooms(h)
        BY <1>6, <2>1
    <2>2. CASE \E i \in 1..2 : HideBattle(h, i) \/ ShowScores(h, i)
        BY <1>5, <1>7, <2>2
    <2>3. CASE \/ \E i \in 1..2 : LookupRoom(h, i)
               \/ SavePKSession(h) \/ DeletePKSession(h) \/ FindSession(h) \/ ReadStored(h)
               \/ RestoreSession(h) \/ AddHostScore(h) \/ BufferScore(h) \/ ReadScores(h)
        <3>1. UNCHANGED <<pkState, open>>
            BY <1>8, <2>3
        <3> QED BY <1>2, <3>1
    <2> QED BY <1>9, <2>1, <2>2, <2>3 DEF Handle
<1>10. ASSUME \/ \E h \in Hosts : \/ \E s \in Sessions : StartPK(h, s)
                                 \/ \E q \in RoomIDs : StopPK(h, q)
             \/ \E h \in Givers, q \in RoomIDs : AskSession(h, q) \/ ReceiveGift(h, q)
      PROVE  UNCHANGED <<pkState, open>>
    BY <1>10 DEF StartPK, StopPK, AskSession, ReceiveGift, roomVars
<1>11. ASSUME UNCHANGED vars \/ Flush PROVE Goal
    <2>1. UNCHANGED <<pkState, open>>
        BY <1>11 DEF Flush, TakePending, BatchIncrementScores, vars, roomVars
    <2> QED BY <1>2, <2>1
<1>12. ASSUME NEW h \in Hosts, \/ \E s \in Sessions : StartPK(h, s)
                              \/ \E q \in RoomIDs : StopPK(h, q)
       PROVE  Goal
    <2>1. UNCHANGED <<pkState, open>>
        BY <1>10, <1>12
    <2> QED BY <1>2, <2>1
<1>13. ASSUME NEW h \in Givers, NEW q \in RoomIDs, AskSession(h, q) \/ ReceiveGift(h, q)
       PROVE  Goal
    <2>1. UNCHANGED <<pkState, open>>
        BY <1>10, <1>13
    <2> QED BY <1>2, <2>1
<1> HIDE DEF Goal
<1>14. Goal
    BY <1>3, <1>4, <1>9, <1>11, <1>12, <1>13 DEF Next
<1> QED BY <1>14 DEF Goal

LEMMA ReadsEarnedStep ==
    Typed /\ PKInv /\ AllBalanced /\ ShownInv /\ [Next]_vars => HandlersReadEarned'
<1> SUFFICES ASSUME Typed, PKInv, AllBalanced, ShownInv, [Next]_vars, NEW k \in Handlers,
                    handler'[k].pc \in SyncSteps, NEW j \in 1..2
             PROVE  Later(handler'[k].scores[j], handler'[k].sess[j])
    BY DEF HandlersReadEarned, ReadEarned, Earned, Later
<1> DEFINE Goal == Later(handler'[k].scores[j], handler'[k].sess[j])
<1>0. /\ RoomTypes /\ ScoreTypes
      /\ handler \in [Handlers -> Records] /\ \A h \in Handlers : Valid(handler[h])
    BY DEF Typed, TypeOK, RoomTypes, ScoreTypes, HandlersValid
<1>r. ASSUME NEW h \in Handlers, handler[h].pc \in SyncSteps \cup {"scores"}
      PROVE  /\ handler[h].sess \in Sessions /\ handler[h].sess[j] \in RoomIDs
             /\ OpenedBoth(handler[h].sess) /\ handler[h].scores \in [1..2 -> Nat]
    <2>1. handler[h].sess \in Sessions /\ handler[h].scores \in [1..2 -> Nat]
        BY <1>0, <1>r DEF Valid, Records, SessSteps
    <2>2. OpenedBoth(handler[h].sess)
        BY <1>0, <2>1, PKAssumption DEF Valid
    <2> QED BY <2>1, <2>2, SessionRooms
(* What the handler has read stays earned. *)
<1>1. ASSUME handler[k].pc \in SyncSteps,
             handler'[k].scores[j] = handler[k].scores[j], handler'[k].sess[j] = handler[k].sess[j]
      PROVE  Goal
    <2>1. Earned(handler[k].scores[j], handler[k].sess[j])
        BY <1>1 DEF ShownInv, HandlersReadEarned, ReadEarned
    <2>2. handler[k].scores[j] \in Nat /\ handler[k].sess[j] \in RoomIDs
        BY <1>r, <1>1
    <2> QED BY <1>1, <2>1, <2>2, EarnedLater
<1>2. CASE handler'[k] = handler[k]
    BY <1>1, <1>2
<1>3. ASSUME NEW h \in Handlers, NEW new, Go(h, new)
      PROVE  handler'[k] = handler[k] \/ (h = k /\ handler'[k] = new)
    BY <1>0, <1>3 DEF Go
<1>4. ASSUME NEW h \in Handlers, NEW new, Go(h, new), new.pc \notin SyncSteps PROVE Goal
    BY <1>2, <1>3, <1>4
<1>5. CASE Crash
    BY <1>5 DEF Crash, Idle, SyncSteps
<1>7. ASSUME NEW h \in Handlers, NEW s \in Sessions, StartPK(h, s) PROVE Goal
    BY <1>4, <1>7 DEF StartPK, Idle, SyncSteps
<1>8. ASSUME NEW h \in Handlers, NEW r \in RoomIDs, StopPK(h, r) \/ AskSession(h, r) PROVE Goal
    BY <1>4, <1>8 DEF StopPK, AskSession, Idle, SyncSteps
<1>9. ASSUME NEW h \in Handlers, NEW r \in RoomIDs, ReceiveGift(h, r) PROVE Goal
    <2> DEFINE gift == [Idle EXCEPT !.from = r, !.to = r, !.pc = "score"]
    <2>1. \/ Go(h, gift) \/ Go(h, [gift EXCEPT !.to = linkedRoom[r]])
          \/ Go(h, [gift EXCEPT !.pc = "find", !.use = "target"])
        BY <1>9 DEF ReceiveGift
    <2> QED BY <1>4, <2>1 DEF Idle, SyncSteps
<1>10. ASSUME NEW h \in Handlers, ReadScores(h) PROVE Goal
    <2> DEFINE s == handler[h].sess
    <2>1. handler[h].pc = "scores" /\ UNCHANGED <<open, object, hostScore>>
        BY <1>10 DEF ReadScores, At, roomVars
    <2>2. PICK a \in {redisScore[s[1]], 0}, b \in {redisScore[s[2]], 0} :
              Go(h, [handler[h] EXCEPT !.pc = "read1", !.scores = <<a, b>>])
        BY <1>10 DEF ReadScores
    <2>3. s \in Sessions /\ OpenedBoth(s)
        BY <1>r, <2>1
    <2>4. s[1] \in RoomIDs /\ s[2] \in RoomIDs
        BY <2>3, SessionRooms
    <2>5. ASSUME NEW q \in RoomIDs, NEW n \in {redisScore[q], 0} PROVE Later(n, q)
        <3>1. Earned(OnTheWay(q), q)
            BY DEF AllBalanced, Balanced
        <3>2. /\ redisScore[q] \in Nat /\ pending[q] \in Nat /\ deltas[q] \in Nat
              /\ InHand(q) \in Nat /\ hostScore[q] \in Nat
            BY <1>0, HoldersFinite DEF RoomTypes, ScoreTypes
        <3>3. OnTheWay(q) \in Nat /\ redisScore[q] <= OnTheWay(q)
            BY <3>2 DEF OnTheWay
        <3>4. n = redisScore[q] \/ n = 0
            OBVIOUS
        <3>5. n \in Nat /\ n <= OnTheWay(q)
            BY <3>2, <3>3, <3>4
        <3>6. Earned(n, q)
            BY <3>1, <3>2, <3>3, <3>5 DEF Earned
        <3> QED BY <3>5, <3>6, EarnedLater
    <2>6. CASE handler'[k] = [handler[h] EXCEPT !.pc = "read1", !.scores = <<a, b>>]
        <3>1. handler'[k].scores = <<a, b>> /\ handler'[k].sess = s
            BY <1>0, <2>6 DEF Records
        <3>2. Later(a, s[1]) /\ Later(b, s[2])
            BY <2>4, <2>5
        <3> QED BY <3>1, <3>2
    <2> QED BY <1>2, <1>3, <2>2, <2>6
<1>11. ASSUME NEW h \in Handlers, NEW i \in 1..2, LookupRoom(h, i) PROVE Goal
    <2> DEFINE s == handler[h].sess
    <2> DEFINE r == s[i]
    <2> DEFINE new == [handler[h] EXCEPT
                          !.pc = IF i = 1 THEN "show1" ELSE "show2",
                          !.objects[i] = object[r],
                          !.scores[i] = IF @ = 0 THEN hostScore[r] ELSE @]
    <2>1. handler[h].pc \in SyncSteps /\ UNCHANGED <<open, object, hostScore>>
        BY <1>11 DEF LookupRoom, At, SyncSteps, roomVars
    <2>2. s \in Sessions /\ OpenedBoth(s) /\ handler[h].scores \in [1..2 -> Nat]
        BY <1>r, <2>1
    <2>3. CASE open[r]
        <3>1. Go(h, new)
            BY <1>11, <2>3 DEF LookupRoom
        <3>2. CASE h = k /\ handler'[k] = new
            <4>1. handler'[k].sess = s
                BY <1>0, <3>2 DEF Records
            <4>2. CASE j = i /\ handler[h].scores[i] = 0
                <5>1. handler'[k].scores[j] = hostScore[r]
                    BY <1>0, <2>2, <3>2, <4>2 DEF Records
                <5>2. r \in RoomIDs /\ Opened(r)
                    BY <2>2, SessionRooms DEF OpenedBoth
                <5>3. Later(hostScore[r], r)
                    BY <1>0, <2>1, <5>2 DEF Later, Opened, RoomTypes
                <5> QED BY <4>1, <4>2, <5>1, <5>3
            <4>3. CASE ~(j = i /\ handler[h].scores[i] = 0)
                <5>1. handler'[k].scores[j] = handler[k].scores[j]
                    BY <1>0, <2>2, <3>2, <4>3 DEF Records
                <5> QED BY <1>1, <2>1, <3>2, <4>1, <5>1
            <4> QED BY <4>2, <4>3
        <3> QED BY <1>2, <1>3, <3>1, <3>2
    <2>4. CASE ~open[r] /\ i = 1
        <3>1. Go(h, [handler[h] EXCEPT !.pc = "read2"])
            BY <1>11, <2>4 DEF LookupRoom, Step, Go
        <3>2. CASE h = k /\ handler'[k] = [handler[h] EXCEPT !.pc = "read2"]
            BY <1>0, <1>1, <2>1, <3>2 DEF Records
        <3> QED BY <1>2, <1>3, <3>1, <3>2
    <2>5. CASE ~open[r] /\ i = 2
        <3>1. PICK u : Go(h, u) /\ u.pc \in {"idle", "find"}
            BY <1>11, <2>5, NextSyncIsValid DEF LookupRoom, Typed
        <3> QED BY <1>4, <3>1 DEF SyncSteps
    <2> QED BY <2>3, <2>4, <2>5
<1>12. ASSUME NEW h \in Handlers, NEW i \in 1..2, ShowScores(h, i) PROVE Goal
    <2> DEFINE rec == handler[h]
               new == [rec EXCEPT !.pc = "read2", !.objects = <<0, 0>>]
    <2>1. handler[h].pc \in SyncSteps
        BY <1>12 DEF ShowScores, At, SyncSteps
    <2>2. CASE i = 1
        <3>1. Go(h, new)
            BY <1>12, <2>2 DEF ShowScores
        <3>2. CASE h = k /\ handler'[k] = new
            BY <1>0, <1>1, <2>1, <3>2 DEF Records
        <3> QED BY <1>2, <1>3, <3>1, <3>2
    <2>3. CASE i = 2
        <3>1. PICK u : Go(h, u) /\ u.pc \in {"idle", "find"}
            BY <1>12, <2>3, NextSyncIsValid DEF ShowScores, Typed
        <3> QED BY <1>4, <3>1 DEF SyncSteps
    <2> QED BY <2>2, <2>3
<1>13. ASSUME NEW h \in Handlers, Handle(h) PROVE Goal
    <2>1. CASE Syncs(h)
        BY <1>10, <1>11, <1>12, <2>1 DEF Syncs
    <2>2. CASE EngageRooms(h)
        <3>1. Go(h, [handler[h] EXCEPT !.pc = "save"]) /\ [handler[h] EXCEPT !.pc = "save"].pc = "save"
            BY <1>0, <2>2 DEF EngageRooms, Step, Go, Records
        <3> QED BY <1>4, <3>1 DEF SyncSteps
    <2>3. CASE SavePKSession(h)
        BY <1>4, <2>3 DEF SavePKSession, Idle, SyncSteps
    <2>4. CASE ~Syncs(h) /\ ~EngageRooms(h) /\ ~SavePKSession(h)
        <3>1. PICK new : Effect(h, new)
            BY <1>13, <2>4, OtherSteps DEF PKInv
        <3> QED BY <1>4, <2>4, <3>1 DEF Effect
    <2> QED BY <2>1, <2>2, <2>3, <2>4
<1>14. CASE UNCHANGED handler
    BY <1>2, <1>14
<1> QED BY <1>5, <1>7, <1>8, <1>9, <1>13, <1>14
        DEF Next, vars, OpenRoom, CloseRoom, Flush, TakePending, BatchIncrementScores, Handlers

LEMMA ShownInvInit == Init => ShownInv
    BY DEF Init, ShownInv, ShowsEarned, HandlersReadEarned, ReadEarned, Idle, SyncSteps

LEMMA ShownInvariant == Spec => [](Typed /\ ShownInv)
<1>1. Typed /\ PKInv /\ AllBalanced /\ ShownInv /\ [Next]_vars => ShownInv'
    BY ShowsEarnedStep, ReadsEarnedStep DEF ShownInv
<1> QED BY <1>1, ShownInvInit, PKInvariant, BalancedInvariant, PTL DEF Spec

(* ShownIsEarned: no battle shows more points than were given, whichever of
   Redis and memory its scores come from and however old they are. *)
THEOREM PointsAreEarned == Spec => []ShownIsEarned
<1>1. Typed /\ ShownInv => ShownIsEarned
    BY DEF ShownInv, ShowsEarned, ShownIsEarned, Earned
<1> QED BY <1>1, ShownInvariant, PTL
=============================================================================
