------------------------ MODULE RoomLifecycleProofs ------------------------
(***************************************************************************)
(* Machine-checked facts about RoomLifecycle: its type invariant, and that *)
(* a lost host and a lost viewer always have a time-out or a handler on    *)
(* the way, for any number of users, sockets, timers and rooms.            *)
(***************************************************************************)
EXTENDS RoomLifecycle, TLAPS

-----------------------------------------------------------------------------
(* Records of the goroutines.                                               *)

\* The constructors of RoomLifecycle give records of the type Job.
LEMMA JobTypes ==
  /\ AtRest \in Job
  /\ \A s \in Steps, g \in Rooms \cup {NoRoom}, u \in Users \cup {NoUser} :
       Doing(s, g, u) \in Job
  /\ \A k \in Kinds, g \in Rooms \cup {NoRoom}, u \in Users \cup {NoUser} :
       Armed(k, g, u) \in Job
BY DEF AtRest, Doing, Armed, Job, Steps, Kinds

\* A goroutine that only moves on to its next step keeps a record's type.
LEMMA AtTypes ==
  ASSUME NEW j \in Job, NEW s \in Steps
  PROVE  /\ [j EXCEPT !.at = s] \in Job
         /\ [j EXCEPT !.at = s].at = s
         /\ [j EXCEPT !.at = s].kind = j.kind
         /\ [j EXCEPT !.at = s].on = j.on
         /\ [j EXCEPT !.at = s].user = j.user
BY DEF Job

\* time.Timer.Stop touches nothing but an armed timer.
LEMMA StoppedFacts ==
  ASSUME NEW jobs \in [Threads -> Job], NEW t
  PROVE  /\ Stopped(jobs, t) \in [Threads -> Job]
         /\ \A x \in Threads : \/ Stopped(jobs, t)[x] = jobs[x]
                               \/ /\ x = t /\ x \in Timers
                                  /\ jobs[x].at = "armed"
                                  /\ Stopped(jobs, t)[x] = AtRest
<1>1. AtRest \in Job
  BY JobTypes
<1>2. CASE t \in Timers /\ jobs[t].at = "armed"
  BY <1>1, <1>2 DEF Stopped, Threads
<1>3. CASE ~(t \in Timers /\ jobs[t].at = "armed")
  BY <1>3 DEF Stopped
<1> QED BY <1>2, <1>3

-----------------------------------------------------------------------------
(* Typing.                                                                  *)

\* Making a room and closing one keep the types.
LEMMA CreateRoomTypes ==
  ASSUME TypeOK, NEW host \in Users \cup {OriginHost}, CreateRoom(host)
  PROVE  /\ created' \in 0 .. MaxRooms /\ active' \in 0 .. created'
         /\ hostID' \in [Rooms -> Users \cup {OriginHost, NoUser}]
         /\ hostClient' = hostClient /\ lastHost' = lastHost
         /\ viewers' = viewers /\ reconnecting' = reconnecting
         /\ hostTimer' = hostTimer /\ partTimer' = partTimer
         /\ emptyTimer' = emptyTimer
         /\ created + 1 \in Rooms
BY ConstantsOK DEF CreateRoom, TypeOK, Rooms

\* Closing keeps every type, whatever the caller's own progress was.
LEMMA CloseRoomTypes ==
  ASSUME TypeOK, NEW jobs \in [Threads -> Job], CloseRoom(jobs)
  PROVE  TypeOK'
<1>1. CASE active = NoRoom
  BY <1>1 DEF CloseRoom, TypeOK, roomVars
<1>2. CASE active # NoRoom
  <2>1. active \in Rooms
    BY <1>2, ConstantsOK DEF TypeOK, Rooms, NoRoom
  <2>2. job' \in [Threads -> Job]
    BY <1>2, StoppedFacts DEF CloseRoom
  <2>3. sock' \in [Clients -> {"new", "open", "closed", "gone", "done"}]
    BY <1>2 DEF CloseRoom, TypeOK
  <2>4. hasPC' \in [Clients -> BOOLEAN]
    BY <1>2 DEF CloseRoom, TypeOK
  <2>5. viewers' \in [Rooms -> [Users -> Clients \cup {NoClient}]]
    BY <1>2, <2>1 DEF CloseRoom, TypeOK
  <2>6. active' \in 0 .. created' /\ created' \in 0 .. MaxRooms
    BY <1>2, ConstantsOK DEF CloseRoom, TypeOK, NoRoom
  <2> QED
    BY <1>2, <2>1, <2>2, <2>3, <2>4, <2>5, <2>6 DEF CloseRoom, TypeOK
<1> QED BY <1>1, <1>2

\* Every step keeps the types.
LEMMA TypeStep == TypeOK /\ [Next]_vars => TypeOK'
<1> SUFFICES ASSUME TypeOK, [Next]_vars PROVE TypeOK'
  OBVIOUS
<1> USE ConstantsOK, JobTypes DEF ConstantsOK
<1>a. /\ job \in [Threads -> Job]
      /\ \A x \in Threads : /\ job[x].on \in Rooms \cup {NoRoom}
                            /\ job[x].user \in Users \cup {NoUser}
  BY DEF TypeOK, Job
<1>b. active # NoRoom => active \in Rooms
  BY DEF TypeOK, Rooms, NoRoom
<1>1. ASSUME NEW u \in HttpHosts, HttpCreateRoom(u) PROVE TypeOK'
  BY <1>1, ConstantsOK, CreateRoomTypes DEF ConstantsOK, HttpCreateRoom, TypeOK
<1>2. CASE ForceEndRoom
  BY <1>2, CloseRoomTypes, <1>a DEF ForceEndRoom
<1>3. ASSUME NEW c \in Clients, Connect(c) \/ Drop(c) PROVE TypeOK'
  BY <1>3 DEF Connect, Drop, TypeOK, roomVars
<1>4. ASSUME NEW c \in Clients, Publish(c) PROVE TypeOK'
  <2>1. CASE CreateRoom(UserOf[c]) /\ job' = [job EXCEPT ![c] = Doing("publish", created + 1, UserOf[c])]
    <3>1. Doing("publish", created + 1, UserOf[c]) \in Job
      BY <2>1, CreateRoomTypes DEF Steps
    <3> QED
      BY <3>1, <2>1, <1>4, CreateRoomTypes DEF Publish, TypeOK
  <2>2. CASE active # NoRoom /\ job' = [job EXCEPT ![c] = Doing("publish", active, UserOf[c])] /\ UNCHANGED <<active, created, roomVars>>
    <3>1. Doing("publish", active, UserOf[c]) \in Job
      BY <2>2, <1>b DEF Steps
    <3> QED
      BY <3>1, <2>2, <1>4 DEF Publish, TypeOK, roomVars
  <2> QED BY <1>4, <2>1, <2>2 DEF Publish
<1>5. ASSUME NEW c \in Clients, JoinCreate(c) PROVE TypeOK'
  <2>1. Doing("lookup", NoRoom, UserOf[c]) \in Job
    BY DEF Steps
  <2>2. /\ job' \in [Threads -> Job]
        /\ sock' = sock /\ hasPC' = hasPC /\ CreateRoom(OriginHost)
    BY <1>5, <1>a, <2>1 DEF JoinCreate
  <2> QED
    BY <2>2, CreateRoomTypes DEF TypeOK
<1>6. ASSUME NEW c \in Clients, JoinViewer(c) PROVE TypeOK'
  <2>1. CASE active = NoRoom
    BY <1>6, <2>1 DEF JoinViewer, TypeOK
  <2>2. CASE active # NoRoom
    <3>1. Doing("add", active, UserOf[c]) \in Job
      BY <2>2, <1>b DEF Steps
    <3>2. Stopped(Stopped(job, emptyTimer[active]), partTimer[active][UserOf[c]]) \in [Threads -> Job]
      BY <1>a, StoppedFacts
    <3>3. job' \in [Threads -> Job]
      BY <3>1, <3>2, <1>6, <2>2 DEF JoinViewer
    <3>4. partTimer' \in [Rooms -> [Users -> Timers \cup {NoTimer}]]
      <4>1. partTimer' = [partTimer EXCEPT ![active][UserOf[c]] = NoTimer]
        BY <1>6, <2>2 DEF JoinViewer
      <4> QED BY <4>1 DEF TypeOK
    <3>5. emptyTimer' \in [Rooms -> Timers \cup {NoTimer}]
      BY <1>6, <2>2 DEF JoinViewer, TypeOK
    <3>6. UNCHANGED <<active, created, hostID, hostClient, viewers, reconnecting,
                      hostTimer, lastHost, sock, hasPC>>
      BY <1>6 DEF JoinViewer
    <3> QED
      BY <3>3, <3>4, <3>5, <3>6 DEF TypeOK
  <2> QED BY <2>1, <2>2
<1>7. ASSUME NEW c \in Clients, HandleClientDisconnect(c) PROVE TypeOK'
  <2>1. sock' \in [Clients -> {"new", "open", "closed", "gone", "done"}] /\ hasPC' \in [Clients -> BOOLEAN]
    BY <1>7 DEF HandleClientDisconnect, TypeOK
  <2>2. CASE IsHost(UserOf[c]) /\ StartReconnectTimer(active)
                /\ hostClient' = [hostClient EXCEPT ![active] = NoClient]
                /\ UNCHANGED <<hostID, viewers, partTimer, emptyTimer, lastHost>>
    <3>1. active \in Rooms
      BY <2>2, <1>b DEF IsHost
    <3>2. PICK t \in Timers : job' = [Stopped(job, hostTimer[active]) EXCEPT ![t] = Armed("host", active, NoUser)]
                              /\ hostTimer' = [hostTimer EXCEPT ![active] = t]
      BY <2>2 DEF StartReconnectTimer
    <3>3. job' \in [Threads -> Job]
      BY <3>1, <3>2, <1>a, StoppedFacts DEF Kinds
    <3> QED
      BY <2>1, <2>2, <3>1, <3>2, <3>3, <1>7 DEF HandleClientDisconnect, StartReconnectTimer, TypeOK
  <2>3. CASE IsViewer(UserOf[c]) /\ StartParticipantReconnectTimer(active, UserOf[c])
                /\ UNCHANGED <<hostID, hostClient, viewers, reconnecting, hostTimer, emptyTimer, lastHost>>
    <3>1. active \in Rooms
      BY <2>3, <1>b DEF IsViewer
    <3>2. PICK t \in Timers : job' = [Stopped(job, partTimer[active][UserOf[c]]) EXCEPT ![t] = Armed("participant", active, UserOf[c])]
                              /\ partTimer' = [partTimer EXCEPT ![active][UserOf[c]] = t]
      BY <2>3 DEF StartParticipantReconnectTimer
    <3>3. job' \in [Threads -> Job]
      BY <3>1, <3>2, <1>a, StoppedFacts DEF Kinds
    <3> QED
      BY <2>1, <2>3, <3>1, <3>2, <3>3, <1>7 DEF HandleClientDisconnect, TypeOK
  <2>4. CASE UNCHANGED <<roomVars, job>>
    BY <2>1, <2>4, <1>7 DEF HandleClientDisconnect, TypeOK, roomVars
  <2> QED BY <1>7, <2>2, <2>3, <2>4 DEF HandleClientDisconnect
<1>8. ASSUME NEW c \in Clients, PublishAsCoHost(c) PROVE TypeOK'
  BY <1>8 DEF PublishAsCoHost, TypeOK, roomVars
<1>9. ASSUME NEW c \in Clients, PublishAsHost(c) PROVE TypeOK'
  <2>1. [job EXCEPT ![c].at = "setHost"] \in [Threads -> Job]
    BY <1>a, AtTypes DEF Threads, Steps
  <2>2. job' \in [Threads -> Job]
    <3> DEFINE jobs == [job EXCEPT ![c].at = "setHost"]
    <3>1. Stopped(jobs, hostTimer[job[c].on]) \in [Threads -> Job]
      BY <2>1, StoppedFacts
    <3>2. job' = Stopped(jobs, hostTimer[job[c].on]) \/ job' = jobs
      BY <1>9 DEF PublishAsHost
    <3> QED BY <2>1, <3>1, <3>2
  <2>3. hostTimer' \in [Rooms -> Timers \cup {NoTimer}]
    BY <1>9 DEF PublishAsHost, TypeOK
  <2>4. reconnecting' \in [Rooms -> BOOLEAN]
    BY <1>9 DEF PublishAsHost, TypeOK
  <2>5. UNCHANGED <<active, created, hostID, hostClient, viewers, partTimer,
                    emptyTimer, lastHost, sock, hasPC>>
    BY <1>9 DEF PublishAsHost
  <2> QED
    BY <2>2, <2>3, <2>4, <2>5 DEF TypeOK
<1>10. ASSUME NEW c \in Clients, SetHostClient(c) PROVE TypeOK'
  BY <1>10 DEF SetHostClient, TypeOK
<1>11. ASSUME NEW c \in Clients, AddViewer(c) PROVE TypeOK'
  <2>1. job' \in [Threads -> Job]
    BY <1>11, <1>a, AtTypes DEF Threads, Steps, AddViewer
  <2>2. viewers' \in [Rooms -> [Users -> Clients \cup {NoClient}]]
    BY <1>11 DEF AddViewer, TypeOK
  <2>3. hasPC' \in [Clients -> BOOLEAN]
    BY <1>11 DEF AddViewer, TypeOK
  <2> QED
    BY <1>11, <2>1, <2>2, <2>3 DEF AddViewer, TypeOK
<1>12. ASSUME NEW c \in Clients, ShutKicked(c) PROVE TypeOK'
  <2>1. Doing("evict", NoRoom, job[c].user) \in Job
    BY <1>a DEF Steps, Threads
  <2> QED
    BY <2>1, <1>12 DEF ShutKicked, TypeOK, roomVars
<1>13. ASSUME NEW c \in Clients, NEW u \in Users, Kick(c, u) PROVE TypeOK'
  <2>1. active \in Rooms
    BY <1>13, <1>b DEF Kick
  <2>2. Doing("shut", active, u) \in Job
    BY <2>1 DEF Steps
  <2>3. job' \in [Threads -> Job]
    BY <2>2, <1>13, <1>a, StoppedFacts DEF Kick
  <2> QED
    BY <2>1, <2>3, <1>13 DEF Kick, TypeOK
<1>14. ASSUME NEW x \in Threads, Removal(x) PROVE TypeOK'
  <2>1. CASE RemoveLookup(x)
    <3>1. active # NoRoom => Doing("remove", active, job[x].user) \in Job
      BY <1>a, <1>b DEF Steps
    <3> QED
      BY <3>1, <2>1 DEF RemoveLookup, TypeOK, roomVars
  <2>2. CASE RemoveViewer(x)
    <3>1. job' \in [Threads -> Job]
      BY <2>2, <1>a, AtTypes DEF Steps, RemoveViewer
    <3> QED
      BY <3>1, <2>2 DEF RemoveViewer, TypeOK
  <2>3. CASE CountViewers(x) \/ AskHost(x)
    <3>1. \A s \in Steps : [job[x] EXCEPT !.at = s] \in Job
      BY <1>a, AtTypes
    <3>2. job' \in [Threads -> Job]
      BY <2>3, <3>1, <1>a DEF Steps, CountViewers, AskHost
    <3> QED
      BY <3>2, <2>3 DEF CountViewers, AskHost, TypeOK, roomVars
  <2>4. CASE StartEmptyRoomTimer(x)
    <3>1. PICK t \in Timers : job' = [Stopped(job, emptyTimer[job[x].on]) EXCEPT ![t] = Armed("empty", job[x].on, NoUser), ![x] = AtRest]
                              /\ emptyTimer' = [emptyTimer EXCEPT ![job[x].on] = t]
      BY <2>4 DEF StartEmptyRoomTimer
    <3>2. job' \in [Threads -> Job]
      BY <3>1, <1>a, StoppedFacts DEF Kinds
    <3>3. emptyTimer' \in [Rooms -> Timers \cup {NoTimer}]
      BY <3>1 DEF TypeOK
    <3>4. UNCHANGED <<active, created, hostID, hostClient, viewers, reconnecting,
                      hostTimer, partTimer, lastHost, sock, hasPC>>
      BY <2>4 DEF StartEmptyRoomTimer
    <3> QED
      BY <3>2, <3>3, <3>4 DEF TypeOK
  <2> QED BY <1>14, <2>1, <2>2, <2>3, <2>4 DEF Removal
<1>15. ASSUME NEW t \in Timers, Timer(t) PROVE TypeOK'
  <2>1. \A s \in Steps : [job EXCEPT ![t].at = s] \in [Threads -> Job]
    BY <1>a, AtTypes DEF Threads
  <2>2. CASE Fire(t)
    BY <2>1, <2>2 DEF Fire, TypeOK, roomVars, Steps
  <2>3. CASE HostGraceOver(t)
    BY <2>1, <2>3 DEF HostGraceOver, TypeOK, Steps
  <2>4. CASE ParticipantGraceOver(t)
    <3>1. partTimer' \in [Rooms -> [Users -> Timers \cup {NoTimer}]]
      BY <2>4 DEF ParticipantGraceOver, TypeOK
    <3> QED BY <3>1, <2>1, <2>4 DEF ParticipantGraceOver, TypeOK, Steps
  <2>5. CASE EmptyRoomOver(t)
    BY <2>1, <2>5 DEF EmptyRoomOver, TypeOK, Steps
  <2>6. CASE TimeoutClosesRoom(t)
    <3>1. [job EXCEPT ![t] = AtRest] \in [Threads -> Job]
      BY <1>a
    <3> QED BY <3>1, <2>6, CloseRoomTypes DEF TimeoutClosesRoom
  <2> QED BY <1>15, <2>2, <2>3, <2>4, <2>5, <2>6 DEF Timer
<1>16. CASE UNCHANGED vars
  BY <1>16 DEF vars, roomVars, TypeOK
<1>17. ASSUME NEW c \in Clients, CloseSend(c) PROVE TypeOK'
  BY <1>17 DEF CloseSend, roomVars, TypeOK
<1>18. ASSUME NEW c \in Clients, KickPanics(c) PROVE TypeOK'
  <2>1. job' \in [Threads -> Job]
    BY <1>18, <1>a, AtTypes DEF KickPanics, Threads, Steps
  <2> QED
    BY <2>1, <1>18 DEF KickPanics, roomVars, TypeOK
<1> QED
  BY <1>1, <1>2, <1>3, <1>4, <1>5, <1>6, <1>7, <1>8, <1>9, <1>10, <1>11, <1>12,
     <1>13, <1>14, <1>15, <1>16, <1>17, <1>18 DEF Next, Handler

\* The program only reaches states of the right type.
THEOREM TypeCorrect == Spec => []TypeOK
<1>1. Init => TypeOK
  BY ConstantsOK, JobTypes DEF Init, TypeOK, Rooms, NoRoom
<1> QED BY <1>1, TypeStep, PTL DEF Spec

-----------------------------------------------------------------------------
(* The shape of the reachable states.                                       *)

\* What Stop leaves, goroutine by goroutine.
LEMMA StoppedAt ==
  ASSUME NEW jobs \in [Threads -> Job], NEW t, NEW x \in Threads
  PROVE  Stopped(jobs, t)[x] =
           IF x = t /\ x \in Timers /\ jobs[x].at = "armed" THEN AtRest
                                                           ELSE jobs[x]
<1>1. CASE t \in Timers /\ jobs[t].at = "armed"
  BY <1>1 DEF Stopped, Threads
<1>2. CASE ~(t \in Timers /\ jobs[t].at = "armed")
  BY <1>2 DEF Stopped
<1> QED BY <1>1, <1>2

\* ... and what is left when one more record is replaced.
LEMMA StoppedThen ==
  ASSUME NEW jobs \in [Threads -> Job], NEW t, NEW v \in Threads, NEW r \in Job
  PROVE  /\ [Stopped(jobs, t) EXCEPT ![v] = r][v] = r
         /\ \A x \in Threads \ {v} :
              \/ [Stopped(jobs, t) EXCEPT ![v] = r][x] = jobs[x]
              \/ /\ [Stopped(jobs, t) EXCEPT ![v] = r][x] = AtRest
                 /\ x = t /\ x \in Timers /\ jobs[x].at = "armed"
BY StoppedFacts

\* Closing a room keeps the shape, when the caller's own record does.
LEMMA CloseRoomShape ==
  ASSUME Shape, NEW jobs \in [Threads -> Job], CloseRoom(jobs),
         \A x \in Threads : \/ jobs[x] = job[x]
                            \/ jobs[x] = AtRest /\ job[x].at = "close"
  PROVE  Shape'
<1> USE ConstantsOK DEF ConstantsOK
<1>1. TypeOK'
  BY CloseRoomTypes DEF Shape
<1>2. CASE active = NoRoom
  <2>1. UNCHANGED <<active, created, roomVars, sock, hasPC>> /\ job' = jobs
    BY <1>2 DEF CloseRoom
  <2>2. TimersOwned'
    BY <2>1 DEF Shape, TimersOwned, Owns, roomVars, Threads
  <2>3. HandlersHaveSockets'
    BY <2>1 DEF Shape, HandlersHaveSockets, roomVars, Threads, AtRest
  <2>4. RoomsExist'
    BY <2>1 DEF Shape, RoomsExist, roomVars, AtRest, NoRoom, TypeOK
  <2>5. ViewersNamed' /\ GraceFlag'
    BY <2>1 DEF Shape, ViewersNamed, GraceFlag, roomVars
  <2> QED BY <1>1, <2>2, <2>3, <2>4, <2>5 DEF Shape
<1>3. CASE active # NoRoom
  <2> DEFINE g == active
  <2>0. g \in Rooms
    BY <1>3 DEF Shape, TypeOK, Rooms, NoRoom
  <2>1. \A x \in Threads : job'[x] = jobs[x] \/ (job'[x] = AtRest /\ x \in {hostTimer[g], emptyTimer[g]} /\ x \in Timers)
    BY <1>3, StoppedAt, StoppedFacts DEF CloseRoom
  <2>2. /\ hostTimer' = [hostTimer EXCEPT ![g] = NoTimer]
        /\ emptyTimer' = [emptyTimer EXCEPT ![g] = NoTimer]
        /\ reconnecting' = [reconnecting EXCEPT ![g] = FALSE]
        /\ viewers' = [viewers EXCEPT ![g] = [u \in Users |-> NoClient]]
        /\ UNCHANGED <<created, lastHost, partTimer>>
        /\ \A c \in Clients : sock'[c] \in {sock[c], "closed"} /\ (sock'[c] # sock[c] => sock[c] = "open")
    BY <1>3 DEF CloseRoom, Shape, TypeOK
  <2>3. TimersOwned'
    <3> SUFFICES ASSUME NEW h \in Rooms
                 PROVE  /\ Owns(hostTimer[h], "host", h, NoUser)'
                        /\ Owns(emptyTimer[h], "empty", h, NoUser)'
                        /\ \A u \in Users : Owns(partTimer[h][u], "participant", h, u)'
      BY DEF TimersOwned
    <3>1. \A t \in Timers : job[t].at \in {"armed", "fired"} => job'[t] = job[t] \/ t \in {hostTimer[g], emptyTimer[g]}
      BY <2>1 DEF Threads
    <3>2. Owns(hostTimer[h], "host", h, NoUser)'
      BY <2>0, <2>2, <3>1 DEF Shape, TimersOwned, Owns, TypeOK
    <3>3. Owns(emptyTimer[h], "empty", h, NoUser)'
      BY <2>0, <2>2, <3>1 DEF Shape, TimersOwned, Owns, TypeOK
    <3>4. \A u \in Users : Owns(partTimer[h][u], "participant", h, u)'
      BY <2>0, <2>2, <3>1 DEF Shape, TimersOwned, Owns, TypeOK
    <3> QED BY <3>2, <3>3, <3>4
  <2>4. HandlersHaveSockets'
    BY <2>1, <2>2 DEF Shape, HandlersHaveSockets, Threads, AtRest
  <2>5. RoomsExist'
    BY <2>0, <2>1, <2>2 DEF Shape, RoomsExist, AtRest, NoRoom, TypeOK
  <2>6. ViewersNamed'
    BY <2>0, <2>2 DEF Shape, ViewersNamed, TypeOK
  <2>7. GraceFlag'
    BY <2>0, <2>2 DEF Shape, GraceFlag, TypeOK
  <2> QED BY <1>1, <2>3, <2>4, <2>5, <2>6, <2>7 DEF Shape
<1> QED BY <1>2, <1>3

\* A step that moves one handler or removal on, and no room or timer, keeps the
\* shape: "x" goes from one step to the next with the room it may hold.
LEMMA QuietShape ==
  ASSUME Shape, TypeOK', NEW x \in Threads,
         UNCHANGED <<created, viewers, reconnecting, hostTimer, partTimer,
                     emptyTimer, lastHost>>,
         \A y \in Threads \ {x} : job'[y] = job[y],
         job[x].at \notin {"armed", "fired"},
         job'[x].on <= created,
         job'[x].on = NoRoom => job'[x].at \in {"rest", "lookup", "evict"},
         x \in Clients =>
           /\ job'[x].at \notin {"armed", "fired", "close"}
           /\ job'[x].at \notin {"rest", "panicked"} => sock'[x] \in {"open", "closed"}
           /\ job'[x].at \in {"lookup", "publish", "setHost", "add"}
                => job'[x].user = UserOf[x],
         \A c \in Clients \ {x} :
           sock[c] \in {"open", "closed"} => sock'[c] \in {"open", "closed"}
  PROVE  Shape'
<1> USE ConstantsOK DEF ConstantsOK
<1>1. TimersOwned'
  <2>1. \A t \in Timers : job[t].at \in {"armed", "fired"} => job'[t] = job[t]
    BY DEF Threads
  <2> QED BY <2>1 DEF Shape, TimersOwned, Owns
<1>2. HandlersHaveSockets'
  BY DEF Shape, HandlersHaveSockets, Threads
<1>3. RoomsExist'
  BY DEF Shape, RoomsExist
<1>4. ViewersNamed' /\ GraceFlag'
  BY DEF Shape, ViewersNamed, GraceFlag
<1> QED BY <1>1, <1>2, <1>3, <1>4 DEF Shape

\* CreateRoom by a handler or an endpoint keeps the shape.
LEMMA CreateRoomShape ==
  ASSUME Shape, TypeOK', NEW host \in Users \cup {OriginHost}, CreateRoom(host),
         UNCHANGED sock,
         \/ job' = job
         \/ \E c \in Clients, s \in {"publish", "lookup"}, g \in {NoRoom, created + 1} :
              /\ job[c].at = "rest" /\ sock[c] = "open"
              /\ s = "publish" => g = created + 1
              /\ job' = [job EXCEPT ![c] = Doing(s, g, UserOf[c])]
  PROVE  Shape'
<1> USE ConstantsOK DEF ConstantsOK
<1>1. /\ created' = created + 1 /\ created \in Nat
      /\ UNCHANGED <<hostClient, viewers, reconnecting, hostTimer, partTimer,
                     emptyTimer, lastHost>>
  BY DEF CreateRoom, Shape, TypeOK
<1>2. \A x \in Threads :
        \/ job'[x] = job[x]
        \/ /\ x \in Clients /\ job[x].at = "rest" /\ sock[x] = "open"
           /\ job'[x].at \in {"publish", "lookup"}
           /\ job'[x].on \in {NoRoom, created + 1} /\ job'[x].user = UserOf[x]
           /\ job'[x].at = "publish" => job'[x].on = created + 1
  BY DEF Shape, TypeOK, Doing, NoRoom
<1>3. TimersOwned'
  BY <1>1, <1>2 DEF Shape, TimersOwned, Owns, Threads
<1>4. HandlersHaveSockets'
  BY <1>1, <1>2 DEF Shape, HandlersHaveSockets, Threads
<1>5. RoomsExist'
  <2>1. \A x \in Threads : job[x].on \in Nat
    BY DEF Shape, TypeOK, Job, Rooms, NoRoom
  <2> QED BY <1>1, <1>2, <2>1 DEF Shape, RoomsExist, NoRoom, Rooms
<1>6. ViewersNamed' /\ GraceFlag'
  BY <1>1 DEF Shape, ViewersNamed, GraceFlag
<1> QED BY <1>3, <1>4, <1>5, <1>6 DEF Shape

-----------------------------------------------------------------------------
(* What the handlers that stop and arm timers do to the goroutines.         *)

\* A joining handler moves on to AddViewer and at most stops the two timers
\* it cancels.
LEMMA JoinViewerJobs ==
  ASSUME TypeOK, NEW c \in Clients, JoinViewer(c), active # NoRoom
  PROVE  /\ job'[c] = Doing("add", active, UserOf[c])
         /\ \A x \in Threads \ {c} :
              \/ job'[x] = job[x]
              \/ /\ job'[x] = AtRest /\ x \in Timers
                 /\ x \in {emptyTimer[active], partTimer[active][UserOf[c]]}
<1> DEFINE g == active  u == UserOf[c]
           inner == Stopped(job, emptyTimer[g])
           outer == [Stopped(inner, partTimer[g][u]) EXCEPT ![c] = Doing("add", g, u)]
<1>1. job \in [Threads -> Job] /\ c \in Threads /\ g \in Rooms /\ u \in Users
  BY ConstantsOK DEF ConstantsOK, TypeOK, Threads, Rooms, NoRoom
<1>2. /\ inner \in [Threads -> Job]
      /\ \A x \in Threads : \/ inner[x] = job[x]
                            \/ inner[x] = AtRest /\ x = emptyTimer[g] /\ x \in Timers
  BY <1>1, StoppedFacts
<1>3. Doing("add", g, u) \in Job
  BY <1>1, JobTypes DEF Steps
<1>4. /\ outer[c] = Doing("add", g, u)
      /\ \A x \in Threads \ {c} :
           \/ outer[x] = inner[x]
           \/ outer[x] = AtRest /\ x = partTimer[g][u] /\ x \in Timers
  <2> HIDE DEF inner
  <2> QED BY <1>1, <1>2, <1>3, StoppedThen
<1>5. job' = outer
  BY DEF JoinViewer
<1> HIDE DEF outer, inner
<1> QED BY <1>2, <1>4, <1>5

\* Starting the host's grace timer arms one free timer and at most stops the
\* one before it.
LEMMA ReconnectTimerJobs ==
  ASSUME TypeOK, NEW g \in Rooms, StartReconnectTimer(g)
  PROVE  \E t \in Timers :
           /\ job[t].at = "rest" /\ job'[t] = Armed("host", g, NoUser)
           /\ hostTimer' = [hostTimer EXCEPT ![g] = t]
           /\ \A x \in Threads \ {t} :
                \/ job'[x] = job[x]
                \/ job'[x] = AtRest /\ x = hostTimer[g] /\ x \in Timers
<1> DEFINE r == Armed("host", g, NoUser)
<1>1. PICK t \in Timers :
        /\ job[t].at = "rest" /\ job' = [Stopped(job, hostTimer[g]) EXCEPT ![t] = r]
        /\ hostTimer' = [hostTimer EXCEPT ![g] = t]
  BY DEF StartReconnectTimer
<1>2. r \in Job /\ t \in Threads /\ job \in [Threads -> Job]
  BY JobTypes DEF Kinds, Threads, TypeOK
<1>3. /\ job'[t] = r
      /\ \A x \in Threads \ {t} :
           \/ job'[x] = job[x]
           \/ job'[x] = AtRest /\ x = hostTimer[g] /\ x \in Timers
  <2> HIDE DEF r
  <2> QED BY <1>1, <1>2, StoppedThen
<1> QED BY <1>1, <1>3

\* The same for the grace timer of a participant.
LEMMA ParticipantTimerJobs ==
  ASSUME TypeOK, NEW g \in Rooms, NEW u \in Users,
         StartParticipantReconnectTimer(g, u)
  PROVE  \E t \in Timers :
           /\ job[t].at = "rest" /\ job'[t] = Armed("participant", g, u)
           /\ partTimer' = [partTimer EXCEPT ![g][u] = t]
           /\ \A x \in Threads \ {t} :
                \/ job'[x] = job[x]
                \/ job'[x] = AtRest /\ x = partTimer[g][u] /\ x \in Timers
<1> DEFINE r == Armed("participant", g, u)
<1>1. PICK t \in Timers :
        /\ job[t].at = "rest" /\ job' = [Stopped(job, partTimer[g][u]) EXCEPT ![t] = r]
        /\ partTimer' = [partTimer EXCEPT ![g][u] = t]
  BY DEF StartParticipantReconnectTimer
<1>2. r \in Job /\ t \in Threads /\ job \in [Threads -> Job]
  BY JobTypes DEF Kinds, Threads, TypeOK
<1>3. /\ job'[t] = r
      /\ \A x \in Threads \ {t} :
           \/ job'[x] = job[x]
           \/ job'[x] = AtRest /\ x = partTimer[g][u] /\ x \in Timers
  <2> HIDE DEF r
  <2> QED BY <1>1, <1>2, StoppedThen
<1> QED BY <1>1, <1>3

\* The same for the empty-room timer; the goroutine that starts it is done.
LEMMA EmptyTimerJobs ==
  ASSUME TypeOK, NEW x \in Threads, StartEmptyRoomTimer(x), job[x].on \in Rooms
  PROVE  \E t \in Timers :
           /\ job[t].at = "rest" /\ t # x
           /\ job'[t] = Armed("empty", job[x].on, NoUser) /\ job'[x] = AtRest
           /\ emptyTimer' = [emptyTimer EXCEPT ![job[x].on] = t]
           /\ \A y \in Threads \ {x, t} :
                \/ job'[y] = job[y]
                \/ job'[y] = AtRest /\ y = emptyTimer[job[x].on] /\ y \in Timers
<1> DEFINE g == job[x].on  r == Armed("empty", g, NoUser)
<1>1. PICK t \in Timers :
        /\ job[t].at = "rest"
        /\ job' = [Stopped(job, emptyTimer[g]) EXCEPT ![t] = r, ![x] = AtRest]
        /\ emptyTimer' = [emptyTimer EXCEPT ![g] = t]
  BY DEF StartEmptyRoomTimer
<1> DEFINE j == [Stopped(job, emptyTimer[g]) EXCEPT ![t] = r]
<1>2. r \in Job /\ t \in Threads /\ t # x /\ job \in [Threads -> Job]
  BY <1>1, JobTypes DEF Kinds, Threads, TypeOK, StartEmptyRoomTimer
<1>3. /\ j[t] = r
      /\ \A y \in Threads \ {t} :
           \/ j[y] = job[y]
           \/ j[y] = AtRest /\ y = emptyTimer[g] /\ y \in Timers
  <2> HIDE DEF r
  <2> QED BY <1>2, StoppedThen
<1>4. j \in [Threads -> Job]
  <2> HIDE DEF r
  <2> QED BY <1>2, StoppedFacts
<1>5. job' = [j EXCEPT ![x] = AtRest]
  BY <1>1
<1>6. /\ job'[t] = r /\ job'[x] = AtRest
      /\ \A y \in Threads \ {x, t} :
           \/ job'[y] = job[y]
           \/ job'[y] = AtRest /\ y = emptyTimer[g] /\ y \in Timers
  <2> HIDE DEF j, r
  <2> QED BY <1>2, <1>3, <1>4, <1>5
<1> QED BY <1>1, <1>2, <1>6

\* A kick moves on to shutting the target and at most stops its grace timer.
LEMMA KickJobs ==
  ASSUME TypeOK, NEW k \in Clients, NEW u \in Users, Kick(k, u)
  PROVE  /\ job'[k] = Doing("shut", active, u)
         /\ \A x \in Threads \ {k} :
              \/ job'[x] = job[x]
              \/ job'[x] = AtRest /\ x = partTimer[active][u] /\ x \in Timers
<1> DEFINE r == Doing("shut", active, u)
<1>1. job' = [Stopped(job, partTimer[active][u]) EXCEPT ![k] = r] /\ active # NoRoom
  BY DEF Kick
<1>2. r \in Job /\ k \in Threads /\ job \in [Threads -> Job]
  BY <1>1, JobTypes, ConstantsOK DEF ConstantsOK, Steps, Threads, TypeOK, Rooms, NoRoom
<1> HIDE DEF r
<1>3. /\ job'[k] = r
      /\ \A x \in Threads \ {k} :
           \/ job'[x] = job[x]
           \/ job'[x] = AtRest /\ x = partTimer[active][u] /\ x \in Timers
  BY <1>1, <1>2, StoppedThen
<1> QED BY <1>3 DEF r

\* Publishing as the host moves on to SetHostClient and at most stops the
\* grace timer.
LEMMA PublishAsHostJobs ==
  ASSUME TypeOK, NEW c \in Clients, PublishAsHost(c)
  PROVE  /\ job'[c].at = "setHost" /\ job'[c].on = job[c].on
         /\ job'[c].user = job[c].user
         /\ \A x \in Threads \ {c} :
              \/ job'[x] = job[x]
              \/ /\ job'[x] = AtRest /\ x = hostTimer[job[c].on] /\ x \in Timers
                 /\ reconnecting[job[c].on]
<1> DEFINE g == job[c].on  r == [job[c] EXCEPT !.at = "setHost"]
           jobs == [job EXCEPT ![c].at = "setHost"]
<1>1. job \in [Threads -> Job] /\ c \in Threads /\ c \notin Timers
  BY ConstantsOK DEF ConstantsOK, TypeOK, Threads
<1>2. r \in Job /\ r.at = "setHost" /\ r.on = g /\ r.user = job[c].user
  <2>1. job[c] \in Job /\ "setHost" \in Steps
    BY <1>1 DEF Steps
  <2> QED BY <2>1, AtTypes
<1>3. \/ reconnecting[g] /\ job' = Stopped(jobs, hostTimer[g])
      \/ job' = jobs
  BY DEF PublishAsHost
<1>4. jobs = [job EXCEPT ![c] = r]
  OBVIOUS
<1> HIDE DEF jobs, r
<1>5. jobs \in [Threads -> Job] /\ jobs[c] = r /\ \A x \in Threads \ {c} : jobs[x] = job[x]
  BY <1>1, <1>2, <1>4
<1>6. \A x \in Threads : \/ job'[x] = jobs[x]
                         \/ job'[x] = AtRest /\ x = hostTimer[g] /\ x \in Timers /\ reconnecting[g]
  BY <1>3, <1>5, StoppedFacts
<1> QED BY <1>1, <1>2, <1>5, <1>6

-----------------------------------------------------------------------------
\* Every step keeps the shape.
LEMMA ShapeStep == Shape /\ [Next]_vars => Shape'
<1> SUFFICES ASSUME Shape, [Next]_vars PROVE Shape'
  OBVIOUS
<1> USE ConstantsOK DEF ConstantsOK
<1>t. TypeOK /\ TypeOK'
  BY TypeStep DEF Shape
<1>a. /\ job \in [Threads -> Job]
      /\ \A x \in Threads : job[x].on \in Nat /\ job[x].on <= created
      /\ created \in Nat /\ active \in Nat /\ active <= created
  BY <1>t DEF Shape, RoomsExist, TypeOK, Job, Rooms, NoRoom
<1>b. active # NoRoom => active \in Rooms
  BY <1>t DEF TypeOK, Rooms, NoRoom
<1>c. \A c \in Clients : /\ job[c].at \notin {"armed", "fired", "close"}
                         /\ job[c].at \notin {"rest", "panicked"} => sock[c] \in {"open", "closed"}
  BY DEF Shape, HandlersHaveSockets
<1>1. ASSUME NEW u \in HttpHosts, HttpCreateRoom(u) PROVE Shape'
  BY <1>1, <1>t, ConstantsOK, CreateRoomShape DEF ConstantsOK, HttpCreateRoom
<1>2. CASE ForceEndRoom
  BY <1>2, <1>a, CloseRoomShape DEF ForceEndRoom
<1>3. ASSUME NEW c \in Clients, Connect(c) \/ Drop(c) PROVE Shape'
  <2>1. /\ \A d \in Clients : sock[d] \in {"open", "closed"} => sock'[d] \in {"open", "closed"}
        /\ UNCHANGED <<created, roomVars, job>>
    BY <1>3, <1>t DEF Connect, Drop, TypeOK
  <2>2. HandlersHaveSockets'
    BY <2>1 DEF Shape, HandlersHaveSockets
  <2> QED
    BY <1>t, <2>1, <2>2 DEF Shape, TimersOwned, Owns, RoomsExist, ViewersNamed, GraceFlag, roomVars
<1>4. ASSUME NEW c \in Clients, Publish(c) PROVE Shape'
  <2>1. job[c].at = "rest" /\ sock[c] = "open" /\ UNCHANGED <<sock, hasPC>>
    BY <1>4 DEF Publish, Ready
  <2>2. CASE CreateRoom(UserOf[c]) /\ job' = [job EXCEPT ![c] = Doing("publish", created + 1, UserOf[c])]
    BY <1>t, <2>1, <2>2, CreateRoomShape
  <2>3. CASE active # NoRoom /\ job' = [job EXCEPT ![c] = Doing("publish", active, UserOf[c])] /\ UNCHANGED <<active, created, roomVars>>
    BY <1>t, <1>a, <2>1, <2>3, QuietShape DEF roomVars, Doing, Threads
  <2> QED BY <1>4, <2>2, <2>3 DEF Publish
<1>5. ASSUME NEW c \in Clients, JoinCreate(c) PROVE Shape'
  BY <1>t, <1>5, CreateRoomShape DEF JoinCreate, Ready
<1>6. ASSUME NEW c \in Clients, JoinViewer(c) PROVE Shape'
  <2> DEFINE g == active  u == UserOf[c]
  <2>1. /\ job[c].at \in {"rest", "lookup"} /\ sock[c] \in {"open", "closed"}
        /\ UNCHANGED <<active, created, hostID, hostClient, viewers, reconnecting,
                       hostTimer, lastHost, sock, hasPC>>
    BY <1>6, <1>c DEF JoinViewer, Ready
  <2>2. CASE g = NoRoom
    <3>1. job' = [job EXCEPT ![c] = AtRest] /\ UNCHANGED <<emptyTimer, partTimer>>
      BY <1>6, <2>2 DEF JoinViewer
    <3> QED
      BY <1>t, <1>a, <2>1, <3>1, QuietShape DEF AtRest, NoRoom, Threads
  <2>3. CASE g # NoRoom
    <3>0. g \in Rooms
      BY <1>b, <2>3
    <3>1. /\ job' = [Stopped(Stopped(job, emptyTimer[g]), partTimer[g][u])
                       EXCEPT ![c] = Doing("add", g, u)]
          /\ emptyTimer' = [emptyTimer EXCEPT ![g] = NoTimer]
          /\ partTimer' = [partTimer EXCEPT ![g][u] = NoTimer]
      BY <1>6, <2>3 DEF JoinViewer
    <3>2. /\ job'[c] = Doing("add", g, u)
          /\ \A x \in Threads \ {c} :
               \/ job'[x] = job[x]
               \/ job'[x] = AtRest /\ x \in {emptyTimer[g], partTimer[g][u]} /\ x \in Timers
      BY <1>t, <1>6, <2>3, JoinViewerJobs
    <3>3. TimersOwned'
      <4>1. \A t \in Timers : job'[t] = job[t] \/ t \in {emptyTimer[g], partTimer[g][u]}
        BY <3>2 DEF Threads
      <4>2. TimersOwned /\ UNCHANGED hostTimer
        BY <2>1 DEF Shape
      <4>3. /\ \A h \in Rooms : emptyTimer'[h] = IF h = g THEN NoTimer ELSE emptyTimer[h]
            /\ \A h \in Rooms, w \in Users :
                 partTimer'[h][w] = IF h = g /\ w = u THEN NoTimer ELSE partTimer[h][w]
        BY <1>t, <3>0, <3>1 DEF TypeOK
      <4>4. u \in Users /\ NoTimer \notin Timers
        OBVIOUS
      <4>5. ASSUME NEW h \in Rooms PROVE Owns(hostTimer[h], "host", h, NoUser)'
        BY <3>0, <4>1, <4>2, <4>4 DEF TimersOwned, Owns
      <4>6. ASSUME NEW h \in Rooms PROVE Owns(emptyTimer[h], "empty", h, NoUser)'
        BY <3>0, <4>1, <4>2, <4>3, <4>4 DEF TimersOwned, Owns
      <4>7. ASSUME NEW h \in Rooms, NEW w \in Users
            PROVE  Owns(partTimer[h][w], "participant", h, w)'
        BY <3>0, <4>1, <4>2, <4>3, <4>4 DEF TimersOwned, Owns
      <4> QED
        BY <4>5, <4>6, <4>7 DEF TimersOwned
    <3>4. HandlersHaveSockets'
      BY <2>1, <3>2 DEF Shape, HandlersHaveSockets, Threads, Doing, AtRest
    <3>5. RoomsExist'
      BY <1>a, <2>1, <3>0, <3>2 DEF Shape, RoomsExist, Doing, AtRest, NoRoom, Rooms
    <3>6. ViewersNamed' /\ GraceFlag'
      BY <2>1 DEF Shape, ViewersNamed, GraceFlag
    <3> QED BY <1>t, <3>3, <3>4, <3>5, <3>6 DEF Shape
  <2> QED BY <2>2, <2>3
<1>7. ASSUME NEW c \in Clients, HandleClientDisconnect(c) PROVE Shape'
  <2> DEFINE g == active  u == UserOf[c]
  <2>1. /\ job[c].at \in {"rest", "panicked"} /\ sock' = [sock EXCEPT ![c] = "gone"]
        /\ UNCHANGED <<active, created>>
    BY <1>7 DEF HandleClientDisconnect
  <2>2. CASE IsHost(u) /\ StartReconnectTimer(g)
                /\ UNCHANGED <<hostID, viewers, partTimer, emptyTimer, lastHost>>
    <3>0. g \in Rooms
      BY <1>b, <2>2 DEF IsHost
    <3>1. PICK t \in Timers :
            /\ job[t].at = "rest" /\ job'[t] = Armed("host", g, NoUser)
            /\ hostTimer' = [hostTimer EXCEPT ![g] = t]
            /\ \A x \in Threads \ {t} :
                 \/ job'[x] = job[x]
                 \/ job'[x] = AtRest /\ x = hostTimer[g] /\ x \in Timers
      BY <1>t, <2>2, <3>0, ReconnectTimerJobs
    <3>2. reconnecting' = [reconnecting EXCEPT ![g] = TRUE]
      BY <2>2 DEF StartReconnectTimer
    <3>3. TimersOwned'
      <4>1. \A v \in Timers : v # t => job'[v] = job[v] \/ v = hostTimer[g]
        BY <3>1 DEF Threads
      <4> SUFFICES ASSUME NEW h \in Rooms
                   PROVE  /\ Owns(hostTimer[h], "host", h, NoUser)'
                          /\ Owns(emptyTimer[h], "empty", h, NoUser)'
                          /\ \A w \in Users : Owns(partTimer[h][w], "participant", h, w)'
        BY DEF TimersOwned
      <4>2. \A v \in Timers : job[v].at \in {"armed", "fired"} => job'[v] = job[v] \/ v = hostTimer[g]
        BY <3>1, <4>1
      <4>3. Owns(hostTimer[h], "host", h, NoUser)'
        <5>1. hostTimer'[h] = IF h = g THEN t ELSE hostTimer[h]
          BY <1>t, <3>0, <3>1 DEF TypeOK
        <5> QED BY <3>0, <3>1, <4>2, <5>1 DEF Shape, TimersOwned, Owns, Armed
      <4>4. Owns(emptyTimer[h], "empty", h, NoUser)'
        BY <2>2, <3>0, <4>2 DEF Shape, TimersOwned, Owns
      <4>5. \A w \in Users : Owns(partTimer[h][w], "participant", h, w)'
        BY <2>2, <3>0, <4>2 DEF Shape, TimersOwned, Owns
      <4> QED BY <4>3, <4>4, <4>5
    <3>4. HandlersHaveSockets'
      <4>1. \A d \in Clients : job'[d] = job[d]
        BY <3>1 DEF Threads
      <4> QED BY <1>t, <2>1, <4>1 DEF Shape, HandlersHaveSockets, TypeOK
    <3>5. RoomsExist'
      BY <1>a, <2>1, <2>2, <3>0, <3>1 DEF Shape, RoomsExist, Armed, AtRest, NoRoom, Rooms
    <3>6. ViewersNamed' /\ GraceFlag'
      BY <1>t, <2>2, <3>0, <3>1, <3>2 DEF Shape, ViewersNamed, GraceFlag, TypeOK
    <3> QED BY <1>t, <3>3, <3>4, <3>5, <3>6 DEF Shape
  <2>3. CASE IsViewer(u) /\ StartParticipantReconnectTimer(g, u)
                /\ UNCHANGED <<hostID, hostClient, viewers, reconnecting, hostTimer, emptyTimer, lastHost>>
    <3>0. g \in Rooms
      BY <1>b, <2>3 DEF IsViewer
    <3>1. PICK t \in Timers :
            /\ job[t].at = "rest" /\ job'[t] = Armed("participant", g, u)
            /\ partTimer' = [partTimer EXCEPT ![g][u] = t]
            /\ \A x \in Threads \ {t} :
                 \/ job'[x] = job[x]
                 \/ job'[x] = AtRest /\ x = partTimer[g][u] /\ x \in Timers
      BY <1>t, <2>3, <3>0, ParticipantTimerJobs
    <3>3. TimersOwned'
      <4>1. \A v \in Timers : v # t => job'[v] = job[v] \/ v = partTimer[g][u]
        BY <3>1 DEF Threads
      <4> QED
        <5>1. \A h \in Rooms, w \in Users :
                partTimer'[h][w] = IF h = g /\ w = u THEN t ELSE partTimer[h][w]
          BY <1>t, <3>0, <3>1 DEF TypeOK
        <5> QED BY <2>3, <3>0, <3>1, <4>1, <5>1 DEF Shape, TimersOwned, Owns, Armed
    <3>4. HandlersHaveSockets'
      <4>1. \A d \in Clients : job'[d] = job[d]
        BY <3>1 DEF Threads
      <4> QED BY <1>t, <2>1, <4>1 DEF Shape, HandlersHaveSockets, TypeOK
    <3>5. RoomsExist'
      BY <1>a, <2>1, <2>3, <3>0, <3>1 DEF Shape, RoomsExist, Armed, AtRest, NoRoom, Rooms
    <3>6. ViewersNamed' /\ GraceFlag'
      BY <2>3 DEF Shape, ViewersNamed, GraceFlag
    <3> QED BY <1>t, <3>3, <3>4, <3>5, <3>6 DEF Shape
  <2>4. CASE UNCHANGED <<roomVars, job>>
    <3>1. HandlersHaveSockets'
      BY <1>t, <2>1, <2>4 DEF Shape, HandlersHaveSockets, TypeOK
    <3> QED
      BY <1>t, <2>1, <2>4, <3>1 DEF Shape, TimersOwned, Owns, RoomsExist, ViewersNamed, GraceFlag, roomVars
  <2> QED BY <1>7, <2>2, <2>3, <2>4 DEF HandleClientDisconnect
<1>8. ASSUME NEW c \in Clients, PublishAsCoHost(c) PROVE Shape'
  BY <1>t, <1>a, <1>8, QuietShape DEF PublishAsCoHost, roomVars, Threads, AtRest, NoRoom
<1>9. ASSUME NEW c \in Clients, PublishAsHost(c) PROVE Shape'
  <2> DEFINE g == job[c].on
  <2>1. /\ job[c].at = "publish" /\ sock[c] \in {"open", "closed"} /\ job[c].user = UserOf[c]
        /\ UNCHANGED <<created, viewers, partTimer, emptyTimer, lastHost, sock>>
    BY <1>9, <1>c DEF PublishAsHost, Shape, HandlersHaveSockets
  <2>2. c \in Threads /\ g \in Rooms
    BY <1>a, <1>t, <2>1 DEF Shape, RoomsExist, TypeOK, Rooms, NoRoom, Threads, Job
  <2>3. /\ job'[c].at = "setHost" /\ job'[c].on = g /\ job'[c].user = UserOf[c]
        /\ \A x \in Threads \ {c} :
             \/ job'[x] = job[x]
             \/ /\ job'[x] = AtRest /\ x = hostTimer[g] /\ x \in Timers
                /\ reconnecting[g]
    BY <1>t, <1>9, <2>1, PublishAsHostJobs
  <2>4. /\ \A h \in Rooms :
             /\ hostTimer'[h] = IF h = g /\ reconnecting[g] THEN NoTimer ELSE hostTimer[h]
             /\ hostTimer'[h] = NoTimer <=> (h = g /\ reconnecting[g]) \/ hostTimer[h] = NoTimer
        /\ \A h \in Rooms :
             reconnecting'[h] <=> reconnecting[h] /\ ~(h = g /\ reconnecting[g])
    <3>1. CASE reconnecting[g]
      BY <1>t, <1>9, <3>1 DEF PublishAsHost, TypeOK
    <3>2. CASE ~reconnecting[g]
      BY <1>9, <3>2 DEF PublishAsHost
    <3> QED BY <3>1, <3>2
  <2>5. TimersOwned'
    <3>1. \A t \in Timers : job'[t] = job[t] \/ (t = hostTimer[g] /\ reconnecting[g])
      BY <2>3 DEF Threads
    <3> HIDE DEF g
    <3> SUFFICES ASSUME NEW h \in Rooms
                 PROVE  /\ Owns(hostTimer[h], "host", h, NoUser)'
                        /\ Owns(emptyTimer[h], "empty", h, NoUser)'
                        /\ \A w \in Users : Owns(partTimer[h][w], "participant", h, w)'
      BY DEF TimersOwned
    <3>2. Owns(hostTimer[h], "host", h, NoUser)'
      BY <2>2, <2>4, <3>1 DEF Shape, TimersOwned, Owns
    <3>3. Owns(emptyTimer[h], "empty", h, NoUser)'
      BY <2>1, <2>2, <3>1 DEF Shape, TimersOwned, Owns
    <3>4. \A w \in Users : Owns(partTimer[h][w], "participant", h, w)'
      BY <2>1, <2>2, <3>1 DEF Shape, TimersOwned, Owns
    <3> QED BY <3>2, <3>3, <3>4
  <2>6. HandlersHaveSockets'
    BY <2>1, <2>3 DEF Shape, HandlersHaveSockets, Threads, AtRest
  <2>7. RoomsExist'
    BY <1>a, <2>1, <2>2, <2>3 DEF Shape, RoomsExist, Rooms, NoRoom, AtRest
  <2>8. ViewersNamed' /\ GraceFlag'
    BY <2>1, <2>4 DEF Shape, ViewersNamed, GraceFlag
  <2> QED BY <1>t, <2>5, <2>6, <2>7, <2>8 DEF Shape
<1>10. ASSUME NEW c \in Clients, SetHostClient(c) PROVE Shape'
  <2> DEFINE g == job[c].on
  <2>1. /\ job[c].at = "setHost" /\ job' = [job EXCEPT ![c] = AtRest]
        /\ lastHost' = [lastHost EXCEPT ![g] = c]
        /\ UNCHANGED <<created, viewers, reconnecting, hostTimer, partTimer, emptyTimer, sock>>
    BY <1>10 DEF SetHostClient
  <2>2. /\ c \in Threads /\ job'[c] = AtRest
        /\ \A x \in Threads \ {c} : job'[x] = job[x]
    BY <1>a, <2>1 DEF Threads
  <2>3. TimersOwned'
    <3>1. \A t \in Timers : job'[t] = job[t]
      BY <2>2 DEF Threads
    <3> QED BY <2>1, <3>1 DEF Shape, TimersOwned, Owns
  <2>4. HandlersHaveSockets'
    BY <2>1, <2>2 DEF Shape, HandlersHaveSockets, Threads, AtRest
  <2>5. RoomsExist'
    <3>1. \A h \in Rooms : h > created => lastHost'[h] = lastHost[h]
      BY <1>a, <1>t, <2>1, <2>2 DEF TypeOK, Rooms
    <3> QED BY <1>a, <2>1, <2>2, <3>1 DEF Shape, RoomsExist, AtRest, NoRoom
  <2>6. ViewersNamed' /\ GraceFlag'
    BY <2>1 DEF Shape, ViewersNamed, GraceFlag
  <2> QED BY <1>t, <2>3, <2>4, <2>5, <2>6 DEF Shape
<1>11. ASSUME NEW c \in Clients, AddViewer(c) PROVE Shape'
  <2> DEFINE g == job[c].on  u == job[c].user
  <2>1. /\ job[c].at = "add" /\ u = UserOf[c] /\ sock[c] \in {"open", "closed"}
        /\ job' = [job EXCEPT ![c].at = "count"]
        /\ viewers' = [viewers EXCEPT ![g][u] = c]
        /\ UNCHANGED <<created, lastHost, reconnecting, hostTimer, partTimer, emptyTimer, sock>>
    BY <1>11 DEF AddViewer, Shape, HandlersHaveSockets
  <2>2. /\ c \in Threads /\ job'[c].at = "count" /\ job'[c].on = g
        /\ \A x \in Threads \ {c} : job'[x] = job[x]
    BY <1>a, <2>1, AtTypes DEF Threads, Steps
  <2>3. TimersOwned'
    <3>1. \A t \in Timers : job'[t] = job[t]
      BY <2>2 DEF Threads
    <3> QED BY <2>1, <3>1 DEF Shape, TimersOwned, Owns
  <2>4. HandlersHaveSockets'
    BY <2>1, <2>2 DEF Shape, HandlersHaveSockets, Threads
  <2>5. g \in Rooms /\ g <= created
    BY <1>a, <1>t, <2>1, <2>2 DEF Shape, RoomsExist, TypeOK, Rooms, NoRoom, Job
  <2>6. \A h \in Rooms, w \in Users : viewers'[h][w] = IF h = g /\ w = u THEN c ELSE viewers[h][w]
    BY <1>t, <2>1 DEF TypeOK
  <2>7. RoomsExist'
    BY <1>a, <2>1, <2>2, <2>5, <2>6 DEF Shape, RoomsExist, NoRoom, Rooms
  <2>8. ViewersNamed'
    BY <2>1, <2>6 DEF Shape, ViewersNamed
  <2>9. GraceFlag'
    BY <2>1 DEF Shape, GraceFlag
  <2> QED BY <1>t, <2>3, <2>4, <2>7, <2>8, <2>9 DEF Shape
<1>12. ASSUME NEW c \in Clients, ShutKicked(c) PROVE Shape'
  <2>1. /\ job[c].at = "shut" /\ UNCHANGED <<active, created, roomVars>>
        /\ job' = [job EXCEPT ![c] = Doing("evict", NoRoom, job[c].user)]
        /\ \A d \in Clients : sock[d] \in {"open", "closed"} => sock'[d] \in {"open", "closed"}
    BY <1>12, <1>t DEF ShutKicked, TypeOK
  <2>2. sock'[c] \in {"open", "closed"}
    BY <1>c, <2>1
  <2> QED
    BY <1>t, <1>a, <2>1, <2>2, QuietShape DEF roomVars, Threads, Doing, NoRoom
<1>13. ASSUME NEW k \in Clients, NEW u \in Users, Kick(k, u) PROVE Shape'
  <2> DEFINE g == active
  <2>0. g \in Rooms
    BY <1>13, <1>b DEF Kick
  <2>1. /\ job[k].at = "rest" /\ sock[k] = "open"
        /\ job' = [Stopped(job, partTimer[g][u]) EXCEPT ![k] = Doing("shut", g, u)]
        /\ partTimer' = [partTimer EXCEPT ![g][u] = NoTimer]
        /\ UNCHANGED <<created, viewers, reconnecting, hostTimer, emptyTimer, lastHost, sock>>
    BY <1>13 DEF Kick, Ready
  <2>2. /\ job'[k] = Doing("shut", g, u)
        /\ \A x \in Threads \ {k} :
             \/ job'[x] = job[x]
             \/ job'[x] = AtRest /\ x = partTimer[g][u] /\ x \in Timers
    BY <1>t, <1>13, KickJobs
  <2>3. TimersOwned'
    <3>1. \A t \in Timers : job'[t] = job[t] \/ t = partTimer[g][u]
      BY <2>2 DEF Threads
    <3>2. \A h \in Rooms, w \in Users :
            /\ partTimer'[h][w] \in {partTimer[h][w], NoTimer}
            /\ h = g /\ w = u => partTimer'[h][w] = NoTimer
      BY <1>t, <2>0, <2>1 DEF TypeOK
    <3>3. \A h \in Rooms : /\ Owns(hostTimer[h], "host", h, NoUser)
                            /\ Owns(emptyTimer[h], "empty", h, NoUser)
                            /\ \A w \in Users : Owns(partTimer[h][w], "participant", h, w)
      BY DEF Shape, TimersOwned
    <3>4. Owns(partTimer[g][u], "participant", g, u)
      BY <2>0, <3>3
    <3> SUFFICES ASSUME NEW h \in Rooms
                 PROVE  /\ Owns(hostTimer[h], "host", h, NoUser)'
                        /\ Owns(emptyTimer[h], "empty", h, NoUser)'
                        /\ \A w \in Users : Owns(partTimer[h][w], "participant", h, w)'
      BY DEF TimersOwned
    <3> HIDE DEF g
    <3>5. Owns(hostTimer[h], "host", h, NoUser)' /\ Owns(emptyTimer[h], "empty", h, NoUser)'
      BY <2>1, <3>1, <3>3, <3>4 DEF Owns
    <3>6. \A w \in Users : Owns(partTimer[h][w], "participant", h, w)'
      BY <3>1, <3>2, <3>3, <3>4 DEF Owns
    <3> QED BY <3>5, <3>6
  <2>4. HandlersHaveSockets'
    BY <2>1, <2>2 DEF Shape, HandlersHaveSockets, Threads, Doing, AtRest
  <2>5. RoomsExist'
    BY <1>a, <2>0, <2>1, <2>2 DEF Shape, RoomsExist, Doing, AtRest, NoRoom, Rooms
  <2>6. ViewersNamed' /\ GraceFlag'
    BY <2>1 DEF Shape, ViewersNamed, GraceFlag
  <2> QED BY <1>t, <2>3, <2>4, <2>5, <2>6 DEF Shape
<1>14. ASSUME NEW x \in Threads, Removal(x) PROVE Shape'
  <2>1. CASE RemoveLookup(x)
    <3>1. /\ job[x].at = "evict" /\ UNCHANGED <<active, created, roomVars, sock, hasPC>>
          /\ \A y \in Threads \ {x} : job'[y] = job[y]
          /\ job'[x] = AtRest \/ (active # NoRoom /\ job'[x] = Doing("remove", active, job[x].user))
      BY <1>a, <2>1 DEF RemoveLookup
    <3> QED
      BY <1>t, <1>a, <1>b, <1>c, <3>1, QuietShape DEF roomVars, Doing, AtRest, NoRoom
  <2>2. CASE RemoveViewer(x)
    <3> DEFINE g == job[x].on  u == job[x].user
    <3>1. /\ job[x].at = "remove" /\ job' = [job EXCEPT ![x].at = "count"]
          /\ viewers' = [viewers EXCEPT ![g][u] = NoClient]
          /\ UNCHANGED <<created, lastHost, reconnecting, hostTimer, partTimer, emptyTimer, sock>>
      BY <2>2 DEF RemoveViewer
    <3>2. /\ job'[x].at = "count" /\ job'[x].on = g
          /\ \A y \in Threads \ {x} : job'[y] = job[y]
      BY <1>a, <3>1, AtTypes DEF Steps
    <3>3. TimersOwned'
      <4>1. \A t \in Timers : job[t].at \in {"armed", "fired"} => job'[t] = job[t]
        BY <3>1, <3>2 DEF Threads
      <4> QED BY <3>1, <4>1 DEF Shape, TimersOwned, Owns
    <3>4. HandlersHaveSockets'
      BY <1>c, <3>1, <3>2 DEF Shape, HandlersHaveSockets, Threads
    <3>5. \A h \in Rooms, w \in Users : viewers'[h][w] \in {viewers[h][w], NoClient}
      BY <1>t, <3>1 DEF TypeOK
    <3>6. RoomsExist'
      BY <1>a, <3>1, <3>2, <3>5 DEF Shape, RoomsExist, NoRoom
    <3>7. ViewersNamed' /\ GraceFlag'
      BY <3>1, <3>5 DEF Shape, ViewersNamed, GraceFlag
    <3> QED BY <1>t, <3>3, <3>4, <3>6, <3>7 DEF Shape
  <2>3. CASE CountViewers(x) \/ AskHost(x)
    <3>0. \A s \in Steps : /\ [job[x] EXCEPT !.at = s].at = s
                           /\ [job[x] EXCEPT !.at = s].on = job[x].on
      BY <1>a, AtTypes
    <3>1. /\ job[x].at \in {"count", "askHost"} /\ UNCHANGED <<active, created, roomVars, sock, hasPC>>
          /\ \A y \in Threads \ {x} : job'[y] = job[y]
          /\ \/ job'[x] = AtRest
             \/ job'[x].at \in {"askHost", "start"} /\ job'[x].on = job[x].on
      BY <1>a, <2>3, <3>0 DEF CountViewers, AskHost, Steps
    <3>2. job[x].on # NoRoom
      BY <3>1 DEF Shape, RoomsExist
    <3> QED
      BY <1>t, <1>a, <1>c, <3>1, <3>2, QuietShape DEF roomVars, AtRest, NoRoom
  <2>4. CASE StartEmptyRoomTimer(x)
    <3> DEFINE g == job[x].on
    <3>0. job[x].at = "start" /\ g \in Rooms
      BY <1>a, <1>t, <2>4 DEF StartEmptyRoomTimer, Shape, RoomsExist, TypeOK, Job
    <3>1. PICK t \in Timers :
            /\ job[t].at = "rest" /\ t # x
            /\ job'[t] = Armed("empty", g, NoUser) /\ job'[x] = AtRest
            /\ emptyTimer' = [emptyTimer EXCEPT ![g] = t]
            /\ \A y \in Threads \ {x, t} :
                 \/ job'[y] = job[y]
                 \/ job'[y] = AtRest /\ y = emptyTimer[g] /\ y \in Timers
      BY <1>t, <2>4, <3>0, EmptyTimerJobs
    <3>2. UNCHANGED <<created, viewers, reconnecting, hostTimer, partTimer, lastHost, sock>>
      BY <2>4 DEF StartEmptyRoomTimer
    <3>4. TimersOwned'
      <4>1. \A v \in Timers : job[v].at \in {"armed", "fired"} => job'[v] = job[v] \/ v = emptyTimer[g]
        BY <3>0, <3>1 DEF Threads
      <4>2. \A h \in Rooms : emptyTimer'[h] = IF h = g THEN t ELSE emptyTimer[h]
        BY <1>t, <3>1 DEF TypeOK
      <4> HIDE DEF g
      <4> SUFFICES ASSUME NEW h \in Rooms
                   PROVE  /\ Owns(hostTimer[h], "host", h, NoUser)'
                          /\ Owns(emptyTimer[h], "empty", h, NoUser)'
                          /\ \A w \in Users : Owns(partTimer[h][w], "participant", h, w)'
        BY DEF TimersOwned
      <4>3. Owns(hostTimer[h], "host", h, NoUser)'
        BY <3>0, <3>2, <4>1 DEF Shape, TimersOwned, Owns
      <4>4. Owns(emptyTimer[h], "empty", h, NoUser)'
        BY <3>0, <3>1, <4>1, <4>2 DEF Shape, TimersOwned, Owns, Armed
      <4>5. \A w \in Users : Owns(partTimer[h][w], "participant", h, w)'
        BY <3>0, <3>2, <4>1 DEF Shape, TimersOwned, Owns
      <4> QED BY <4>3, <4>4, <4>5
    <3>5. HandlersHaveSockets'
      <4>1. \A c \in Clients : job'[c] = job[c] \/ job'[c] = AtRest
        BY <3>1 DEF Threads
      <4> QED BY <3>2, <4>1 DEF Shape, HandlersHaveSockets, AtRest
    <3>6. RoomsExist'
      BY <1>a, <3>0, <3>1, <3>2 DEF Shape, RoomsExist, Armed, AtRest, NoRoom, Rooms
    <3>7. ViewersNamed' /\ GraceFlag'
      BY <3>2 DEF Shape, ViewersNamed, GraceFlag
    <3> QED BY <1>t, <3>4, <3>5, <3>6, <3>7 DEF Shape
  <2> QED BY <1>14, <2>1, <2>2, <2>3, <2>4 DEF Removal
<1>15. ASSUME NEW t \in Timers, Timer(t) PROVE Shape'
  <2> DEFINE g == job[t].on  u == job[t].user
  <2>0. t \in Threads /\ t \notin Clients
    BY DEF Threads
  <2>a. \A s \in Steps : /\ [job[t] EXCEPT !.at = s].at = s
                         /\ [job[t] EXCEPT !.at = s].kind = job[t].kind
                         /\ [job[t] EXCEPT !.at = s].on = job[t].on
                         /\ [job[t] EXCEPT !.at = s].user = job[t].user
    BY <1>a, <2>0, AtTypes
  <2>b. \A s \in Steps : job' = [job EXCEPT ![t].at = s] =>
          /\ job'[t].at = s /\ job'[t].kind = job[t].kind
          /\ job'[t].on = job[t].on /\ job'[t].user = job[t].user
          /\ \A y \in Threads \ {t} : job'[y] = job[y]
    BY <1>a, <2>0, <2>a
  <2>c. job[t].at \in {"armed", "fired", "close"} => g \in Rooms
    BY <1>a, <1>t, <2>0 DEF Shape, RoomsExist, TypeOK, Job
  <2>1. CASE Fire(t)
    <3>1. /\ job[t].at = "armed" /\ job' = [job EXCEPT ![t].at = "fired"]
          /\ UNCHANGED <<active, created, roomVars, sock, hasPC>>
      BY <2>1 DEF Fire
    <3>2. /\ job'[t].at = "fired" /\ job'[t].kind = job[t].kind
          /\ job'[t].on = g /\ job'[t].user = u
          /\ \A y \in Threads \ {t} : job'[y] = job[y]
      BY <2>b, <3>1 DEF Steps
    <3>3. TimersOwned'
      BY <2>0, <3>1, <3>2 DEF Shape, TimersOwned, Owns, roomVars, Threads
    <3>4. HandlersHaveSockets'
      BY <2>0, <3>1, <3>2 DEF Shape, HandlersHaveSockets, Threads
    <3>5. RoomsExist'
      BY <1>a, <2>c, <3>1, <3>2 DEF Shape, RoomsExist, roomVars, Rooms, NoRoom
    <3>6. ViewersNamed' /\ GraceFlag'
      BY <3>1 DEF Shape, ViewersNamed, GraceFlag, roomVars
    <3> QED BY <1>t, <3>3, <3>4, <3>5, <3>6 DEF Shape
  <2>2. CASE HostGraceOver(t) \/ ParticipantGraceOver(t) \/ EmptyRoomOver(t)
    <3>1. /\ job[t].at = "fired"
          /\ \/ job' = [job EXCEPT ![t].at = "close"] /\ job[t].kind # "participant"
             \/ job' = [job EXCEPT ![t].at = "evict"] /\ job[t].kind = "participant"
          /\ UNCHANGED <<created, viewers, lastHost, sock>>
      BY <2>2 DEF HostGraceOver, ParticipantGraceOver, EmptyRoomOver
    <3>2. /\ job'[t].at \in {"close", "evict"} /\ job'[t].on = g
          /\ \A y \in Threads \ {t} : job'[y] = job[y]
      BY <2>b, <3>1 DEF Steps
    <3>3. \A h \in Rooms :
            /\ hostTimer'[h] = IF h = g /\ job[t].kind = "host" THEN NoTimer ELSE hostTimer[h]
            /\ emptyTimer'[h] = IF h = g /\ job[t].kind = "empty" THEN NoTimer ELSE emptyTimer[h]
            /\ reconnecting'[h] = IF h = g /\ job[t].kind = "host" THEN FALSE ELSE reconnecting[h]
      <4>1. CASE HostGraceOver(t)
        BY <1>t, <4>1 DEF HostGraceOver, TypeOK
      <4>2. CASE ParticipantGraceOver(t)
        BY <1>t, <4>2 DEF ParticipantGraceOver, TypeOK
      <4>3. CASE EmptyRoomOver(t)
        BY <1>t, <4>3 DEF EmptyRoomOver, TypeOK
      <4> QED BY <2>2, <4>1, <4>2, <4>3
    <3>4. \A h \in Rooms, w \in Users :
            partTimer'[h][w] = IF h = g /\ w = u /\ job[t].kind = "participant"
                               THEN NoTimer ELSE partTimer[h][w]
      <4>1. CASE HostGraceOver(t) \/ EmptyRoomOver(t)
        BY <4>1 DEF HostGraceOver, EmptyRoomOver
      <4>2. CASE ParticipantGraceOver(t)
        BY <1>t, <4>2 DEF ParticipantGraceOver, TypeOK
      <4> QED BY <2>2, <4>1, <4>2
    <3>5. TimersOwned'
      <4> SUFFICES ASSUME NEW h \in Rooms
                   PROVE  /\ Owns(hostTimer[h], "host", h, NoUser)'
                          /\ Owns(emptyTimer[h], "empty", h, NoUser)'
                          /\ \A w \in Users : Owns(partTimer[h][w], "participant", h, w)'
        BY DEF TimersOwned
      <4>1. \A v \in Timers : v # t => job'[v] = job[v]
        BY <3>2 DEF Threads
      <4>2. Owns(hostTimer[h], "host", h, NoUser)'
        <5>1. /\ hostTimer'[h] \in {hostTimer[h], NoTimer}
              /\ h = g /\ job[t].kind = "host" => hostTimer'[h] = NoTimer
          BY <3>3
        <5> QED BY <4>1, <5>1 DEF Shape, TimersOwned, Owns
      <4>3. Owns(emptyTimer[h], "empty", h, NoUser)'
        <5>1. /\ emptyTimer'[h] \in {emptyTimer[h], NoTimer}
              /\ h = g /\ job[t].kind = "empty" => emptyTimer'[h] = NoTimer
          BY <3>3
        <5> QED BY <4>1, <5>1 DEF Shape, TimersOwned, Owns
      <4>4. \A w \in Users : Owns(partTimer[h][w], "participant", h, w)'
        BY <3>4, <4>1 DEF Shape, TimersOwned, Owns
      <4> QED BY <4>2, <4>3, <4>4
    <3>6. HandlersHaveSockets'
      BY <2>0, <3>1, <3>2 DEF Shape, HandlersHaveSockets, Threads
    <3>7. RoomsExist'
      BY <1>a, <2>c, <3>1, <3>2 DEF Shape, RoomsExist, Rooms, NoRoom
    <3>8. GraceFlag'
      BY <3>3 DEF Shape, GraceFlag
    <3>9. ViewersNamed'
      BY <3>1 DEF Shape, ViewersNamed
    <3> QED BY <1>t, <3>5, <3>6, <3>7, <3>8, <3>9 DEF Shape
  <2>3. CASE TimeoutClosesRoom(t)
    <3> DEFINE jobs == [job EXCEPT ![t] = AtRest]
    <3>1. job[t].at = "close" /\ CloseRoom(jobs)
      BY <2>3 DEF TimeoutClosesRoom
    <3>2. /\ jobs \in [Threads -> Job]
          /\ \A x \in Threads : \/ jobs[x] = job[x]
                                \/ jobs[x] = AtRest /\ job[x].at = "close"
      BY <1>a, <2>0, <3>1, JobTypes
    <3> HIDE DEF jobs
    <3> QED BY <3>1, <3>2, CloseRoomShape
  <2> QED BY <1>15, <2>1, <2>2, <2>3 DEF Timer
<1>16. CASE UNCHANGED vars
  BY <1>t, <1>16 DEF vars, roomVars, Shape, TimersOwned, Owns,
     HandlersHaveSockets, RoomsExist, ViewersNamed, GraceFlag
<1>17. ASSUME NEW c \in Clients, CloseSend(c) PROVE Shape'
  <2>1. /\ \A d \in Clients : sock[d] \in {"open", "closed"} => sock'[d] \in {"open", "closed"}
        /\ UNCHANGED <<created, roomVars, job>>
    BY <1>17, <1>t DEF CloseSend, TypeOK
  <2>2. HandlersHaveSockets'
    BY <2>1 DEF Shape, HandlersHaveSockets
  <2> QED
    BY <1>t, <2>1, <2>2 DEF Shape, TimersOwned, Owns, RoomsExist, ViewersNamed, GraceFlag, roomVars
<1>18. ASSUME NEW c \in Clients, KickPanics(c) PROVE Shape'
  <2>1. /\ job[c].at = "shut" /\ UNCHANGED <<active, created, roomVars>>
        /\ job' = [job EXCEPT ![c] = [@ EXCEPT !.at = "panicked"]]
        /\ \A d \in Clients : sock[d] \in {"open", "closed"} => sock'[d] \in {"open", "closed"}
    BY <1>18, <1>t DEF KickPanics, TypeOK
  <2>2. /\ c \in Threads /\ job'[c].at = "panicked" /\ job'[c].on = job[c].on
        /\ \A y \in Threads \ {c} : job'[y] = job[y]
    BY <1>a, <2>1, AtTypes DEF Threads, Steps
  <2>3. job[c].on # NoRoom /\ job[c].on <= created
    BY <2>1, <1>a DEF Shape, RoomsExist, Threads
  <2> QED
    BY <1>t, <2>1, <2>2, <2>3, QuietShape DEF roomVars
<1> QED
  BY <1>1, <1>2, <1>3, <1>4, <1>5, <1>6, <1>7, <1>8, <1>9, <1>10, <1>11, <1>12,
     <1>13, <1>14, <1>15, <1>16, <1>17, <1>18 DEF Next, Handler

\* The initial state has the shape.
LEMMA InitShape == Init => Shape
<1> SUFFICES ASSUME Init PROVE Shape
  OBVIOUS
<1> USE ConstantsOK DEF ConstantsOK
<1>1. TypeOK
  BY JobTypes DEF Init, TypeOK, Rooms, NoRoom
<1>2. TimersOwned
  BY DEF Init, TimersOwned, Owns
<1>3. HandlersHaveSockets
  BY DEF Init, HandlersHaveSockets, AtRest, Threads
<1>4. RoomsExist
  BY DEF Init, RoomsExist, AtRest, NoRoom, Rooms
<1>5. ViewersNamed /\ GraceFlag
  BY DEF Init, ViewersNamed, GraceFlag
<1> QED BY <1>1, <1>2, <1>3, <1>4, <1>5 DEF Shape

\* The reconnecting flag of a room is up exactly while the room has a grace
\* timer, and that timer has still to run its time-out.
THEOREM GraceFlagCorrect == Spec => []GraceFlagMatchesTimer
<1>1. Shape => GraceFlagMatchesTimer
  BY ConstantsOK DEF ConstantsOK, Shape, TypeOK, GraceFlag, TimersOwned, Owns,
     GraceFlagMatchesTimer, Pending
<1> QED BY InitShape, ShapeStep, <1>1, PTL DEF Spec

-----------------------------------------------------------------------------
(* A lost host.                                                             *)

\* A goroutine that will close room g, or attach a host to it.
EndsWait(x, g) ==
  /\ job[x].on = g
  /\ \/ x \in Timers /\ \/ job[x].at = "close"
                        \/ /\ job[x].kind = "host" /\ job[x].user = NoUser
                           /\ job[x].at \in {"armed", "fired"}
     \/ x \in Clients /\ job[x].at = "setHost"

\* LostHostIsTimed says that a room without its host has such a goroutine.
LEMMA EndsWaitIff ==
  LostHostIsTimed <=> \A g \in Rooms : LostHost(g) => \E x \in Threads : EndsWait(x, g)
BY DEF LostHostIsTimed, Pending, EndsWait, Threads

\* A lost host's room stays lost only with a goroutine that ends the wait.
LEMMA LostHostStep ==
  Shape /\ LostHostIsTimed /\ [Next]_vars => LostHostIsTimed'
<1> USE ConstantsOK DEF ConstantsOK
<1> SUFFICES ASSUME Shape, LostHostIsTimed, [Next]_vars PROVE LostHostIsTimed'
  OBVIOUS
<1> SUFFICES ASSUME NEW g \in Rooms, LostHost(g)'
             PROVE  \E x \in Threads : EndsWait(x, g)'
  BY DEF LostHostIsTimed, Pending, EndsWait, Threads
<1>t. TypeOK /\ TypeOK' /\ g # NoRoom
  BY TypeStep DEF Shape, Rooms, NoRoom
<1>a. job \in [Threads -> Job] /\ active' = g /\ lastHost'[g] # NoClient /\ hostClient'[g] = NoClient
  BY <1>t DEF TypeOK, LostHost
<1>b. LostHost(g) => \E x \in Threads : EndsWait(x, g)
  BY EndsWaitIff
<1>c. LostHost(g) /\ (\A x \in Threads : EndsWait(x, g) => job'[x] = job[x])
        => \E x \in Threads : EndsWait(x, g)'
  BY <1>b DEF EndsWait
<1>d. \A x \in Threads : EndsWait(x, g) =>
        /\ job[x].at \in {"armed", "fired", "close", "setHost"}
        /\ x \in Clients => job[x].at = "setHost"
        /\ x \in Timers => \A h \in Rooms :
             /\ x # emptyTimer[h] /\ \A u \in Users : x # partTimer[h][u]
             /\ x = hostTimer[h] => h = g
  BY DEF EndsWait, Shape, TimersOwned, Owns
<1>e. ASSUME NEW host, CreateRoom(host) PROVE FALSE
  <2>1. created' = created + 1 /\ active' = created + 1 /\ lastHost' = lastHost /\ created \in Nat
    BY <1>e, <1>t DEF CreateRoom, TypeOK
  <2> QED BY <2>1, <1>a DEF Shape, RoomsExist
<1>f. UNCHANGED <<active, hostClient, lastHost>> => LostHost(g)
  BY <1>a DEF LostHost
<1>1. ASSUME NEW u \in HttpHosts, HttpCreateRoom(u) PROVE \E x \in Threads : EndsWait(x, g)'
  BY <1>1, <1>e DEF HttpCreateRoom
<1>2. ASSUME NEW jobs, CloseRoom(jobs) PROVE FALSE
  BY <1>2, <1>a, <1>t DEF CloseRoom
<1>3. ASSUME NEW c \in Clients, Connect(c) \/ Drop(c) PROVE \E x \in Threads : EndsWait(x, g)'
  BY <1>3, <1>c, <1>f DEF Connect, Drop, roomVars
<1>4. ASSUME NEW c \in Clients, Publish(c) PROVE \E x \in Threads : EndsWait(x, g)'
  <2>1. /\ job[c].at = "rest" /\ UNCHANGED <<active, created, roomVars>>
        /\ \A x \in Threads \ {c} : job'[x] = job[x]
    BY <1>4, <1>e, <1>a DEF Publish, Ready
  <2> QED BY <2>1, <1>c, <1>d, <1>f DEF roomVars
<1>5. ASSUME NEW c \in Clients, JoinCreate(c) PROVE \E x \in Threads : EndsWait(x, g)'
  BY <1>5, <1>e DEF JoinCreate
<1>6. ASSUME NEW c \in Clients, JoinViewer(c) PROVE \E x \in Threads : EndsWait(x, g)'
  <2>1. job[c].at \in {"rest", "lookup"} /\ LostHost(g) /\ active # NoRoom /\ active \in Rooms
    BY <1>6, <1>t, <1>a, <1>f DEF JoinViewer, Ready
  <2>2. \A x \in Threads \ {c} : \/ job'[x] = job[x]
                                 \/ /\ x \in {emptyTimer[active], partTimer[active][UserOf[c]]}
                                    /\ x \in Timers
    BY <1>6, <1>t, <2>1, JoinViewerJobs
  <2> QED BY <2>1, <2>2, <1>c, <1>d
<1>7. ASSUME NEW c \in Clients, HandleClientDisconnect(c) PROVE \E x \in Threads : EndsWait(x, g)'
  <2>0. UNCHANGED <<active, created>> /\ active = g
    BY <1>7, <1>a DEF HandleClientDisconnect
  <2>1. CASE IsHost(UserOf[c]) /\ StartReconnectTimer(active)
    <3>1. PICK t \in Timers : job'[t] = Armed("host", g, NoUser)
      BY <1>t, <2>0, <2>1, ReconnectTimerJobs
    <3>2. EndsWait(t, g)'
      BY <3>1 DEF EndsWait, Armed
    <3> QED BY <3>2 DEF Threads
  <2>2. CASE IsViewer(UserOf[c]) /\ StartParticipantReconnectTimer(active, UserOf[c])
                /\ UNCHANGED <<hostID, hostClient, viewers, reconnecting, hostTimer, emptyTimer, lastHost>>
    <3>1. PICK t \in Timers :
            /\ job[t].at = "rest"
            /\ \A x \in Threads \ {t} :
                 job'[x] = job[x] \/ (x = partTimer[g][UserOf[c]] /\ x \in Timers)
      BY <1>t, <2>0, <2>2, ParticipantTimerJobs
    <3> QED BY <3>1, <2>0, <2>2, <1>c, <1>d, <1>f
  <2>3. CASE UNCHANGED <<roomVars, job>>
    BY <2>0, <2>3, <1>c, <1>f DEF roomVars
  <2> QED BY <1>7, <2>1, <2>2, <2>3 DEF HandleClientDisconnect
<1>8. ASSUME NEW c \in Clients, PublishAsCoHost(c) PROVE \E x \in Threads : EndsWait(x, g)'
  <2>1. /\ job[c].at = "publish" /\ UNCHANGED <<active, created, roomVars>>
        /\ \A x \in Threads \ {c} : job'[x] = job[x]
    BY <1>8, <1>a DEF PublishAsCoHost
  <2> QED BY <2>1, <1>c, <1>d, <1>f DEF roomVars
<1>9. ASSUME NEW c \in Clients, PublishAsHost(c) PROVE \E x \in Threads : EndsWait(x, g)'
  <2>1. /\ job'[c].at = "setHost" /\ job'[c].on = job[c].on /\ job[c].at = "publish"
        /\ \A x \in Threads \ {c} :
             job'[x] = job[x] \/ (x = hostTimer[job[c].on] /\ x \in Timers)
        /\ UNCHANGED <<active, hostClient, lastHost>>
    BY <1>t, <1>9, PublishAsHostJobs DEF PublishAsHost
  <2>2. CASE job[c].on = g
    BY <2>1, <2>2 DEF EndsWait, Threads
  <2>3. CASE job[c].on # g
    <3>1. job[c].on \in Rooms
      BY <1>t, <2>1 DEF Shape, RoomsExist, TypeOK, Threads, Job
    <3> QED BY <2>1, <2>3, <3>1, <1>c, <1>d, <1>f
  <2> QED BY <2>2, <2>3
<1>10. ASSUME NEW c \in Clients, SetHostClient(c) PROVE \E x \in Threads : EndsWait(x, g)'
  <2>1. /\ hostClient' = [hostClient EXCEPT ![job[c].on] = c]
        /\ lastHost' = [lastHost EXCEPT ![job[c].on] = c]
        /\ active' = active /\ \A x \in Threads \ {c} : job'[x] = job[x]
    BY <1>10, <1>a DEF SetHostClient
  <2>2. job[c].on # g /\ LostHost(g)
    BY <2>1, <1>a, <1>t DEF TypeOK, LostHost
  <2> QED BY <2>1, <2>2, <1>c DEF EndsWait
<1>11. ASSUME NEW c \in Clients, AddViewer(c) PROVE \E x \in Threads : EndsWait(x, g)'
  <2>1. /\ job[c].at = "add" /\ UNCHANGED <<active, hostClient, lastHost>>
        /\ \A x \in Threads \ {c} : job'[x] = job[x]
    BY <1>11, <1>a DEF AddViewer
  <2> QED BY <2>1, <1>c, <1>d, <1>f
<1>12. ASSUME NEW c \in Clients, ShutKicked(c) PROVE \E x \in Threads : EndsWait(x, g)'
  <2>1. /\ job[c].at = "shut" /\ UNCHANGED <<active, hostClient, lastHost>>
        /\ \A x \in Threads \ {c} : job'[x] = job[x]
    BY <1>12, <1>a DEF ShutKicked, roomVars
  <2> QED BY <2>1, <1>c, <1>d, <1>f
<1>13. ASSUME NEW k \in Clients, NEW u \in Users, Kick(k, u) PROVE \E x \in Threads : EndsWait(x, g)'
  <2>1. /\ job[k].at = "rest" /\ UNCHANGED <<active, hostClient, lastHost>>
        /\ active = g
    BY <1>13, <1>a DEF Kick, Ready
  <2>2. \A x \in Threads \ {k} :
          job'[x] = job[x] \/ (x = partTimer[g][u] /\ x \in Timers)
    BY <1>13, <1>t, <2>1, KickJobs
  <2> QED BY <2>1, <2>2, <1>c, <1>d, <1>f
<1>14. ASSUME NEW x \in Threads, Removal(x) PROVE \E y \in Threads : EndsWait(y, g)'
  <2>1. CASE RemoveLookup(x) \/ RemoveViewer(x) \/ CountViewers(x) \/ AskHost(x)
    <3>1. /\ job[x].at \in {"evict", "remove", "count", "askHost"}
          /\ UNCHANGED <<active, hostClient, lastHost>>
          /\ \A y \in Threads \ {x} : job'[y] = job[y]
      BY <2>1, <1>a DEF RemoveLookup, RemoveViewer, CountViewers, AskHost, roomVars
    <3> QED BY <3>1, <1>c, <1>d, <1>f
  <2>2. CASE StartEmptyRoomTimer(x)
    <3>1. job[x].at = "start" /\ UNCHANGED <<active, hostClient, lastHost>>
      BY <2>2 DEF StartEmptyRoomTimer
    <3>2. job[x].on \in Rooms
      BY <1>t, <3>1 DEF Shape, RoomsExist, TypeOK, Job
    <3>3. PICK t \in Timers :
            /\ job[t].at = "rest"
            /\ \A y \in Threads \ {x, t} :
                 job'[y] = job[y] \/ (y = emptyTimer[job[x].on] /\ y \in Timers)
      BY <1>t, <2>2, <3>2, EmptyTimerJobs
    <3> QED BY <3>1, <3>2, <3>3, <1>c, <1>d, <1>f
  <2> QED BY <1>14, <2>1, <2>2 DEF Removal
<1>15. ASSUME NEW t \in Timers, Timer(t) PROVE \E x \in Threads : EndsWait(x, g)'
  <2>0. t \in Threads
    BY DEF Threads
  <2>b. \A s \in Steps : job' = [job EXCEPT ![t].at = s] =>
          /\ job'[t].at = s /\ job'[t].kind = job[t].kind
          /\ job'[t].on = job[t].on /\ job'[t].user = job[t].user
          /\ \A y \in Threads \ {t} : job'[y] = job[y]
    <3>1. \A s \in Steps : /\ [job[t] EXCEPT !.at = s].at = s
                           /\ [job[t] EXCEPT !.at = s].kind = job[t].kind
                           /\ [job[t] EXCEPT !.at = s].on = job[t].on
                           /\ [job[t] EXCEPT !.at = s].user = job[t].user
      BY <1>a, <2>0, AtTypes
    <3> QED BY <1>a, <2>0, <3>1
  <2>1. CASE Fire(t) \/ HostGraceOver(t)
    <3>1. /\ UNCHANGED <<active, hostClient, lastHost>>
          /\ \/ job[t].at = "armed" /\ job' = [job EXCEPT ![t].at = "fired"]
             \/ job[t].at = "fired" /\ job' = [job EXCEPT ![t].at = "close"]
      BY <2>1 DEF Fire, HostGraceOver, roomVars
    <3>2. PICK w \in Threads : EndsWait(w, g)
      BY <3>1, <1>b, <1>f
    <3>3. CASE w # t
      BY <3>1, <3>2, <3>3, <2>b DEF EndsWait, Steps
    <3>4. CASE w = t
      BY <3>1, <3>2, <3>4, <2>b DEF EndsWait, Steps
    <3> QED BY <3>3, <3>4
  <2>2. CASE ParticipantGraceOver(t) \/ EmptyRoomOver(t)
    <3>1. /\ UNCHANGED <<active, hostClient, lastHost>>
          /\ job[t].at = "fired" /\ job[t].kind \in {"participant", "empty"}
          /\ \A x \in Threads \ {t} : job'[x] = job[x]
      BY <2>2, <2>b DEF ParticipantGraceOver, EmptyRoomOver, Steps
    <3>2. ~EndsWait(t, g)
      BY <3>1 DEF EndsWait
    <3> QED BY <3>1, <3>2, <1>c, <1>f
  <2>3. CASE TimeoutClosesRoom(t)
    BY <2>3, <1>2 DEF TimeoutClosesRoom
  <2> QED BY <1>15, <2>1, <2>2, <2>3 DEF Timer
<1>16. CASE UNCHANGED vars
  BY <1>16, <1>c, <1>f DEF vars, roomVars
<1>17. CASE ForceEndRoom
  BY <1>17, <1>2 DEF ForceEndRoom
<1>18. ASSUME NEW c \in Clients, CloseSend(c) PROVE \E x \in Threads : EndsWait(x, g)'
  BY <1>18, <1>c, <1>f DEF CloseSend, roomVars
<1>19. ASSUME NEW c \in Clients, KickPanics(c) PROVE \E x \in Threads : EndsWait(x, g)'
  <2>1. /\ job[c].at = "shut" /\ UNCHANGED <<active, hostClient, lastHost>>
        /\ \A x \in Threads \ {c} : job'[x] = job[x]
    BY <1>19, <1>a DEF KickPanics, roomVars
  <2> QED BY <2>1, <1>c, <1>d, <1>f
<1> QED
  BY <1>1, <1>3, <1>4, <1>5, <1>6, <1>7, <1>8, <1>9, <1>10, <1>11, <1>12,
     <1>13, <1>14, <1>15, <1>16, <1>17, <1>18, <1>19 DEF Next, Handler

\* As long as a room that had a host is without one, its closing is pending
\* or a host is being attached.
THEOREM LostHostCorrect == Spec => []LostHostIsTimed
<1>1. Init => LostHostIsTimed
  BY ConstantsOK DEF ConstantsOK, Init, LostHostIsTimed, LostHost
<1> QED BY <1>1, InitShape, ShapeStep, LostHostStep, PTL DEF Spec

-----------------------------------------------------------------------------
(* A lost viewer.                                                           *)

\* A goroutine that will take user u out of room g, or put a new socket in.
EndsAbsence(x, g, u) ==
  \/ Leaving(x, g, u)
  \/ /\ x \in Timers /\ job[x].kind = "participant" /\ job[x].on = g
     /\ job[x].user = u /\ job[x].at \in {"armed", "fired"}

\* LostViewerIsTimed in terms of the goroutine that ends the absence.
LEMMA EndsAbsenceIff ==
  LostViewerIsTimed <=>
    \A g \in Rooms, u \in Users :
      LostViewer(g, u) => \E x \in Threads : EndsAbsence(x, g, u)
BY DEF LostViewerIsTimed, Pending, EndsAbsence, Threads

\* A viewer whose socket is gone stays registered only with a goroutine that
\* ends its absence.
LEMMA LostViewerStep ==
  Shape /\ LostViewerIsTimed /\ [Next]_vars => LostViewerIsTimed'
<1> USE ConstantsOK DEF ConstantsOK
<1> SUFFICES ASSUME Shape, LostViewerIsTimed, [Next]_vars PROVE LostViewerIsTimed'
  OBVIOUS
<1> SUFFICES ASSUME NEW g \in Rooms, NEW u \in Users, LostViewer(g, u)'
             PROVE  \E x \in Threads : EndsAbsence(x, g, u)'
  BY DEF LostViewerIsTimed, Pending, EndsAbsence, Threads
<1>t. TypeOK /\ TypeOK' /\ g # NoRoom
  BY TypeStep DEF Shape, Rooms, NoRoom
<1>a. /\ job \in [Threads -> Job] /\ active' = g /\ u # hostID'[g]
      /\ viewers'[g][u] # NoClient /\ sock'[viewers'[g][u]] \in {"gone", "done"}
  BY <1>t DEF TypeOK, LostViewer
<1>b. LostViewer(g, u) => \E x \in Threads : EndsAbsence(x, g, u)
  BY EndsAbsenceIff
<1>c. LostViewer(g, u) /\ (\A x \in Threads : EndsAbsence(x, g, u) => job'[x] = job[x])
        => \E x \in Threads : EndsAbsence(x, g, u)'
  BY <1>b DEF EndsAbsence, Leaving
<1>d. \A x \in Threads : EndsAbsence(x, g, u) =>
        /\ job[x].at \in {"armed", "fired", "evict", "shut", "remove", "add", "panicked"}
        /\ x \in Timers => \A h \in Rooms :
             /\ x # emptyTimer[h] /\ x # hostTimer[h]
             /\ \A w \in Users : x = partTimer[h][w] => h = g /\ w = u
  BY DEF EndsAbsence, Leaving, Shape, TimersOwned, Owns
<1>e. ASSUME NEW host, CreateRoom(host) PROVE FALSE
  <2>1. created' = created + 1 /\ active' = created + 1 /\ viewers' = viewers /\ created \in Nat
    BY <1>e, <1>t DEF CreateRoom, TypeOK
  <2> QED BY <2>1, <1>a DEF Shape, RoomsExist
<1>f. UNCHANGED <<active, hostID, viewers>> /\ (\A c \in Clients : sock'[c] \in {"gone", "done"} => sock[c] \in {"gone", "done"})
        => LostViewer(g, u)
  BY <1>a, <1>t DEF LostViewer, TypeOK
<1>1. ASSUME NEW w \in HttpHosts, HttpCreateRoom(w) PROVE \E x \in Threads : EndsAbsence(x, g, u)'
  BY <1>1, <1>e DEF HttpCreateRoom
<1>2. ASSUME NEW jobs, CloseRoom(jobs) PROVE FALSE
  BY <1>2, <1>a, <1>t DEF CloseRoom
<1>3. ASSUME NEW c \in Clients, Connect(c) \/ Drop(c) PROVE \E x \in Threads : EndsAbsence(x, g, u)'
  <2>1. /\ UNCHANGED <<active, hostID, viewers, job>>
        /\ \A d \in Clients : sock'[d] \in {"gone", "done"} => sock[d] \in {"gone", "done"}
    BY <1>3, <1>t DEF Connect, Drop, roomVars, TypeOK
  <2> QED BY <2>1, <1>c, <1>f
<1>4. ASSUME NEW c \in Clients, Publish(c) PROVE \E x \in Threads : EndsAbsence(x, g, u)'
  <2>1. /\ job[c].at = "rest" /\ UNCHANGED <<active, hostID, viewers, sock>>
        /\ \A x \in Threads \ {c} : job'[x] = job[x]
    BY <1>4, <1>e, <1>a DEF Publish, Ready, roomVars
  <2> QED BY <2>1, <1>c, <1>d, <1>f
<1>5. ASSUME NEW c \in Clients, JoinCreate(c) PROVE \E x \in Threads : EndsAbsence(x, g, u)'
  BY <1>5, <1>e DEF JoinCreate
<1>6. ASSUME NEW c \in Clients, JoinViewer(c) PROVE \E x \in Threads : EndsAbsence(x, g, u)'
  <2>1. /\ job[c].at \in {"rest", "lookup"} /\ active = g
        /\ UNCHANGED <<active, hostID, viewers, sock>>
    BY <1>6, <1>a DEF JoinViewer, Ready
  <2>2. /\ job'[c] = Doing("add", g, UserOf[c])
        /\ \A x \in Threads \ {c} :
             \/ job'[x] = job[x]
             \/ /\ x \in {emptyTimer[g], partTimer[g][UserOf[c]]}
                /\ x \in Timers
    BY <1>6, <1>t, <2>1, JoinViewerJobs
  <2>3. CASE UserOf[c] = u
    BY <2>2, <2>3 DEF EndsAbsence, Leaving, Doing, Threads
  <2>4. CASE UserOf[c] # u
    BY <2>1, <2>2, <2>4, <1>c, <1>d, <1>f
  <2> QED BY <2>3, <2>4
<1>7. ASSUME NEW c \in Clients, HandleClientDisconnect(c) PROVE \E x \in Threads : EndsAbsence(x, g, u)'
  <2>0. /\ active' = active /\ active = g
        /\ \A d \in Clients : d # c => sock'[d] = sock[d]
    BY <1>7, <1>a, <1>t DEF HandleClientDisconnect, TypeOK
  <2>1. UNCHANGED <<hostID, viewers>> /\ viewers[g][u] # c => LostViewer(g, u)
    BY <2>0, <1>a, <1>t DEF LostViewer, TypeOK
  <2>2. viewers[g][u] = c => UserOf[c] = u
    BY <1>t DEF Shape, ViewersNamed, TypeOK
  <2>3. CASE IsHost(UserOf[c]) /\ StartReconnectTimer(active)
                /\ UNCHANGED <<hostID, viewers, partTimer, emptyTimer, lastHost>>
    <3>1. PICK t \in Timers :
            /\ job[t].at = "rest"
            /\ \A x \in Threads \ {t} :
                 job'[x] = job[x] \/ (x = hostTimer[g] /\ x \in Timers)
      BY <1>t, <2>0, <2>3, ReconnectTimerJobs
    <3>2. LostViewer(g, u)
      BY <2>0, <2>1, <2>2, <2>3, <1>a DEF IsHost
    <3> QED BY <3>1, <3>2, <1>c, <1>d
  <2>4. CASE IsViewer(UserOf[c]) /\ StartParticipantReconnectTimer(active, UserOf[c])
                /\ UNCHANGED <<hostID, hostClient, viewers, reconnecting, hostTimer, emptyTimer, lastHost>>
    <3>1. PICK t \in Timers :
            /\ job[t].at = "rest" /\ job'[t] = Armed("participant", g, UserOf[c])
            /\ \A x \in Threads \ {t} :
                 job'[x] = job[x] \/ (x = partTimer[g][UserOf[c]] /\ x \in Timers)
      BY <1>t, <2>0, <2>4, ParticipantTimerJobs
    <3>2. CASE UserOf[c] = u
      BY <3>1, <3>2 DEF EndsAbsence, Armed, Threads
    <3>3. CASE UserOf[c] # u
      BY <3>1, <3>3, <2>1, <2>2, <2>4, <1>c, <1>d
    <3> QED BY <3>2, <3>3
  <2>5. CASE ~IsHost(UserOf[c]) /\ ~IsViewer(UserOf[c]) /\ UNCHANGED <<roomVars, job>>
    <3>1. viewers[g][u] # c
      BY <2>0, <2>2, <2>5, <1>a, <1>t DEF IsHost, IsViewer, roomVars
    <3> QED BY <3>1, <2>1, <2>5, <1>c DEF roomVars
  <2> QED BY <1>7, <2>3, <2>4, <2>5 DEF HandleClientDisconnect
<1>8. ASSUME NEW c \in Clients, PublishAsCoHost(c) PROVE \E x \in Threads : EndsAbsence(x, g, u)'
  <2>1. /\ job[c].at = "publish" /\ UNCHANGED <<active, hostID, viewers, sock>>
        /\ \A x \in Threads \ {c} : job'[x] = job[x]
    BY <1>8, <1>a DEF PublishAsCoHost, roomVars
  <2> QED BY <2>1, <1>c, <1>d, <1>f
<1>9. ASSUME NEW c \in Clients, PublishAsHost(c) PROVE \E x \in Threads : EndsAbsence(x, g, u)'
  <2>1. job[c].at = "publish" /\ UNCHANGED <<active, hostID, viewers, sock>>
    BY <1>9 DEF PublishAsHost
  <2>2. job[c].on \in Rooms
    BY <1>t, <2>1 DEF Shape, RoomsExist, TypeOK, Threads, Job
  <2>3. \A x \in Threads \ {c} :
          job'[x] = job[x] \/ (x = hostTimer[job[c].on] /\ x \in Timers)
    BY <1>t, <1>9, PublishAsHostJobs
  <2> QED BY <2>1, <2>2, <2>3, <1>c, <1>d, <1>f
<1>10. ASSUME NEW c \in Clients, SetHostClient(c) PROVE \E x \in Threads : EndsAbsence(x, g, u)'
  <2>1. /\ job[c].at = "setHost" /\ UNCHANGED <<active, hostID, viewers, sock>>
        /\ \A x \in Threads \ {c} : job'[x] = job[x]
    BY <1>10, <1>a DEF SetHostClient
  <2> QED BY <2>1, <1>c, <1>d, <1>f
<1>11. ASSUME NEW c \in Clients, AddViewer(c) PROVE \E x \in Threads : EndsAbsence(x, g, u)'
  <2> DEFINE h == job[c].on  w == job[c].user
  <2>1. /\ job[c].at = "add" /\ UNCHANGED <<active, hostID, sock>>
        /\ viewers' = [viewers EXCEPT ![h][w] = c]
        /\ \A x \in Threads \ {c} : job'[x] = job[x]
    BY <1>11, <1>a DEF AddViewer
  <2>2. sock'[c] \notin {"gone", "done"}
    BY <2>1 DEF Shape, HandlersHaveSockets
  <2>3. ~(h = g /\ w = u) /\ viewers'[g][u] = viewers[g][u]
    BY <2>1, <2>2, <1>a, <1>t DEF TypeOK
  <2>4. LostViewer(g, u)
    BY <2>1, <2>3, <1>a DEF LostViewer
  <2>5. ~EndsAbsence(c, g, u)
    BY <2>1, <2>3 DEF EndsAbsence, Leaving
  <2> QED BY <2>1, <2>4, <2>5, <1>c
<1>12. ASSUME NEW c \in Clients, ShutKicked(c) PROVE \E x \in Threads : EndsAbsence(x, g, u)'
  <2>1. /\ job[c].at = "shut" /\ UNCHANGED <<active, hostID, viewers>>
        /\ job' = [job EXCEPT ![c] = Doing("evict", NoRoom, job[c].user)]
        /\ \A d \in Clients : sock'[d] \in {"gone", "done"} => sock[d] \in {"gone", "done"}
    BY <1>12, <1>t DEF ShutKicked, roomVars, TypeOK
  <2>2. PICK y \in Threads : EndsAbsence(y, g, u)
    BY <2>1, <1>b, <1>f
  <2>3. CASE y # c
    BY <1>a, <2>1, <2>2, <2>3 DEF EndsAbsence, Leaving
  <2>4. CASE y = c
    <3>1. job[c].user = u /\ c \in Threads
      BY <2>2, <2>4 DEF EndsAbsence, Leaving
    <3>2. job'[c].at = "evict" /\ job'[c].user = u
      BY <1>a, <2>1, <3>1 DEF Doing
    <3> QED BY <3>1, <3>2 DEF EndsAbsence, Leaving
  <2> QED BY <2>3, <2>4
<1>13. ASSUME NEW k \in Clients, NEW w \in Users, Kick(k, w) PROVE \E x \in Threads : EndsAbsence(x, g, u)'
  <2>1. job[k].at = "rest" /\ UNCHANGED <<active, hostID, viewers, sock>> /\ active = g
    BY <1>13, <1>a DEF Kick, Ready
  <2>2. /\ job'[k] = Doing("shut", g, w)
        /\ \A x \in Threads \ {k} :
             job'[x] = job[x] \/ (x = partTimer[g][w] /\ x \in Timers)
    BY <1>13, <1>t, <2>1, KickJobs
  <2>3. CASE w = u
    BY <2>2, <2>3 DEF EndsAbsence, Leaving, Doing, Threads
  <2>4. CASE w # u
    BY <2>1, <2>2, <2>4, <1>c, <1>d, <1>f
  <2> QED BY <2>3, <2>4
<1>14. ASSUME NEW x \in Threads, Removal(x) PROVE \E y \in Threads : EndsAbsence(y, g, u)'
  <2>1. CASE RemoveLookup(x)
    <3>1. /\ job[x].at = "evict" /\ UNCHANGED <<active, hostID, viewers, sock>>
          /\ active = g
          /\ job'[x] = Doing("remove", g, job[x].user)
          /\ \A y \in Threads \ {x} : job'[y] = job[y]
      BY <2>1, <1>a, <1>t DEF RemoveLookup, roomVars
    <3>2. CASE job[x].user = u
      BY <3>1, <3>2 DEF EndsAbsence, Leaving, Doing
    <3>3. CASE job[x].user # u
      <4>1. ~EndsAbsence(x, g, u)
        BY <3>3 DEF EndsAbsence, Leaving
      <4> QED BY <3>1, <4>1, <1>c, <1>f
    <3> QED BY <3>2, <3>3
  <2>2. CASE RemoveViewer(x)
    <3> DEFINE h == job[x].on  w == job[x].user
    <3>1. /\ job[x].at = "remove" /\ UNCHANGED <<active, hostID, sock>>
          /\ viewers' = [viewers EXCEPT ![h][w] = NoClient]
          /\ \A y \in Threads \ {x} : job'[y] = job[y]
      BY <2>2, <1>a DEF RemoveViewer
    <3>2. ~(h = g /\ w = u) /\ viewers'[g][u] = viewers[g][u]
      BY <3>1, <1>a, <1>t DEF TypeOK
    <3>3. LostViewer(g, u)
      BY <3>1, <3>2, <1>a DEF LostViewer
    <3>4. ~EndsAbsence(x, g, u)
      BY <3>1, <3>2 DEF EndsAbsence, Leaving
    <3> QED BY <3>1, <3>3, <3>4, <1>c
  <2>3. CASE CountViewers(x) \/ AskHost(x)
    <3>1. /\ job[x].at \in {"count", "askHost"}
          /\ UNCHANGED <<active, hostID, viewers, sock>>
          /\ \A y \in Threads \ {x} : job'[y] = job[y]
      BY <2>3, <1>a DEF CountViewers, AskHost, roomVars
    <3> QED BY <3>1, <1>c, <1>d, <1>f
  <2>4. CASE StartEmptyRoomTimer(x)
    <3>1. job[x].at = "start" /\ UNCHANGED <<active, hostID, viewers, sock>>
      BY <2>4 DEF StartEmptyRoomTimer
    <3>2. job[x].on \in Rooms
      BY <1>t, <3>1 DEF Shape, RoomsExist, TypeOK, Job
    <3>3. PICK t \in Timers :
            /\ job[t].at = "rest"
            /\ \A y \in Threads \ {x, t} :
                 job'[y] = job[y] \/ (y = emptyTimer[job[x].on] /\ y \in Timers)
      BY <1>t, <2>4, <3>2, EmptyTimerJobs
    <3> QED BY <3>1, <3>2, <3>3, <1>c, <1>d, <1>f
  <2> QED BY <1>14, <2>1, <2>2, <2>3, <2>4 DEF Removal
<1>15. ASSUME NEW t \in Timers, Timer(t) PROVE \E x \in Threads : EndsAbsence(x, g, u)'
  <2>0. t \in Threads
    BY DEF Threads
  <2>b. \A s \in Steps : job' = [job EXCEPT ![t].at = s] =>
          /\ job'[t].at = s /\ job'[t].kind = job[t].kind
          /\ job'[t].on = job[t].on /\ job'[t].user = job[t].user
          /\ \A y \in Threads \ {t} : job'[y] = job[y]
    <3>1. \A s \in Steps : /\ [job[t] EXCEPT !.at = s].at = s
                           /\ [job[t] EXCEPT !.at = s].kind = job[t].kind
                           /\ [job[t] EXCEPT !.at = s].on = job[t].on
                           /\ [job[t] EXCEPT !.at = s].user = job[t].user
      BY <1>a, <2>0, AtTypes
    <3> QED BY <1>a, <2>0, <3>1
  <2>1. CASE Fire(t) \/ ParticipantGraceOver(t)
    <3>1. /\ UNCHANGED <<active, hostID, viewers, sock>>
          /\ \/ job[t].at = "armed" /\ job' = [job EXCEPT ![t].at = "fired"]
             \/ job[t].at = "fired" /\ job' = [job EXCEPT ![t].at = "evict"]
      BY <2>1 DEF Fire, ParticipantGraceOver, roomVars
    <3>2. PICK y \in Threads : EndsAbsence(y, g, u)
      BY <3>1, <1>b, <1>f
    <3>3. CASE y # t
      BY <3>1, <3>2, <3>3, <2>b DEF EndsAbsence, Leaving, Steps
    <3>4. CASE y = t
      BY <3>1, <3>2, <3>4, <2>b DEF EndsAbsence, Leaving, Steps
    <3> QED BY <3>3, <3>4
  <2>2. CASE HostGraceOver(t) \/ EmptyRoomOver(t)
    <3>1. /\ UNCHANGED <<active, hostID, viewers, sock>>
          /\ job[t].at = "fired" /\ job[t].kind \in {"host", "empty"}
          /\ \A x \in Threads \ {t} : job'[x] = job[x]
      BY <2>2, <2>b DEF HostGraceOver, EmptyRoomOver, Steps
    <3>2. ~EndsAbsence(t, g, u)
      BY <3>1 DEF EndsAbsence, Leaving
    <3> QED BY <3>1, <3>2, <1>c, <1>f
  <2>3. CASE TimeoutClosesRoom(t)
    BY <2>3, <1>2 DEF TimeoutClosesRoom
  <2> QED BY <1>15, <2>1, <2>2, <2>3 DEF Timer
<1>16. CASE UNCHANGED vars
  BY <1>16, <1>c, <1>f DEF vars, roomVars
<1>17. CASE ForceEndRoom
  BY <1>17, <1>2 DEF ForceEndRoom
<1>18. ASSUME NEW c \in Clients, CloseSend(c) PROVE \E x \in Threads : EndsAbsence(x, g, u)'
  <2>1. /\ UNCHANGED <<active, hostID, viewers, job>>
        /\ \A d \in Clients : sock'[d] \in {"gone", "done"} => sock[d] \in {"gone", "done"}
    BY <1>18, <1>t DEF CloseSend, roomVars, TypeOK
  <2> QED BY <2>1, <1>c, <1>f
<1>19. ASSUME NEW c \in Clients, KickPanics(c) PROVE \E x \in Threads : EndsAbsence(x, g, u)'
  <2>1. /\ job[c].at = "shut" /\ UNCHANGED <<active, hostID, viewers>>
        /\ job' = [job EXCEPT ![c] = [@ EXCEPT !.at = "panicked"]]
        /\ \A d \in Clients : sock'[d] \in {"gone", "done"} => sock[d] \in {"gone", "done"}
    BY <1>19, <1>t DEF KickPanics, roomVars, TypeOK
  <2>2. PICK y \in Threads : EndsAbsence(y, g, u)
    BY <2>1, <1>b, <1>f
  <2>3. CASE y # c
    BY <1>a, <2>1, <2>2, <2>3 DEF EndsAbsence, Leaving
  <2>4. CASE y = c
    <3>1. job[c].on = g /\ job[c].user = u
      BY <2>1, <2>2, <2>4 DEF EndsAbsence, Leaving
    <3>2. job'[c].at = "panicked" /\ job'[c].on = g /\ job'[c].user = u
      BY <1>a, <2>1, <3>1, AtTypes DEF Threads, Steps
    <3> QED BY <3>2 DEF EndsAbsence, Leaving, Threads
  <2> QED BY <2>3, <2>4
<1> QED
  BY <1>1, <1>3, <1>4, <1>5, <1>6, <1>7, <1>8, <1>9, <1>10, <1>11, <1>12,
     <1>13, <1>14, <1>15, <1>16, <1>17, <1>18, <1>19 DEF Next, Handler

\* A viewer whose socket is gone has its grace timer pending, or is about to
\* be removed or replaced.
THEOREM LostViewerCorrect == Spec => []LostViewerIsTimed
<1>1. Init => LostViewerIsTimed
  BY ConstantsOK DEF ConstantsOK, Init, LostViewerIsTimed, LostViewer
<1> QED BY <1>1, InitShape, ShapeStep, LostViewerStep, PTL DEF Spec

\* The inductive invariant as a whole.
THEOREM InductiveInvariant == Spec => []IInv
BY InitShape, ShapeStep, LostHostCorrect, LostViewerCorrect, PTL DEF IInv, Spec

==============================================================================
