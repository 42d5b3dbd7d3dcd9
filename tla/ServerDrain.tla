----------------------------- MODULE ServerDrain -----------------------------
(***************************************************************************)
(* The shutdown at the end of main(), against the three places that create *)
(* rooms.  Each of them looks at its own drain flag, or at none, and takes *)
(* RoomManager.mu only afterwards, to create the room.                     *)
(***************************************************************************)
EXTENDS FiniteSets, Naturals

CONSTANTS
  Rooms,     \* room names
  Requests   \* bound: the requests to make a room that are ever sent

VARIABLES
  main,      \* where main() is; "killed" by os.Exit in the fallback timer
  httpFlag,  \* main.isServerDraining
  sigFlag,   \* signaling.isServerDraining
  rooms,     \* RoomManager.activeRooms
  wg,        \* the counter of the WaitGroup that main waits on
  req        \* each request: how far it is, how it came, the room it wants

vars == <<main, httpFlag, sigFlag, rooms, wg, req>>

Running == {"serving", "signalled", "flagged", "counting", "waiting", "closing"}
Ways == {"http", "publish", "join"}
NoRequest == [at |-> "unsent", via |-> "http", room |-> CHOOSE r \in Rooms : TRUE]

\* NewRoomManager leaves the field activeRoomsWG nil, and nothing sets it later.
ManagerHasWG == FALSE

Init ==
  /\ main = "serving" /\ httpFlag = FALSE /\ sigFlag = FALSE
  /\ rooms = {} /\ wg = 0
  /\ req = [q \in Requests |-> NoRequest]

-----------------------------------------------------------------------------
(* Rooms.                                                                   *)

\* Whether a request of this kind goes on to create the room it wants.
Admitted(via, r) ==
  \/ via = "http" /\ ~httpFlag
  \/ via = "publish" /\ r \notin rooms /\ ~sigFlag
  \/ via = "join" /\ r \notin rooms

\* A request comes in, is looked at, and is turned away or goes on.
Request(q, via, r) ==
  /\ main \in Running /\ req[q].at = "unsent"
  /\ req' = [req EXCEPT ![q] =
       [at |-> IF Admitted(via, r) THEN "create" ELSE "over", via |-> via, room |-> r]]
  /\ UNCHANGED <<main, httpFlag, sigFlag, rooms, wg>>

\* RoomManager.CreateRoom; a room that exists by now is an error.
CreateRoom(q) ==
  /\ main \in Running /\ req[q].at = "create"
  /\ req' = [req EXCEPT ![q].at = "over"]
  /\ rooms' = rooms \cup {req[q].room}
  /\ wg' = IF ManagerHasWG /\ req[q].room \notin rooms THEN wg + 1 ELSE wg
  /\ UNCHANGED <<main, httpFlag, sigFlag>>

\* The room's stream ends and the room is closed.
CloseRoom(r) ==
  /\ main \in Running /\ r \in rooms
  /\ rooms' = rooms \ {r}
  /\ wg' = IF ManagerHasWG THEN wg - 1 ELSE wg
  /\ UNCHANGED <<main, httpFlag, sigFlag, req>>

-----------------------------------------------------------------------------
(* main().                                                                  *)

Signal ==
  /\ main = "serving" /\ main' = "signalled"
  /\ UNCHANGED <<httpFlag, sigFlag, rooms, wg, req>>

SetHttpFlag ==
  /\ main = "signalled" /\ main' = "flagged"
  /\ httpFlag' = TRUE
  /\ UNCHANGED <<sigFlag, rooms, wg, req>>

\* The second flag, then the fallback timer.
SetSignalingFlag ==
  /\ main = "flagged" /\ main' = "counting"
  /\ sigFlag' = TRUE
  /\ UNCHANGED <<httpFlag, rooms, wg, req>>

CountRooms ==
  /\ main = "counting"
  /\ main' = IF rooms = {} THEN "closing" ELSE "waiting"
  /\ UNCHANGED <<httpFlag, sigFlag, rooms, wg, req>>

\* GetActiveRoomsWG().Wait() returns, and the fallback timer is stopped.
WaitReturns ==
  /\ main = "waiting" /\ wg = 0
  /\ main' = "closing"
  /\ UNCHANGED <<httpFlag, sigFlag, rooms, wg, req>>

\* Two hours have passed: os.Exit(0).
FallbackFires ==
  /\ main \in {"counting", "waiting"} /\ main' = "killed"
  /\ UNCHANGED <<httpFlag, sigFlag, rooms, wg, req>>

\* Dispatcher, cascades, broker and listener are closed, main returns.
Exit ==
  /\ main = "closing" /\ main' = "exited"
  /\ UNCHANGED <<httpFlag, sigFlag, rooms, wg, req>>

-----------------------------------------------------------------------------
Next ==
  \/ \E q \in Requests : CreateRoom(q) \/ \E via \in Ways, r \in Rooms : Request(q, via, r)
  \/ \E r \in Rooms : CloseRoom(r)
  \/ Signal \/ SetHttpFlag \/ SetSignalingFlag \/ CountRooms
  \/ WaitReturns \/ FallbackFires \/ Exit

Spec == Init /\ [][Next]_vars

-----------------------------------------------------------------------------
(* What a comment says, and the code does not keep.                         *)

\* "Block the main thread using wg.Wait() so the process stays alive for
\* existing streams": the wait ends when no room is left.
StaysAliveForStreams ==
  [][main = "waiting" /\ main' = "closing" => rooms = {}]_vars
=============================================================================
