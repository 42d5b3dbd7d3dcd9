--------------------------- MODULE MCRoomLifecycle ---------------------------
(* Small instances of RoomLifecycle: one user with two sockets, who hosts the *)
(* room or watches a room of another host, and a pool of timers.              *)
EXTENDS RoomLifecycle, TLC

CONSTANTS host, h1, h2, t1, t2

MCUserOf == [c \in Clients |-> host]

TimerSymmetry == Permutations(Timers)
==============================================================================
