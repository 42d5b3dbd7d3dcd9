------------------------------ MODULE MCHubLocks ------------------------------
(* Two sockets, one room with any of them or somebody else as its host, and   *)
(* one request that creates a room.                                           *)
EXTENDS HubLocks

CONSTANTS c1, c2, r1, m1
==============================================================================
