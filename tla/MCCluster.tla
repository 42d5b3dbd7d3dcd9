------------------------------ MODULE MCCluster ------------------------------
(* Instances of Cluster: an origin a and an edge b, where a user has two sockets. *)
EXTENDS Cluster, TLC

CONSTANTS a, b, bob, s1, s2
Placed == [s \in Sockets |-> b]
Owners == [s \in Sockets |-> bob]
HostsOf == (a :> <<{None}>>) @@ (b :> <<{None}, {None, bob}>>)
SocketSymmetry == Permutations(Sockets)
=============================================================================
