----------------------------- MODULE MCPresence -----------------------------
(* Instances of Presence: the host with a socket and a user with two, one of
   them an admin's; everybody may join. *)
EXTENDS Presence, TLC

CONSTANTS host, ann, s1, s2, s3
Owners == (s1 :> host) @@ (s2 :> ann) @@ (s3 :> ann)
=============================================================================
