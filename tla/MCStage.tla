------------------------------- MODULE MCStage -------------------------------
(* Instances of Stage: the host and two users, a socket each. *)
EXTENDS Stage, TLC

CONSTANTS host, ann, bob, s1, s2, s3
Owners == (s1 :> host) @@ (s2 :> ann) @@ (s3 :> bob)
=============================================================================
