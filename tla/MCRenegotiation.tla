--------------------------- MODULE MCRenegotiation ---------------------------
(* A host and a viewer that becomes a co-host. *)
EXTENDS Renegotiation

CONSTANTS h, v
MCClients == {h, v}
MCPublishers == {v}
MCAskers == {h}
=============================================================================
