------------------------------ MODULE EventSink ------------------------------
(***************************************************************************)
(* What WebhookClient promises its callers: an event is taken or refused   *)
(* on the spot, an event taken is posted once, in no particular order, and *)
(* Stop returns only when every event taken has been posted.               *)
(***************************************************************************)
EXTENDS FiniteSets

CONSTANT Events

VARIABLES
  phase,    \* "idle", "open", "closing", "closed"
  held,     \* events taken and not yet posted
  posted,   \* events whose HTTP request was made
  refused   \* events dropped: not running, or no room left

sinkVars == <<phase, held, posted, refused>>

Fresh(e) == e \notin held \cup posted \cup refused

SinkInit == phase = "idle" /\ held = {} /\ posted = {} /\ refused = {}

Open == phase = "idle" /\ phase' = "open" /\ UNCHANGED <<held, posted, refused>>

Take(e) ==
  /\ phase = "open" /\ Fresh(e)
  /\ held' = held \cup {e}
  /\ UNCHANGED <<phase, posted, refused>>

Refuse(e) ==
  /\ Fresh(e)
  /\ refused' = refused \cup {e}
  /\ UNCHANGED <<phase, held, posted>>

Post(e) ==
  /\ e \in held /\ phase # "closed"
  /\ held' = held \ {e} /\ posted' = posted \cup {e}
  /\ UNCHANGED <<phase, refused>>

Close == phase = "open" /\ phase' = "closing" /\ UNCHANGED <<held, posted, refused>>

Finish ==
  /\ phase = "closing" /\ held = {}
  /\ phase' = "closed" /\ UNCHANGED <<held, posted, refused>>

SinkNext ==
  \/ Open \/ Close \/ Finish
  \/ \E e \in Events : Take(e) \/ Refuse(e) \/ Post(e)

SinkSpec == SinkInit /\ [][SinkNext]_sinkVars
=============================================================================
