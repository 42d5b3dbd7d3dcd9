-------------------------- MODULE WebhookDispatcher --------------------------
(***************************************************************************)
(* WebhookClient (api/webhook.go): room handlers dispatch events into a    *)
(* buffered channel, a pool of workers posts them over HTTP, and main      *)
(* stops the pool on shutdown.                                             *)
(*                                                                         *)
(* Dispatch runs under mu.RLock and Stop clears "running" and closes       *)
(* stopChan under mu.Lock: each is one step.  A worker's length test, its  *)
(* receive and its HTTP request are separate steps.                        *)
(***************************************************************************)
EXTENDS Naturals, Sequences, FiniteSets

CONSTANTS
  Events,    \* the events room handlers dispatch, each once
  Workers,   \* the pool (numWorkers goroutines)
  QueueCap,  \* capacity of eventQueue
  NoEvent

ASSUME DispatcherOK ==
  Workers # {} /\ QueueCap \in Nat \ {0} /\ NoEvent \notin Events

VARIABLES
  running,   \* WebhookClient.running
  stopChan,  \* stopChan is closed
  queue,     \* eventQueue
  worker,    \* what each worker is doing, and the event in its hands
  stopper,   \* main, with respect to Stop
  posted,    \* events for which sendWebhook has run
  refused    \* events Dispatch has dropped

vars == <<running, stopChan, queue, worker, stopper, posted, refused>>

Steps == {"none", "select", "send", "drain", "receive", "flush", "exit"}

At(step, e) == [at |-> step, ev |-> e]

Queued  == {queue[i] : i \in 1 .. Len(queue)}
InHands == {worker[w].ev : w \in Workers} \ {NoEvent}

-----------------------------------------------------------------------------
Init ==
  /\ running = FALSE /\ stopChan = FALSE
  /\ queue = <<>>
  /\ worker = [w \in Workers |-> At("none", NoEvent)]
  /\ stopper = "idle"
  /\ posted = {} /\ refused = {}

\* Start, called once: the workers are spawned.
Start ==
  /\ stopper = "idle" /\ ~running
  /\ running' = TRUE
  /\ worker' = [w \in Workers |-> At("select", NoEvent)]
  /\ UNCHANGED <<stopChan, queue, stopper, posted, refused>>

\* Mutant of Dispatch: the running flag is not looked at.
DispatchAlways(e) ==
  /\ e \notin Queued \cup InHands \cup posted \cup refused
  /\ IF Len(queue) < QueueCap
     THEN queue' = Append(queue, e) /\ UNCHANGED refused
     ELSE refused' = refused \cup {e} /\ UNCHANGED queue
  /\ UNCHANGED <<running, stopChan, worker, stopper, posted>>

\* Dispatch: enqueue if the pool runs and the channel has room, drop if not.
Dispatch(e) ==
  /\ e \notin Queued \cup InHands \cup posted \cup refused
  /\ IF running /\ Len(queue) < QueueCap
     THEN queue' = Append(queue, e) /\ UNCHANGED refused
     ELSE refused' = refused \cup {e} /\ UNCHANGED queue
  /\ UNCHANGED <<running, stopChan, worker, stopper, posted>>

\* Stop: the locked part, then wg.Wait().
Stop ==
  /\ stopper = "idle" /\ running
  /\ running' = FALSE /\ stopChan' = TRUE
  /\ stopper' = "waiting"
  /\ UNCHANGED <<queue, worker, posted, refused>>

\* Mutant of StopReturns: no wg.Wait().
StopReturnsAtOnce ==
  /\ stopper = "waiting"
  /\ stopper' = "returned"
  /\ UNCHANGED <<running, stopChan, queue, worker, posted, refused>>

StopReturns ==
  /\ stopper = "waiting"
  /\ \A w \in Workers : worker[w].at = "exit"
  /\ stopper' = "returned"
  /\ UNCHANGED <<running, stopChan, queue, worker, posted, refused>>

-----------------------------------------------------------------------------
(* The workers.                                                             *)

TakeInto(w, step) ==
  /\ queue # <<>>
  /\ queue' = Tail(queue)
  /\ worker' = [worker EXCEPT ![w] = At(step, Head(queue))]
  /\ UNCHANGED <<running, stopChan, stopper, posted, refused>>

Move(w, step) ==
  /\ worker' = [worker EXCEPT ![w] = At(step, NoEvent)]
  /\ UNCHANGED <<running, stopChan, queue, stopper, posted, refused>>

\* The select: an event, or the closed stopChan, whichever Go picks.
SelectEvent(w) == worker[w].at = "select" /\ TakeInto(w, "send")

\* Mutant of SelectStop: a worker that sees stopChan leaves without draining.
SelectStopLeaves(w) == worker[w].at = "select" /\ stopChan /\ Move(w, "exit")

SelectStop(w) == worker[w].at = "select" /\ stopChan /\ Move(w, "drain")

\* for len(c.eventQueue) > 0
DrainTest(w) ==
  /\ worker[w].at = "drain"
  /\ Move(w, IF queue = <<>> THEN "exit" ELSE "receive")

\* Mutant of DrainReceive: the receive blocks, for want of a default.
DrainReceiveBlocks(w) ==
  /\ worker[w].at = "receive"
  /\ TakeInto(w, "flush")

\* The non-blocking receive: another worker may have emptied the channel.
DrainReceive(w) ==
  /\ worker[w].at = "receive"
  /\ \/ TakeInto(w, "flush")
     \/ queue = <<>> /\ Move(w, "exit")

\* Mutant of Send: the worker leaves the pool when it sees a stop.
SendAndLeave(w) ==
  /\ worker[w].at \in {"send", "flush"}
  /\ posted' = posted \cup {worker[w].ev}
  /\ worker' = [worker EXCEPT ![w] = At(IF stopChan THEN "exit" ELSE "select", NoEvent)]
  /\ UNCHANGED <<running, stopChan, queue, stopper, refused>>

\* sendWebhook: one request with a 5 s time-out, its result only logged.
Send(w) ==
  /\ worker[w].at \in {"send", "flush"}
  /\ posted' = posted \cup {worker[w].ev}
  /\ worker' = [worker EXCEPT ![w] =
                  At(IF worker[w].at = "send" THEN "select" ELSE "drain", NoEvent)]
  /\ UNCHANGED <<running, stopChan, queue, stopper, refused>>

Work(w) ==
  \/ SelectEvent(w) \/ SelectStop(w) \/ DrainTest(w) \/ DrainReceive(w) \/ Send(w)

Next ==
  \/ Start \/ Stop \/ StopReturns
  \/ \E e \in Events : Dispatch(e)
  \/ \E w \in Workers : Work(w)

Spec == Init /\ [][Next]_vars

\* Every worker keeps running and every HTTP request ends; main returns from
\* wg.Wait.  Nobody has to dispatch, start or stop.
Fairness == WF_vars(StopReturns) /\ \A w \in Workers : WF_vars(Work(w))

FairSpec == Spec /\ Fairness

-----------------------------------------------------------------------------
(* What must hold.                                                          *)

\* Every variable has its type.
TypeOK ==
  /\ running \in BOOLEAN /\ stopChan \in BOOLEAN
  /\ queue \in Seq(Events)
  /\ worker \in [Workers -> [at : Steps, ev : Events \cup {NoEvent}]]
  /\ stopper \in {"idle", "waiting", "returned"}
  /\ posted \subseteq Events /\ refused \subseteq Events

\* Stop "waits for pending events to flush": once it has returned nothing is
\* left in the channel and no worker still holds an event.
StopFlushes == stopper = "returned" => queue = <<>> /\ InHands = {}

\* The parts of the inductive invariant.
NoCopies ==
  /\ \A i, j \in 1 .. Len(queue) : queue[i] = queue[j] => i = j
  /\ \A v, w \in Workers : worker[v].ev = worker[w].ev => v = w \/ worker[v].ev = NoEvent
  /\ Queued \cap InHands = {}
  /\ (Queued \cup InHands) \cap (posted \cup refused) = {}
  /\ posted \cap refused = {}

HandsMatchSteps ==
  \A w \in Workers : worker[w].ev # NoEvent <=> worker[w].at \in {"send", "flush"}

ExitMeansEmpty ==
  /\ running => ~stopChan /\ stopper = "idle"
  /\ stopChan <=> stopper # "idle"
  /\ \A w \in Workers :
       /\ worker[w].at \in {"drain", "receive", "flush", "exit"} => stopChan
       /\ worker[w].at = "exit" => queue = <<>>
       /\ worker[w].at = "none" => ~running /\ ~stopChan
  /\ ~running /\ ~stopChan => queue = <<>>
       /\ \A w \in Workers : worker[w].at = "none"
  /\ stopper = "returned" => \A w \in Workers : worker[w].at = "exit"

IInv == TypeOK /\ NoCopies /\ HandsMatchSteps /\ ExitMeansEmpty

\* WebhookClient implements the sink its callers rely on.
Phase ==
  IF stopper = "returned" THEN "closed"
  ELSE IF stopChan THEN "closing" ELSE IF running THEN "open" ELSE "idle"

Sink == INSTANCE EventSink WITH phase <- Phase, held <- Queued \cup InHands

ImplementsSink == Sink!SinkSpec

\* Stop comes back, however full the channel was.
StopEnds == stopper = "waiting" ~> stopper = "returned"

\* An event that was taken is posted, also when nobody stops the pool.
TakenIsPosted == \A e \in Events : e \in Queued \cup InHands ~> e \in posted
=============================================================================
