----------------------- MODULE WebhookDispatcherProofs -----------------------
(***************************************************************************)
(* Machine-checked facts about WebhookDispatcher, for any events, workers  *)
(* and channel capacity: Stop flushes, and the pool implements EventSink.  *)
(***************************************************************************)
EXTENDS WebhookDispatcher, SequenceTheorems, TLAPS

-----------------------------------------------------------------------------
(* The channel.                                                             *)

\* What sending to the channel does to its contents.
LEMMA AppendFacts ==
  ASSUME NEW q \in Seq(Events), NEW e \in Events
  PROVE  /\ Append(q, e) \in Seq(Events) /\ Len(Append(q, e)) = Len(q) + 1
         /\ Len(q) \in Nat
         /\ \A i \in 1 .. Len(q) : Append(q, e)[i] = q[i]
         /\ Append(q, e)[Len(q) + 1] = e
OBVIOUS

\* What receiving from it does.
LEMMA TailFacts ==
  ASSUME NEW q \in Seq(Events), q # <<>>
  PROVE  /\ Head(q) \in Events /\ Head(q) = q[1]
         /\ Tail(q) \in Seq(Events) /\ Len(Tail(q)) = Len(q) - 1
         /\ Len(q) \in Nat \ {0}
         /\ \A i \in 1 .. Len(Tail(q)) : Tail(q)[i] = q[i + 1]
OBVIOUS

\* A worker that takes the first event moves it from the channel to its hands.
LEMMA TakeIntoEffect ==
  ASSUME TypeOK, NoCopies, NEW w \in Workers, NEW step \in Steps,
         worker[w].ev = NoEvent, TakeInto(w, step)
  PROVE  \E e \in Queued :
           /\ e \in Events /\ e # NoEvent
           /\ queue' \in Seq(Events)
           /\ \A i, j \in 1 .. Len(queue') : queue'[i] = queue'[j] => i = j
           /\ Queued' = Queued \ {e}
           /\ worker' = [worker EXCEPT ![w] = At(step, e)]
           /\ InHands' = InHands \cup {e}
           /\ UNCHANGED <<running, stopChan, stopper, posted, refused>>
<1> USE DispatcherOK DEF DispatcherOK
<1> DEFINE e == Head(queue)
<1>1. /\ queue \in Seq(Events) /\ queue # <<>> /\ queue' = Tail(queue)
      /\ worker' = [worker EXCEPT ![w] = At(step, e)]
      /\ UNCHANGED <<running, stopChan, stopper, posted, refused>>
  BY DEF TakeInto, TypeOK
<1>2. /\ e \in Events /\ e = queue[1]
      /\ queue' \in Seq(Events) /\ Len(queue') = Len(queue) - 1
      /\ Len(queue) \in Nat \ {0}
      /\ \A i \in 1 .. Len(queue') : queue'[i] = queue[i + 1]
  BY <1>1, TailFacts
<1> HIDE DEF e
<1>3. \A i, j \in 1 .. Len(queue) : queue[i] = queue[j] => i = j
  BY DEF NoCopies
<1>4. \A i, j \in 1 .. Len(queue') : queue'[i] = queue'[j] => i = j
  <2> SUFFICES ASSUME NEW i \in 1 .. Len(queue'), NEW j \in 1 .. Len(queue'),
                      queue'[i] = queue'[j]
               PROVE  i = j
    OBVIOUS
  <2>1. i + 1 \in 1 .. Len(queue) /\ j + 1 \in 1 .. Len(queue)
    BY <1>2
  <2>2. queue[i + 1] = queue[j + 1]
    BY <1>2
  <2> QED BY <1>3, <2>1, <2>2
<1>5. e \in Queued
  <2>1. 1 \in 1 .. Len(queue)
    BY <1>2
  <2> QED BY <1>2, <2>1 DEF Queued
<1>6. Queued' = Queued \ {e}
  <2>1. ASSUME NEW x \in Queued' PROVE x \in Queued \ {e}
    <3>1. PICK i \in 1 .. Len(queue') : x = queue'[i]
      BY <2>1 DEF Queued
    <3>2. i + 1 \in 1 .. Len(queue) /\ x = queue[i + 1] /\ 1 \in 1 .. Len(queue) /\ i + 1 # 1
      BY <1>2, <3>1
    <3> QED BY <1>2, <1>3, <3>2 DEF Queued
  <2>2. ASSUME NEW x \in Queued, x # e PROVE x \in Queued'
    <3>1. PICK i \in 1 .. Len(queue) : x = queue[i]
      BY <2>2 DEF Queued
    <3>2. i - 1 \in 1 .. Len(queue') /\ queue'[i - 1] = queue[(i - 1) + 1] /\ (i - 1) + 1 = i
      BY <1>2, <2>2, <3>1
    <3> QED BY <3>1, <3>2 DEF Queued
  <2> QED BY <2>1, <2>2
<1>7. InHands' = InHands \cup {e}
  <2>1. \A v \in Workers : worker'[v].ev = IF v = w THEN e ELSE worker[v].ev
    BY <1>1 DEF TypeOK, At
  <2> QED BY <1>2, <2>1 DEF InHands
<1> QED BY <1>1, <1>2, <1>4, <1>5, <1>6, <1>7

\* A worker that moves on with empty hands changes the contents of nothing.
LEMMA MoveEffect ==
  ASSUME TypeOK, NEW w \in Workers, NEW step \in Steps,
         worker[w].ev = NoEvent, Move(w, step)
  PROVE  /\ worker' = [worker EXCEPT ![w] = At(step, NoEvent)]
         /\ Queued' = Queued /\ InHands' = InHands
         /\ UNCHANGED <<running, stopChan, queue, stopper, posted, refused>>
<1>1. \A v \in Workers : worker'[v].ev = worker[v].ev
  BY DEF Move, TypeOK, At
<1> QED BY <1>1 DEF Move, Queued, InHands

\* An event whose request has run leaves the hands that held it.
LEMMA SendEffect ==
  ASSUME TypeOK, NoCopies, HandsMatchSteps, NEW w \in Workers, Send(w)
  PROVE  \E e \in InHands, step \in {"select", "drain"} :
           /\ e = worker[w].ev /\ e \in Events /\ e # NoEvent
           /\ worker' = [worker EXCEPT ![w] = At(step, NoEvent)]
           /\ step = "drain" => worker[w].at = "flush"
           /\ InHands' = InHands \ {e} /\ Queued' = Queued
           /\ posted' = posted \cup {e}
           /\ UNCHANGED <<running, stopChan, queue, stopper, refused>>
<1> DEFINE e == worker[w].ev
           step == IF worker[w].at = "send" THEN "select" ELSE "drain"
<1>1. /\ worker[w].at \in {"send", "flush"}
      /\ worker' = [worker EXCEPT ![w] = At(step, NoEvent)]
      /\ posted' = posted \cup {e}
      /\ UNCHANGED <<running, stopChan, queue, stopper, refused>>
  BY DEF Send
<1>2. e # NoEvent /\ e \in Events /\ e \in InHands
  BY <1>1 DEF HandsMatchSteps, TypeOK, InHands
<1>3. \A v \in Workers : worker'[v].ev = IF v = w THEN NoEvent ELSE worker[v].ev
  BY <1>1 DEF TypeOK, At
<1>4. InHands' = InHands \ {e}
  BY <1>2, <1>3 DEF InHands, NoCopies
<1>5. Queued' = Queued
  BY <1>1 DEF Queued
<1>6. step \in {"select", "drain"} /\ (step = "drain" => worker[w].at = "flush")
  BY <1>1
<1> QED BY <1>1, <1>2, <1>4, <1>5, <1>6

\* Dispatch either adds the event at the end of the channel or drops it.
LEMMA DispatchEffect ==
  ASSUME TypeOK, NoCopies, NEW e \in Events, Dispatch(e)
  PROVE  /\ e \notin Queued \cup InHands \cup posted \cup refused
         /\ InHands' = InHands
         /\ UNCHANGED <<running, stopChan, worker, stopper, posted>>
         /\ \/ /\ running /\ queue' \in Seq(Events)
               /\ \A i, j \in 1 .. Len(queue') : queue'[i] = queue'[j] => i = j
               /\ Queued' = Queued \cup {e} /\ refused' = refused
            \/ /\ queue' = queue /\ Queued' = Queued
               /\ refused' = refused \cup {e}
<1>1. /\ e \notin Queued \cup InHands \cup posted \cup refused
      /\ UNCHANGED <<running, stopChan, worker, stopper, posted>>
  BY DEF Dispatch
<1>2. InHands' = InHands
  BY <1>1 DEF InHands
<1>3. CASE running /\ queue' = Append(queue, e) /\ refused' = refused
  <2>1. /\ queue' \in Seq(Events) /\ Len(queue') = Len(queue) + 1 /\ Len(queue) \in Nat
        /\ \A i \in 1 .. Len(queue) : queue'[i] = queue[i]
        /\ queue'[Len(queue) + 1] = e
    BY <1>3, AppendFacts DEF TypeOK
  <2>2. \A i \in 1 .. Len(queue') : i \in 1 .. Len(queue) \/ i = Len(queue) + 1
    BY <2>1
  <2>3. Queued' = Queued \cup {e}
    <3>1. ASSUME NEW x \in Queued' PROVE x \in Queued \cup {e}
      BY <2>1, <2>2, <3>1 DEF Queued
    <3>2. ASSUME NEW x \in Queued PROVE x \in Queued'
      <4>1. PICK i \in 1 .. Len(queue) : x = queue[i]
        BY <3>2 DEF Queued
      <4>2. i \in 1 .. Len(queue') /\ queue'[i] = x
        BY <2>1, <4>1
      <4> QED BY <4>2 DEF Queued
    <3>3. e \in Queued'
      <4>1. Len(queue) + 1 \in 1 .. Len(queue')
        BY <2>1
      <4> QED BY <2>1, <4>1 DEF Queued
    <3> QED BY <3>1, <3>2, <3>3
  <2>4. \A i \in 1 .. Len(queue) : queue[i] # e
    BY <1>1 DEF Queued
  <2>5. \A i, j \in 1 .. Len(queue') : queue'[i] = queue'[j] => i = j
    BY <2>1, <2>2, <2>4 DEF NoCopies
  <2> QED BY <1>1, <1>2, <1>3, <2>1, <2>3, <2>5
<1>4. CASE queue' = queue /\ refused' = refused \cup {e}
  BY <1>1, <1>2, <1>4 DEF Queued
<1> QED BY <1>3, <1>4 DEF Dispatch

-----------------------------------------------------------------------------
(* The invariant.                                                           *)

\* Every step keeps the inductive invariant.
LEMMA IInvStep == IInv /\ [Next]_vars => IInv'
<1> USE DispatcherOK DEF DispatcherOK
<1> SUFFICES ASSUME IInv, [Next]_vars PROVE IInv'
  OBVIOUS
<1>t. TypeOK /\ NoCopies /\ HandsMatchSteps /\ ExitMeansEmpty
  BY DEF IInv
<1>h. \A w \in Workers : worker[w].at \notin {"send", "flush"} => worker[w].ev = NoEvent
  BY <1>t DEF HandsMatchSteps
<1>1. CASE Start
  <2>1. /\ worker' = [w \in Workers |-> At("select", NoEvent)] /\ running' = TRUE
        /\ ~running /\ stopper = "idle"
        /\ UNCHANGED <<stopChan, queue, stopper, posted, refused>>
    BY <1>1 DEF Start
  <2>2. InHands' = {} /\ Queued' = Queued
    BY <2>1 DEF InHands, Queued, At
  <2>3. TypeOK'
    BY <1>t, <2>1 DEF TypeOK, At, Steps
  <2>4. NoCopies'
    BY <1>t, <2>1, <2>2 DEF NoCopies, At
  <2>5. HandsMatchSteps' /\ ExitMeansEmpty'
    BY <1>t, <2>1 DEF HandsMatchSteps, ExitMeansEmpty, At
  <2> QED BY <2>3, <2>4, <2>5 DEF IInv
<1>2. CASE Stop
  <2>1. Queued' = Queued /\ InHands' = InHands
    BY <1>2 DEF Stop, Queued, InHands
  <2> QED
    BY <1>t, <1>2, <2>1 DEF Stop, IInv, TypeOK, NoCopies, HandsMatchSteps, ExitMeansEmpty
<1>3. CASE StopReturns
  <2>1. Queued' = Queued /\ InHands' = InHands
    BY <1>3 DEF StopReturns, Queued, InHands
  <2> QED
    BY <1>t, <1>3, <2>1 DEF StopReturns, IInv, TypeOK, NoCopies, HandsMatchSteps, ExitMeansEmpty
<1>4. ASSUME NEW e \in Events, Dispatch(e) PROVE IInv'
  <2>1. /\ e \notin Queued \cup InHands \cup posted \cup refused
        /\ InHands' = InHands
        /\ UNCHANGED <<running, stopChan, worker, stopper, posted>>
        /\ \/ /\ running /\ queue' \in Seq(Events)
              /\ \A i, j \in 1 .. Len(queue') : queue'[i] = queue'[j] => i = j
              /\ Queued' = Queued \cup {e} /\ refused' = refused
           \/ /\ queue' = queue /\ Queued' = Queued
              /\ refused' = refused \cup {e}
    BY <1>t, <1>4, DispatchEffect
  <2>2. TypeOK'
    BY <1>t, <2>1 DEF TypeOK
  <2>3. NoCopies'
    BY <1>t, <2>1 DEF NoCopies
  <2>4. HandsMatchSteps' /\ ExitMeansEmpty'
    BY <1>t, <2>1 DEF HandsMatchSteps, ExitMeansEmpty
  <2> QED BY <2>2, <2>3, <2>4 DEF IInv
<1>5. ASSUME NEW w \in Workers, NEW step \in {"send", "flush"}, TakeInto(w, step),
             worker[w].at \in {"select", "receive"},
             step = "flush" => worker[w].at = "receive"
      PROVE  IInv'
  <2>1. PICK e \in Queued :
           /\ e \in Events /\ e # NoEvent
           /\ queue' \in Seq(Events)
           /\ \A i, j \in 1 .. Len(queue') : queue'[i] = queue'[j] => i = j
           /\ Queued' = Queued \ {e}
           /\ worker' = [worker EXCEPT ![w] = At(step, e)]
           /\ InHands' = InHands \cup {e}
           /\ UNCHANGED <<running, stopChan, stopper, posted, refused>>
    BY <1>t, <1>h, <1>5, TakeIntoEffect DEF Steps
  <2>2. queue # <<>>
    BY <1>5 DEF TakeInto
  <2>3. /\ \A v \in Workers : worker'[v] = IF v = w THEN At(step, e) ELSE worker[v]
        /\ \A v \in Workers : worker[v].ev # NoEvent => worker[v].ev \in InHands
    BY <1>t, <2>1 DEF TypeOK, InHands
  <2>4. TypeOK'
    BY <1>t, <2>1 DEF TypeOK, At, Steps
  <2>5. NoCopies'
    <3>1. e \notin InHands /\ e \notin posted \cup refused
      BY <1>t, <2>1 DEF NoCopies
    <3>2. \A u, v \in Workers : worker'[u].ev = worker'[v].ev => u = v \/ worker'[u].ev = NoEvent
      BY <1>t, <2>1, <2>3, <3>1 DEF NoCopies, At
    <3> QED BY <1>t, <2>1, <3>1, <3>2 DEF NoCopies
  <2>6. HandsMatchSteps'
    BY <1>t, <2>1, <2>3 DEF HandsMatchSteps, At
  <2>7. ExitMeansEmpty'
    BY <1>t, <1>5, <2>1, <2>2, <2>3 DEF ExitMeansEmpty, At
  <2> QED BY <2>4, <2>5, <2>6, <2>7 DEF IInv
<1>6. ASSUME NEW w \in Workers, NEW step \in {"drain", "receive", "exit"}, Move(w, step),
             worker[w].at \in {"select", "drain", "receive"}, stopChan,
             step = "exit" => queue = <<>>
      PROVE  IInv'
  <2>1. /\ worker' = [worker EXCEPT ![w] = At(step, NoEvent)]
        /\ Queued' = Queued /\ InHands' = InHands
        /\ UNCHANGED <<running, stopChan, queue, stopper, posted, refused>>
    BY <1>t, <1>h, <1>6, MoveEffect DEF Steps
  <2>2. \A v \in Workers : worker'[v] = IF v = w THEN At(step, NoEvent) ELSE worker[v]
    BY <1>t, <2>1 DEF TypeOK
  <2>3. TypeOK'
    BY <1>t, <2>1 DEF TypeOK, At, Steps
  <2>4. NoCopies'
    BY <1>t, <1>h, <1>6, <2>1, <2>2 DEF NoCopies, At
  <2>5. HandsMatchSteps'
    BY <1>t, <2>2 DEF HandsMatchSteps, At
  <2>6. ExitMeansEmpty'
    BY <1>t, <1>6, <2>1, <2>2 DEF ExitMeansEmpty, At
  <2> QED BY <2>3, <2>4, <2>5, <2>6 DEF IInv
<1>7. ASSUME NEW w \in Workers, Send(w) PROVE IInv'
  <2>1. PICK e \in InHands, step \in {"select", "drain"} :
           /\ e = worker[w].ev /\ e \in Events /\ e # NoEvent
           /\ worker' = [worker EXCEPT ![w] = At(step, NoEvent)]
           /\ step = "drain" => worker[w].at = "flush"
           /\ InHands' = InHands \ {e} /\ Queued' = Queued
           /\ posted' = posted \cup {e}
           /\ UNCHANGED <<running, stopChan, queue, stopper, refused>>
    BY <1>t, <1>7, SendEffect
  <2>2. /\ \A v \in Workers : worker'[v] = IF v = w THEN At(step, NoEvent) ELSE worker[v]
        /\ worker[w].at \in {"send", "flush"}
    BY <1>t, <1>7, <2>1 DEF TypeOK, Send
  <2>3. TypeOK'
    BY <1>t, <2>1 DEF TypeOK, At, Steps
  <2>4. NoCopies'
    BY <1>t, <2>1, <2>2 DEF NoCopies, At
  <2>5. HandsMatchSteps'
    BY <1>t, <2>2 DEF HandsMatchSteps, At
  <2>6. ExitMeansEmpty'
    BY <1>t, <2>1, <2>2 DEF ExitMeansEmpty, At
  <2> QED BY <2>3, <2>4, <2>5, <2>6 DEF IInv
<1>8. ASSUME NEW w \in Workers, Work(w) PROVE IInv'
  <2>1. CASE SelectEvent(w)
    BY <1>5, <2>1 DEF SelectEvent
  <2>2. CASE SelectStop(w)
    BY <1>6, <2>2 DEF SelectStop
  <2>3. CASE DrainTest(w)
    <3>1. worker[w].at = "drain" /\ stopChan
      BY <1>t, <2>3 DEF DrainTest, ExitMeansEmpty
    <3> QED BY <1>6, <2>3, <3>1 DEF DrainTest
  <2>4. CASE DrainReceive(w)
    <3>1. worker[w].at = "receive" /\ stopChan
      BY <1>t, <2>4 DEF DrainReceive, ExitMeansEmpty
    <3> QED BY <1>5, <1>6, <2>4, <3>1 DEF DrainReceive
  <2>5. CASE Send(w)
    BY <1>7, <2>5
  <2> QED BY <1>8, <2>1, <2>2, <2>3, <2>4, <2>5 DEF Work
<1>9. CASE UNCHANGED vars
  <2>1. Queued' = Queued /\ InHands' = InHands
    BY <1>9 DEF vars, Queued, InHands
  <2> QED
    BY <1>t, <1>9, <2>1 DEF vars, IInv, TypeOK, NoCopies, HandsMatchSteps, ExitMeansEmpty
<1> QED BY <1>1, <1>2, <1>3, <1>4, <1>8, <1>9 DEF Next

\* The initial state satisfies it.
LEMMA IInvInit == Init => IInv
<1> USE DispatcherOK DEF DispatcherOK
<1> SUFFICES ASSUME Init PROVE IInv
  OBVIOUS
<1>1. queue = <<>> /\ Len(queue) = 0 /\ queue \in Seq(Events)
  BY DEF Init
<1>2. Queued = {} /\ InHands = {}
  BY <1>1 DEF Init, Queued, InHands, At
<1>3. TypeOK
  BY <1>1 DEF Init, TypeOK, At, Steps
<1>4. NoCopies
  BY <1>1, <1>2 DEF Init, NoCopies, At
<1>5. HandsMatchSteps /\ ExitMeansEmpty
  BY DEF Init, HandsMatchSteps, ExitMeansEmpty, At
<1> QED BY <1>3, <1>4, <1>5 DEF IInv

\* The invariant of the pool, for any number of workers and any capacity.
THEOREM PoolInvariant == Spec => []IInv
BY IInvInit, IInvStep, PTL DEF Spec

\* Once Stop has returned, nothing that was taken is still waiting or in the
\* hands of a worker.
THEOREM StopFlushesAll == Spec => []StopFlushes
<1>1. IInv => StopFlushes
  <2> SUFFICES ASSUME IInv, stopper = "returned" PROVE queue = <<>> /\ InHands = {}
    BY DEF StopFlushes
  <2>1. \A w \in Workers : worker[w].at = "exit"
    BY DEF IInv, ExitMeansEmpty
  <2>2. InHands = {}
    BY <2>1 DEF IInv, HandsMatchSteps, InHands
  <2> QED BY <2>1, <2>2, DispatcherOK DEF DispatcherOK, IInv, ExitMeansEmpty
<1> QED BY <1>1, PoolInvariant, PTL

-----------------------------------------------------------------------------
(* The pool implements the sink.                                            *)

\* Every step of the pool is a step of the sink or changes none of its state.
LEMMA SinkStep == IInv /\ [Next]_vars => [Sink!SinkNext]_(Sink!sinkVars)
<1> USE DispatcherOK DEF DispatcherOK
<1> DEFINE Held == Queued \cup InHands
<1> SUFFICES ASSUME IInv, [Next]_vars
             PROVE  Sink!SinkNext \/ UNCHANGED <<Phase, Held, posted, refused>>
  BY DEF Sink!sinkVars
<1>t. TypeOK /\ NoCopies /\ HandsMatchSteps /\ ExitMeansEmpty
  BY DEF IInv
<1>h. \A w \in Workers : worker[w].at \notin {"send", "flush"} => worker[w].ev = NoEvent
  BY <1>t DEF HandsMatchSteps
<1>p. UNCHANGED <<running, stopChan, stopper>> => Phase' = Phase
  BY DEF Phase
<1>1. CASE Start
  <2>1. Held' = Held /\ UNCHANGED <<posted, refused>>
    <3>1. /\ worker' = [w \in Workers |-> At("select", NoEvent)]
          /\ UNCHANGED <<queue, posted, refused>>
      BY <1>1 DEF Start
    <3>2. ~running /\ ~stopChan
      BY <1>t, <1>1 DEF Start, ExitMeansEmpty
    <3>3. \A w \in Workers : worker[w].ev = NoEvent
      BY <1>t, <1>h, <3>2 DEF ExitMeansEmpty
    <3>4. InHands' = {} /\ InHands = {}
      BY <3>1, <3>3 DEF InHands, At
    <3> QED BY <3>1, <3>4 DEF Queued
  <2>2. Phase = "idle" /\ Phase' = "open"
    BY <1>t, <1>1 DEF Start, Phase, ExitMeansEmpty
  <2> QED BY <2>1, <2>2 DEF Sink!SinkNext, Sink!Open
<1>2. CASE Stop
  <2>1. Held' = Held /\ UNCHANGED <<posted, refused>>
    BY <1>2 DEF Stop, Queued, InHands
  <2>2. Phase = "open" /\ Phase' = "closing"
    BY <1>t, <1>2 DEF Stop, Phase, ExitMeansEmpty
  <2> QED BY <2>1, <2>2 DEF Sink!SinkNext, Sink!Close
<1>3. CASE StopReturns
  <2>1. Held' = Held /\ UNCHANGED <<posted, refused>>
    BY <1>3 DEF StopReturns, Queued, InHands
  <2>2. Phase = "closing" /\ Phase' = "closed"
    BY <1>t, <1>3 DEF StopReturns, Phase, ExitMeansEmpty
  <2>3. Held = {}
    <3>1. InHands = {}
      BY <1>h, <1>3 DEF StopReturns, InHands
    <3>2. queue = <<>>
      BY <1>t, <1>3 DEF StopReturns, ExitMeansEmpty
    <3> QED BY <3>1, <3>2 DEF Queued
  <2> QED BY <2>1, <2>2, <2>3 DEF Sink!SinkNext, Sink!Finish
<1>4. ASSUME NEW e \in Events, Dispatch(e)
      PROVE  Sink!SinkNext
  <2>1. /\ e \notin Queued \cup InHands \cup posted \cup refused
        /\ InHands' = InHands
        /\ UNCHANGED <<running, stopChan, worker, stopper, posted>>
        /\ \/ running /\ Queued' = Queued \cup {e} /\ refused' = refused
           \/ Queued' = Queued /\ refused' = refused \cup {e}
    BY <1>t, <1>4, DispatchEffect
  <2>2. Sink!Fresh(e) /\ Phase' = Phase
    BY <1>p, <2>1 DEF Sink!Fresh
  <2>3. CASE running /\ Queued' = Queued \cup {e} /\ refused' = refused
    <3>1. Phase = "open"
      BY <1>t, <2>3 DEF Phase, ExitMeansEmpty
    <3>2. Sink!Take(e)
      BY <2>1, <2>2, <2>3, <3>1 DEF Sink!Take
    <3> QED BY <3>2 DEF Sink!SinkNext
  <2>4. CASE Queued' = Queued /\ refused' = refused \cup {e}
    <3>1. Sink!Refuse(e)
      BY <2>1, <2>2, <2>4 DEF Sink!Refuse
    <3> QED BY <3>1 DEF Sink!SinkNext
  <2> QED BY <2>1, <2>3, <2>4
<1>5. ASSUME NEW w \in Workers, NEW step \in {"send", "flush"}, TakeInto(w, step),
             worker[w].at \in {"select", "receive"}
      PROVE  UNCHANGED <<Phase, Held, posted, refused>>
  <2>1. PICK e \in Queued :
           /\ Queued' = Queued \ {e} /\ InHands' = InHands \cup {e}
           /\ UNCHANGED <<running, stopChan, stopper, posted, refused>>
    BY <1>t, <1>h, <1>5, TakeIntoEffect DEF Steps
  <2> QED BY <1>p, <2>1
<1>6. ASSUME NEW w \in Workers, NEW step \in Steps, Move(w, step),
             worker[w].at \in {"select", "drain", "receive"}
      PROVE  UNCHANGED <<Phase, Held, posted, refused>>
  BY <1>t, <1>h, <1>p, <1>6, MoveEffect
<1>7. ASSUME NEW w \in Workers, Send(w) PROVE Sink!SinkNext
  <2>1. PICK e \in InHands :
           /\ e \in Events
           /\ InHands' = InHands \ {e} /\ Queued' = Queued
           /\ posted' = posted \cup {e}
           /\ UNCHANGED <<running, stopChan, queue, stopper, refused>>
    BY <1>t, <1>7, SendEffect
  <2>2. e \notin Queued /\ e \in Held /\ Held' = Held \ {e}
    BY <1>t, <2>1 DEF NoCopies
  <2>3. Phase # "closed" /\ Phase' = Phase
    BY <1>t, <1>7, <1>p, <2>1 DEF Phase, Send, ExitMeansEmpty
  <2>4. Sink!Post(e)
    BY <2>1, <2>2, <2>3 DEF Sink!Post
  <2> QED BY <2>1, <2>4 DEF Sink!SinkNext
<1>8. ASSUME NEW w \in Workers, Work(w)
      PROVE  Sink!SinkNext \/ UNCHANGED <<Phase, Held, posted, refused>>
  <2> HIDE DEF Held
  <2>1. CASE SelectEvent(w)
    BY <1>5, <2>1 DEF SelectEvent
  <2>2. CASE SelectStop(w)
    BY <1>6, <2>2 DEF SelectStop, Steps
  <2>3. CASE DrainTest(w)
    BY <1>6, <2>3 DEF DrainTest, Steps
  <2>4. CASE DrainReceive(w)
    BY <1>5, <1>6, <2>4 DEF DrainReceive, Steps
  <2>5. CASE Send(w)
    BY <1>7, <2>5
  <2> QED BY <1>8, <2>1, <2>2, <2>3, <2>4, <2>5 DEF Work
<1>9. CASE UNCHANGED vars
  BY <1>9 DEF vars, Phase, Queued, InHands
<1> QED
  <2> HIDE DEF Held
  <2> QED BY <1>1, <1>2, <1>3, <1>4, <1>8, <1>9 DEF Next

\* The pool of workers implements the event sink its callers rely on.
THEOREM PoolImplementsSink == Spec => ImplementsSink
<1>1. Init => Sink!SinkInit
  <2> SUFFICES ASSUME Init PROVE Sink!SinkInit
    OBVIOUS
  <2>1. queue = <<>> /\ InHands = {}
    BY DEF Init, InHands, At
  <2>2. Queued \cup InHands = {}
    BY <2>1 DEF Queued
  <2> QED BY <2>2 DEF Init, Phase, Sink!SinkInit
<1> QED BY <1>1, SinkStep, PoolInvariant, PTL DEF Spec, ImplementsSink, Sink!SinkSpec
=============================================================================
