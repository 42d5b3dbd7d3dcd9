------------------------------- MODULE RWMutex -------------------------------
(***************************************************************************)
(* Go's sync.RWMutex as values: a lock, and what each call makes of it.    *)
(* A writer that waits shuts out new readers, also one that reads already; *)
(* when it unlocks, the readers that were parked meanwhile all enter.      *)
(***************************************************************************)
EXTENDS Naturals

Nobody == << >>  \* threads are non-empty tuples

\* "holds" counts the read locks of each thread; "writer" has called Lock and
\* is past the writers' own mutex; "active" says that it has the lock.
Mutexes(threads) ==
  [holds : [threads -> 0 .. 2], parked : SUBSET threads,
   writer : threads \cup {Nobody}, active : BOOLEAN]

Unheld(threads) ==
  [holds |-> [t \in threads |-> 0], parked |-> {}, writer |-> Nobody,
   active |-> FALSE]

NoReaders(holds) == \A t \in DOMAIN holds : holds[t] = 0

\* RLock by t: it reads, or it is parked behind the writer.
RLocked(m, t) ==
  IF m.writer = Nobody THEN [m EXCEPT !.holds[t] = @ + 1]
                       ELSE [m EXCEPT !.parked = @ \cup {t}]

RUnlocked(m, t) ==
  LET holds == [m.holds EXCEPT ![t] = @ - 1] IN
  [m EXCEPT !.holds = holds, !.active = m.writer # Nobody /\ NoReaders(holds)]

\* Lock by t, possible when no other writer is in.
CanLock(m) == m.writer = Nobody

Locked(m, t) == [m EXCEPT !.writer = t, !.active = NoReaders(m.holds)]

Unlocked(m) ==
  [holds |-> [t \in DOMAIN m.holds |->
                IF t \in m.parked THEN m.holds[t] + 1 ELSE m.holds[t]],
   parked |-> {}, writer |-> Nobody, active |-> FALSE]

Writes(m, t) == m.writer = t /\ m.active
=============================================================================
