---------------------------- MODULE ClusterProofs ----------------------------
(***************************************************************************)
(* For any servers, edges, sockets, users and any number of rooms and      *)
(* events, and wherever a node stops: the registries name rooms that are   *)
(* open or nodes that have stopped since, no client is sent an event twice *)
(* in one place or loses one, and offers are answered once.                *)
(***************************************************************************)
EXTENDS Cluster, SequenceTheorems, FiniteSetTheorems, TLAPS

-----------------------------------------------------------------------------
(* Queues: what is in them, and what Append and Tail do to it. *)

Elements(q) == {q[i] : i \in DOMAIN q}
Distinct(q) == \A i, j \in DOMAIN q : q[i] = q[j] => i = j
Increasing(q) == \A i, j \in DOMAIN q : i < j => q[i] < q[j]

LEMMA EmptyQueue ==
    /\ Elements(<< >>) = {} /\ Distinct(<< >>) /\ Increasing(<< >>)
    /\ \A S : << >> \in Seq(S)
BY DEF Elements, Distinct, Increasing

LEMMA FunctionIsQueue ==
    ASSUME NEW S, NEW n \in Nat, NEW q \in [1..n -> S]
    PROVE  q \in Seq(S) /\ Len(q) = n
<1>1. q \in Seq(S)
  BY SeqDef
<1> QED BY <1>1, LenProperties

LEMMA ElementsType ==
    ASSUME NEW S, NEW q \in Seq(S)
    PROVE  Elements(q) \subseteq S
BY LenProperties, ElementOfSeq DEF Elements

\* An element that is new goes to the end.
LEMMA AppendQueue ==
    ASSUME NEW S, NEW q \in Seq(S), NEW x \in S
    PROVE  /\ Append(q, x) \in Seq(S)
           /\ Elements(Append(q, x)) = Elements(q) \cup {x}
           /\ Distinct(q) /\ x \notin Elements(q) => Distinct(Append(q, x))
<1>1. /\ Append(q, x) \in Seq(S) /\ Len(Append(q, x)) = Len(q) + 1 /\ Len(q) \in Nat
      /\ DOMAIN q = 1..Len(q) /\ DOMAIN Append(q, x) = 1..(Len(q) + 1)
      /\ \A i \in 1..Len(q) : Append(q, x)[i] = q[i]
      /\ Append(q, x)[Len(q) + 1] = x
  BY LenProperties
<1>2. \A i \in 1..(Len(q) + 1) : i \in 1..Len(q) \/ i = Len(q) + 1
  BY <1>1
<1>3. 1..(Len(q) + 1) = 1..Len(q) \cup {Len(q) + 1}
  BY <1>1
<1>4. Elements(Append(q, x)) = Elements(q) \cup {x}
  BY <1>1, <1>3 DEF Elements
<1>5. ASSUME Distinct(q), x \notin Elements(q) PROVE Distinct(Append(q, x))
  BY <1>1, <1>2, <1>5 DEF Distinct, Elements
<1> QED
  BY <1>1, <1>4, <1>5

\* The first element goes.
LEMMA TailQueue ==
    ASSUME NEW S, NEW q \in Seq(S), q # << >>
    PROVE  /\ Tail(q) \in Seq(S) /\ Head(q) \in S /\ Head(q) \in Elements(q)
           /\ Elements(q) = Elements(Tail(q)) \cup {Head(q)}
           /\ Distinct(q) => Distinct(Tail(q)) /\ Head(q) \notin Elements(Tail(q))
<1>1. /\ Tail(q) \in Seq(S) /\ Head(q) \in S /\ Head(q) = q[1]
      /\ Len(q) \in Nat \ {0} /\ Len(Tail(q)) = Len(q) - 1
      /\ DOMAIN q = 1..Len(q) /\ DOMAIN Tail(q) = 1..(Len(q) - 1)
      /\ \A i \in 1..(Len(q) - 1) : Tail(q)[i] = q[i + 1] /\ i + 1 \in 1..Len(q)
      /\ 1 \in 1..Len(q)
  BY HeadTailProperties, LenProperties, EmptySeq
<1>2. \A i \in 1..Len(q) : i = 1 \/ (i - 1 \in 1..(Len(q) - 1) /\ (i - 1) + 1 = i)
  BY <1>1
<1>3. Elements(Tail(q)) \cup {Head(q)} \subseteq Elements(q)
  BY <1>1 DEF Elements
<1>4. Elements(q) \subseteq Elements(Tail(q)) \cup {Head(q)}
  <2> SUFFICES ASSUME NEW i \in 1..Len(q)
               PROVE  q[i] \in Elements(Tail(q)) \cup {Head(q)}
    BY <1>1 DEF Elements
  <2>1. CASE i = 1
    BY <2>1, <1>1
  <2>2. CASE i # 1
    <3>1. i - 1 \in DOMAIN Tail(q) /\ Tail(q)[i - 1] = q[i]
      BY <2>2, <1>1, <1>2
    <3> QED BY <3>1 DEF Elements
  <2> QED BY <2>1, <2>2
<1>5. ASSUME Distinct(q) PROVE Distinct(Tail(q)) /\ Head(q) \notin Elements(Tail(q))
  <2>1. \A i \in 1..(Len(q) - 1) : i + 1 # 1
    BY <1>1
  <2>2. \A i, j \in 1..(Len(q) - 1) : i + 1 = j + 1 => i = j
    BY <1>1
  <2>3. Distinct(Tail(q))
    BY <1>1, <1>5, <2>2 DEF Distinct
  <2>4. Head(q) \notin Elements(Tail(q))
    BY <1>1, <1>5, <2>1 DEF Distinct, Elements
  <2> QED BY <2>3, <2>4
<1> QED
  BY <1>1, <1>3, <1>4, <1>5

\* Numbers in their order.
LEMMA AppendIncreasing ==
    ASSUME NEW S \in SUBSET Nat, NEW q \in Seq(S), Increasing(q),
           NEW x \in S, \A e \in Elements(q) : e < x
    PROVE  Increasing(Append(q, x))
<1>1. /\ Len(q) \in Nat
      /\ DOMAIN q = 1..Len(q) /\ DOMAIN Append(q, x) = 1..(Len(q) + 1)
      /\ \A i \in 1..Len(q) : Append(q, x)[i] = q[i] /\ q[i] \in Elements(q)
      /\ Append(q, x)[Len(q) + 1] = x
  BY LenProperties DEF Elements
<1> SUFFICES ASSUME NEW i \in 1..(Len(q) + 1), NEW j \in 1..(Len(q) + 1), i < j
             PROVE  Append(q, x)[i] < Append(q, x)[j]
  BY <1>1 DEF Increasing
<1>2. i \in 1..Len(q)
  BY <1>1
<1>3. CASE j \in 1..Len(q)
  BY <1>1, <1>2, <1>3 DEF Increasing
<1>4. CASE j = Len(q) + 1
  BY <1>1, <1>2, <1>4
<1> QED BY <1>1, <1>3, <1>4

LEMMA TailIncreasing ==
    ASSUME NEW S \in SUBSET Nat, NEW q \in Seq(S), q # << >>, Increasing(q)
    PROVE  Increasing(Tail(q)) /\ Distinct(q) /\ \A e \in Elements(Tail(q)) : Head(q) < e
<1>1. /\ Head(q) = q[1] /\ Len(q) \in Nat \ {0}
      /\ DOMAIN q = 1..Len(q) /\ DOMAIN Tail(q) = 1..(Len(q) - 1)
      /\ \A i \in 1..(Len(q) - 1) : Tail(q)[i] = q[i + 1] /\ i + 1 \in 1..Len(q)
      /\ 1 \in 1..Len(q)
  BY HeadTailProperties, LenProperties, EmptySeq
<1> \A i \in 1..Len(q) : q[i] \in Nat
  BY ElementOfSeq
<1>2. Increasing(Tail(q))
  <2>1. \A i, j \in 1..(Len(q) - 1) : i < j => i + 1 < j + 1
    BY <1>1
  <2> QED BY <1>1, <2>1 DEF Increasing
<1>3. Distinct(q)
  <2> SUFFICES ASSUME NEW i \in 1..Len(q), NEW j \in 1..Len(q), q[i] = q[j], i # j
               PROVE  FALSE
    BY <1>1 DEF Distinct
  <2>1. i < j \/ j < i
    OBVIOUS
  <2> QED BY <1>1, <2>1 DEF Increasing
<1>4. \A i \in 1..(Len(q) - 1) : q[1] < q[i + 1]
  <2>1. \A i \in 1..(Len(q) - 1) : 1 < i + 1
    BY <1>1
  <2> QED BY <1>1, <2>1 DEF Increasing
<1> QED BY <1>1, <1>2, <1>3, <1>4 DEF Elements


\* Pairs of an event and a place: the events in a queue of them.
Firsts(q) == {q[i][1] : i \in DOMAIN q}
InOrder(q) == \A i, j \in DOMAIN q : i < j => q[i][1] <= q[j][1]

LEMMA EmptyPairs == Firsts(<< >>) = {} /\ InOrder(<< >>)
BY DEF Firsts, InOrder

\* A pair that is new goes to the end.
LEMMA AppendPair ==
    ASSUME NEW T, NEW q \in Seq(T), NEW x \in T, \A z \in T : z[1] \in Nat
    PROVE  /\ Append(q, x) \in Seq(T)
           /\ Elements(Append(q, x)) = Elements(q) \cup {x}
           /\ Firsts(Append(q, x)) = Firsts(q) \cup {x[1]}
           /\ Distinct(q) /\ x \notin Elements(q) => Distinct(Append(q, x))
           /\ InOrder(q) /\ (\A d \in Firsts(q) : d <= x[1]) => InOrder(Append(q, x))
<1> DEFINE e == x[1]
<1>1. x[1] = e /\ e <= e
  OBVIOUS
<1> HIDE DEF e
<1>2. /\ Append(q, x) \in Seq(T)
      /\ Elements(Append(q, x)) = Elements(q) \cup {x}
      /\ Distinct(q) /\ x \notin Elements(q) => Distinct(Append(q, x))
  BY AppendQueue
<1>3. /\ Len(Append(q, x)) = Len(q) + 1 /\ Len(q) \in Nat
      /\ DOMAIN q = 1..Len(q) /\ DOMAIN Append(q, x) = 1..(Len(q) + 1)
      /\ \A i \in 1..Len(q) : Append(q, x)[i] = q[i]
      /\ Append(q, x)[Len(q) + 1] = x
  BY LenProperties
<1>4. 1..(Len(q) + 1) = 1..Len(q) \cup {Len(q) + 1}
  BY <1>3
<1>5. Firsts(Append(q, x)) = Firsts(q) \cup {e}
  BY <1>1, <1>3, <1>4 DEF Firsts
<1>6. ASSUME InOrder(q), \A d \in Firsts(q) : d <= e PROVE InOrder(Append(q, x))
  <2> SUFFICES ASSUME NEW i \in 1..(Len(q) + 1), NEW j \in 1..(Len(q) + 1), i < j
               PROVE  Append(q, x)[i][1] <= Append(q, x)[j][1]
    BY <1>3 DEF InOrder
  <2>1. i \in 1..Len(q)
    BY <1>3
  <2>2. CASE j \in 1..Len(q)
    BY <1>3, <1>6, <2>1, <2>2 DEF InOrder
  <2>3. CASE j = Len(q) + 1
    <3>1. q[i][1] \in Firsts(q)
      BY <1>3, <2>1 DEF Firsts
    <3> QED BY <1>1, <1>3, <1>6, <2>1, <2>3, <3>1
  <2> QED BY <1>3, <2>2, <2>3
<1> QED BY <1>2, <1>5, <1>6 DEF e

LEMMA ConcatPairs ==
    ASSUME NEW S, NEW q \in Seq(S), NEW x \in S, NEW y \in S
    PROVE  /\ q \o (<< >> \o << >>) = q
           /\ q \o (<<x>> \o << >>) = Append(q, x)
           /\ q \o (<< >> \o <<y>>) = Append(q, y)
           /\ q \o (<<x>> \o <<y>>) = Append(Append(q, x), y)
<1>1. << >> \in Seq(S) /\ <<x>> \in Seq(S) /\ <<y>> \in Seq(S)
  OBVIOUS
<1>2. << >> \o << >> = << >> /\ <<x>> \o << >> = <<x>> /\ << >> \o <<y>> = <<y>>
  BY <1>1, ConcatEmptySeq
<1>3. q \o << >> = q
  BY ConcatEmptySeq
<1>4. \A r \in Seq(S), z \in S : r \o <<z>> = Append(r, z)
  BY AppendIsConcat
<1>5. q \o (<<x>> \o <<y>>) = (q \o <<x>>) \o <<y>>
  BY <1>1, ConcatAssociative
<1>6. Append(q, x) \in Seq(S)
  BY AppendQueue
<1> QED BY <1>2, <1>3, <1>4, <1>5, <1>6

LEMMA SubscribeRoomType ==
    ASSUME TypeOK, NEW n \in Nodes, SubscribeRoom(n)
    PROVE  /\ subs' \in [Nodes -> Seq(Sub)]
           /\ current' \in [Nodes -> Nat] /\ \A k \in Nodes : current'[k] <= Len(subs'[k])
<1>1. CASE current[n] # 0
  BY <1>1 DEF TypeOK, SubscribeRoom
<1>2. CASE current[n] = 0
  <2>1. [live |-> TRUE, inbox |-> << >>] \in Sub
    BY EmptyQueue DEF Sub
  <2>2. /\ subs' = [subs EXCEPT ![n] = Append(@, [live |-> TRUE, inbox |-> << >>])]
        /\ current' = [current EXCEPT ![n] = Len(subs[n]) + 1]
    BY <1>2 DEF SubscribeRoom
  <2>3. /\ subs[n] \in Seq(Sub) /\ Len(subs[n]) \in Nat
        /\ Append(subs[n], [live |-> TRUE, inbox |-> << >>]) \in Seq(Sub)
        /\ Len(Append(subs[n], [live |-> TRUE, inbox |-> << >>])) = Len(subs[n]) + 1
    BY <2>1, AppendQueue DEF TypeOK
  <2>4. /\ subs \in [Nodes -> Seq(Sub)] /\ current \in [Nodes -> Nat]
        /\ \A k \in Nodes : current[k] <= Len(subs[k])
    BY DEF TypeOK
  <2> QED
    BY <2>2, <2>3, <2>4
<1> QED BY <1>1, <1>2

\* A node that subscribes is subscribed; the others are as they were.
LEMMA SubscribeRoomCurrent ==
    ASSUME TypeOK, NEW n \in Nodes, SubscribeRoom(n)
    PROVE  current'[n] # 0 /\ \A k \in Nodes \ {n} : current'[k] = current[k]
<1>1. subs[n] \in Seq(Sub) /\ current \in [Nodes -> Nat]
  BY DEF TypeOK
<1>2. Len(subs[n]) + 1 # 0
  <2>1. Len(subs[n]) \in Nat
    BY <1>1, LenProperties
  <2> QED BY <2>1
<1>3. current' = current \/ current' = [current EXCEPT ![n] = Len(subs[n]) + 1]
  BY DEF SubscribeRoom
<1>4. CASE current[n] # 0
  BY <1>4 DEF SubscribeRoom
<1>5. CASE current[n] = 0
  BY <1>1, <1>2, <1>5 DEF SubscribeRoom
<1> QED BY <1>4, <1>5

LEMMA UnsubscribeRoomType ==
    ASSUME TypeOK, NEW n \in Nodes, UnsubscribeRoom(n)
    PROVE  /\ subs' \in [Nodes -> Seq(Sub)]
           /\ current' \in [Nodes -> Nat] /\ \A k \in Nodes : current'[k] <= Len(subs'[k])
<1>1. CASE current[n] = 0
  BY <1>1 DEF TypeOK, UnsubscribeRoom
<1>2. CASE current[n] # 0
  <2> DEFINE i == current[n]
             sub == [subs[n][i] EXCEPT !.live = FALSE]
             q == [subs[n] EXCEPT ![i] = sub]
  <2>1. subs[n] \in Seq(Sub) /\ i \in 1..Len(subs[n]) /\ Len(subs[n]) \in Nat
    <3>1. subs[n] \in Seq(Sub) /\ i \in Nat /\ i <= Len(subs[n])
      BY DEF TypeOK
    <3> HIDE DEF i
    <3> QED BY <1>2, <3>1, LenProperties DEF i
  <2>2. subs[n][i] \in Sub
    BY <2>1, ElementOfSeq
  <2> sub \in Sub
    BY <2>2 DEF Sub
  <2>3. q \in Seq(Sub) /\ Len(q) = Len(subs[n])
    BY <2>1, ExceptSeq
  <2>4. subs' = [subs EXCEPT ![n] = q] /\ current' = [current EXCEPT ![n] = 0]
    BY <1>2 DEF UnsubscribeRoom, TypeOK
  <2> HIDE DEF q
  <2>5. /\ subs \in [Nodes -> Seq(Sub)] /\ current \in [Nodes -> Nat]
        /\ \A k \in Nodes : current[k] <= Len(subs[k])
    BY DEF TypeOK
  <2> QED
    BY <2>1, <2>3, <2>4, <2>5
<1> QED BY <1>1, <1>2

LEMMA PublishType ==
    ASSUME TypeOK, NEW u \in Users, NEW m \in Message, Publish(u, m)
    PROVE  returned' \in [Nodes -> [Users -> Seq(Message)]]
<1>1. \A n \in Nodes : Append(returned[n][u], m) \in Seq(Message)
  BY AppendQueue DEF TypeOK
<1> QED
  BY <1>1 DEF TypeOK, Publish

\* Whoever is a client still is owed what it was.
LEMMA ForgetOwed ==
    ASSUME TypeOK, Forget
    PROVE  /\ owed' \in [Sockets -> SUBSET (1..MaxEvents)]
           /\ \A s \in Sockets : owed'[s] = IF IsClient(s)' THEN owed[s] ELSE {}
<1>1. owed \in [Sockets -> SUBSET (1..MaxEvents)]
  BY DEF TypeOK
<1>2. owed' = [s \in Sockets |-> IF IsClient(s)' THEN owed[s] ELSE {}]
  BY DEF Forget
<1>3. \A s \in Sockets : owed'[s] = IF IsClient(s)' THEN owed[s] ELSE {}
  BY <1>2
<1>4. \A s \in Sockets : owed'[s] \in SUBSET (1..MaxEvents)
  BY <1>1, <1>3
<1> QED BY <1>2, <1>3, <1>4

LEMMA EndType ==
    ASSUME TypeOK, NEW S, End(S)
    PROVE  /\ step' \in [Sockets -> Steps]
           /\ got' \in [Sockets -> Seq((1..MaxEvents) \X Places)]
           /\ relayed' \in [Sockets -> Seq(Message)]
<1>1. "left" \in Steps /\ << >> \in Seq((1..MaxEvents) \X Places) /\ << >> \in Seq(Message)
  BY EmptyQueue DEF Steps
<1>2. /\ step \in [Sockets -> Steps] /\ relayed \in [Sockets -> Seq(Message)]
      /\ got \in [Sockets -> Seq((1..MaxEvents) \X Places)]
  BY DEF TypeOK
<1>3. /\ step' = [s \in Sockets |-> IF s \in S THEN "left" ELSE step[s]]
      /\ got' = [s \in Sockets |-> IF s \in S THEN << >> ELSE got[s]]
      /\ relayed' = [s \in Sockets |-> IF s \in S THEN << >> ELSE relayed[s]]
  BY DEF End
<1> QED BY <1>1, <1>2, <1>3

LEMMA ClearRoomType ==
    ASSUME TypeOK, NEW n \in Nodes, ClearRoom(n)
    PROVE  /\ open' \in [Nodes -> BOOLEAN] /\ busy' \in [Nodes -> Busy]
           /\ hostID' \in [Nodes -> Users \cup {None}]
           /\ hostClient' \in [Nodes -> Sockets \cup {None}]
           /\ viewers' \in [Nodes -> SUBSET Sockets]
<1>1. /\ open \in [Nodes -> BOOLEAN] /\ busy \in [Nodes -> Busy] /\ "no" \in Busy
      /\ hostID \in [Nodes -> Users \cup {None}]
      /\ hostClient \in [Nodes -> Sockets \cup {None}]
      /\ viewers \in [Nodes -> SUBSET Sockets]
  BY DEF TypeOK, Busy
<1>2. /\ open' = [open EXCEPT ![n] = FALSE] /\ busy' = [busy EXCEPT ![n] = "no"]
      /\ hostID' = [hostID EXCEPT ![n] = None]
      /\ hostClient' = [hostClient EXCEPT ![n] = None]
      /\ viewers' = [viewers EXCEPT ![n] = {}]
  BY DEF ClearRoom, Then
<1> QED BY <1>1, <1>2

\* What the listener of a node sends to one of its clients.
LEMMA SentType ==
    ASSUME TypeOK, NEW s \in Sockets, NEW e \in 1..MaxEvents
    PROVE  got[s] \o Sent(s, e) \in Seq((1..MaxEvents) \X Places)
<1> DEFINE S == (1..MaxEvents) \X Places
<1>1. <<e, "host">> \in S /\ <<e, "viewer">> \in S
  BY DEF Places
<1> HIDE DEF S
<1>2. Sent(s, e) \in Seq(S)
  BY <1>1, EmptyQueue, ConcatProperties DEF Sent
<1>3. got[s] \in Seq(S)
  BY DEF TypeOK, S
<1> QED BY <1>2, <1>3, ConcatProperties DEF S

LEMMA TypeOfStep ==
    ASSUME TypeOK, [Next]_vars
    PROVE  TypeOK'
<1> USE ClusterAssumption DEF ClusterAssumption
<1>1. CASE UNCHANGED vars
  BY <1>1 DEF TypeOK, vars, rooms, registry, channels, signalling, handlers
<1>2. ASSUME NEW n \in Nodes, CreateRoom(n) PROVE TypeOK'
  <2>1. SubscribeRoom(n)
    BY <1>2 DEF CreateRoom
  <2>2. /\ subs' \in [Nodes -> Seq(Sub)]
        /\ current' \in [Nodes -> Nat] /\ \A k \in Nodes : current'[k] <= Len(subs'[k])
    BY <2>1, SubscribeRoomType
  <2>3. /\ opens' \in [Nodes -> Nat] /\ opens'[n] = opens[n] + 1
        /\ \A k \in Nodes : opens'[k] <= Len(Hosts[k])
    <3>1. /\ opens \in [Nodes -> Nat] /\ \A k \in Nodes : opens[k] <= Len(Hosts[k])
      BY DEF TypeOK
    <3>2. opens[n] < Len(Hosts[n]) /\ opens' = [opens EXCEPT ![n] = @ + 1]
      BY <1>2 DEF CreateRoom
    <3>3. Len(Hosts[n]) \in Nat
      BY LenProperties
    <3> QED BY <3>1, <3>2, <3>3
  <2>4. open' \in [Nodes -> BOOLEAN] /\ busy' \in [Nodes -> Busy]
    BY <1>2 DEF TypeOK, CreateRoom, Then, Busy
  <2>5. hostID' \in [Nodes -> Users \cup {None}]
    <3>1. PICK u \in Hosts[n][opens'[n]] : hostID' = [hostID EXCEPT ![n] = u]
      BY <1>2 DEF CreateRoom
    <3>2. Hosts[n] \in Seq(SUBSET (Users \cup {None})) /\ opens'[n] \in 1..Len(Hosts[n])
      <4>1. opens[n] \in Nat /\ Hosts[n] \in Seq(SUBSET (Users \cup {None}))
        BY DEF TypeOK
      <4>2. Len(Hosts[n]) \in Nat /\ opens'[n] <= Len(Hosts[n])
        BY <2>3, <4>1, LenProperties
      <4> QED BY <2>3, <4>1, <4>2
    <3>3. Hosts[n][opens'[n]] \subseteq Users \cup {None}
      BY <3>2, ElementOfSeq
    <3> QED BY <3>1, <3>3 DEF TypeOK
  <2> QED
    BY <1>2, <2>2, <2>3, <2>4, <2>5 DEF TypeOK, CreateRoom, registry, signalling, handlers
<1>3. ASSUME NEW n \in Nodes, SetRoomNodeMap(n) PROVE TypeOK'
  BY <1>3 DEF TypeOK, SetRoomNodeMap, Then, Busy, channels, signalling, handlers
<1>4. ASSUME NEW n \in Nodes, RegisterRoomOrigin(n) PROVE TypeOK'
  BY <1>4 DEF TypeOK, RegisterRoomOrigin, Then, Busy, channels, handlers
<1>5. ASSUME NEW n \in Nodes, CloseRoom(n) PROVE TypeOK'
  <2>1. UnsubscribeRoom(n)
    BY <1>5 DEF CloseRoom
  <2> QED
    BY <1>5, <2>1, UnsubscribeRoomType DEF TypeOK, CloseRoom, Then, Busy,
       registry, signalling, handlers
<1>6. ASSUME NEW n \in Nodes, RemoveRoomOrigin(n) PROVE TypeOK'
  BY <1>6 DEF TypeOK, RemoveRoomOrigin, Then, Busy, channels, signalling, handlers
<1>7. ASSUME NEW n \in Nodes, UnlinkAllRoomKeys(n) PROVE TypeOK'
  <2>1. /\ ClearRoom(n) /\ ShutSockets(n) /\ Forget
        /\ nodeMap' = None /\ orphans' = orphans \ {"nodeMap"}
        /\ UNCHANGED <<opens, origin, subs, current, events, got, signalling, remote>>
    BY <1>7 DEF UnlinkAllRoomKeys
  <2>2. step' \in [Sockets -> Steps]
    <3>1. step \in [Sockets -> Steps] /\ "gone" \in Steps
      BY DEF TypeOK, Steps
    <3> QED BY <2>1, <3>1 DEF ShutSockets
  <2>3. /\ open' \in [Nodes -> BOOLEAN] /\ busy' \in [Nodes -> Busy]
        /\ hostID' \in [Nodes -> Users \cup {None}]
        /\ hostClient' \in [Nodes -> Sockets \cup {None}]
        /\ viewers' \in [Nodes -> SUBSET Sockets]
    BY <2>1, ClearRoomType
  <2>4. owed' \in [Sockets -> SUBSET (1..MaxEvents)]
    BY <2>1, ForgetOwed
  <2>5. orphans' \subseteq {"nodeMap", "origin"} /\ nodeMap' \in Nodes \cup {None}
    BY <2>1 DEF TypeOK
  <2>6. UNCHANGED <<opens, origin, subs, current, events, got, pattern, offered, relay, returned,
                    relayed, remote>>
    BY <2>1 DEF signalling
  <2> QED BY <2>2, <2>3, <2>4, <2>5, <2>6 DEF TypeOK
<1>8. ASSUME NEW s \in Sockets, FindRoom(s) \/ GetRoomNodeMap(s) PROVE TypeOK'
  <2>1. step' \in [Sockets -> Steps] /\ remote' \subseteq Sockets
    BY <1>8 DEF TypeOK, FindRoom, GetRoomNodeMap, Go, Steps
  <2>2. UNCHANGED <<rooms, registry, channels, signalling>>
    BY <1>8 DEF FindRoom, GetRoomNodeMap
  <2> QED BY <2>1, <2>2 DEF TypeOK, rooms, registry, channels, signalling
<1>9. ASSUME NEW s \in Sockets, SetHostClient(s) PROVE TypeOK'
  <2>1. /\ hostClient' = [hostClient EXCEPT ![NodeOf[s]] = s] /\ Forget
        /\ UNCHANGED <<open, opens, busy, hostID, viewers, registry, subs, current, events, got,
                       signalling, handlers>>
    BY <1>9 DEF SetHostClient
  <2>2. hostClient' \in [Nodes -> Sockets \cup {None}]
    BY <2>1 DEF TypeOK
  <2> QED BY <2>1, <2>2, ForgetOwed DEF TypeOK, registry, signalling, handlers
<1>10. ASSUME NEW s \in Sockets, HandleClientDisconnect(s) PROVE TypeOK'
  <2>1. /\ End({s}) /\ remote' = remote \ {s} /\ Forget
        /\ hostClient' = IF hostID[NodeOf[s]] = UserOf[s]
                           THEN [hostClient EXCEPT ![NodeOf[s]] = None] ELSE hostClient
        /\ UNCHANGED <<open, opens, busy, hostID, viewers, registry, subs, current, events, pattern,
                       offered, relay, returned>>
    BY <1>10 DEF HandleClientDisconnect
  <2>2. hostClient' \in [Nodes -> Sockets \cup {None}]
    BY <2>1 DEF TypeOK
  <2> QED BY <2>1, <2>2, EndType, ForgetOwed DEF TypeOK, registry
<1>11. ASSUME NEW s \in Sockets, RemoveViewer(s) PROVE TypeOK'
  BY <1>11 DEF TypeOK, RemoveViewer, registry, channels, signalling, handlers
<1>12. ASSUME NEW s \in Sockets, JoinViewer(s) PROVE TypeOK'
  <2>1. /\ Go(s, "join", IF open[NodeOf[s]] THEN "subscribe" ELSE Onward(s)) /\ Forget
        /\ viewers' = IF open[NodeOf[s]]
                        THEN [viewers EXCEPT ![NodeOf[s]] = {t \in @ : UserOf[t] # UserOf[s]} \cup {s}]
                        ELSE viewers
        /\ UNCHANGED <<open, opens, busy, hostID, hostClient, registry, subs, current, events, got,
                       signalling, remote>>
    BY <1>12 DEF JoinViewer
  <2>2. step' \in [Sockets -> Steps]
    BY <2>1 DEF TypeOK, Go, Onward, Steps
  <2>3. viewers' \in [Nodes -> SUBSET Sockets]
    BY <2>1 DEF TypeOK
  <2>4. owed' \in [Sockets -> SUBSET (1..MaxEvents)]
    BY <2>1, ForgetOwed
  <2>5. UNCHANGED <<open, opens, busy, hostID, hostClient, nodeMap, origin, orphans, subs, current,
                    events, got, pattern, offered, relay, returned, relayed, remote>>
    BY <2>1 DEF registry, signalling
  <2> QED BY <2>2, <2>3, <2>4, <2>5 DEF TypeOK
<1>13. ASSUME NEW s \in Sockets, JoinSubscribes(s) PROVE TypeOK'
  <2>1. SubscribeRoom(NodeOf[s]) /\ NodeOf[s] \in Nodes
    BY <1>13 DEF JoinSubscribes
  <2> QED
    BY <1>13, <2>1, SubscribeRoomType DEF TypeOK, JoinSubscribes, Go, Onward, Steps,
       rooms, registry, signalling
<1>14. ASSUME NEW s \in Sockets, PublishOffer(s) PROVE TypeOK'
  <2>1. /\ Publish(UserOf[s], [event |-> "offer", by |-> UserOf[s], offerer |-> s])
        /\ UserOf[s] \in Users
        /\ [event |-> "offer", by |-> UserOf[s], offerer |-> s] \in Message
    BY <1>14 DEF PublishOffer, Message
  <2>2. returned' \in [Nodes -> [Users -> Seq(Message)]]
    BY <2>1, PublishType
  <2>3. \A n \in Nodes : Append(offered[n], s) \in Seq(Sockets)
    BY AppendQueue DEF TypeOK
  <2>4. /\ step' = [step EXCEPT ![s] = "relay"] /\ "relay" \in Steps
        /\ offered' = [n \in Nodes |-> IF n \in pattern THEN Append(offered[n], s) ELSE offered[n]]
        /\ UNCHANGED <<rooms, registry, channels, pattern, relay, relayed, remote>>
    BY <1>14 DEF PublishOffer, Go, Steps
  <2>5. step' \in [Sockets -> Steps] /\ offered' \in [Nodes -> Seq(Sockets)]
    BY <2>3, <2>4 DEF TypeOK
  <2> QED BY <2>2, <2>4, <2>5 DEF TypeOK, rooms, registry, channels
<1>15. ASSUME NEW s \in Sockets, SubscribeViewerSignaling(s) PROVE TypeOK'
  <2>1. /\ step' = [step EXCEPT ![s] = "in"] /\ "in" \in Steps
        /\ relay' = [relay EXCEPT ![NodeOf[s]][UserOf[s]] = IF @ = None THEN s ELSE @]
        /\ UNCHANGED <<rooms, registry, channels, pattern, offered, returned, relayed,
                       remote>>
    BY <1>15 DEF SubscribeViewerSignaling, Go, Steps
  <2>2. step' \in [Sockets -> Steps]
    BY <2>1 DEF TypeOK
  <2>3. relay' \in [Nodes -> [Users -> Sockets \cup {None}]]
    BY <2>1 DEF TypeOK
  <2> QED BY <2>1, <2>2, <2>3 DEF TypeOK, rooms, registry, channels
<1>16. ASSUME NEW n \in Nodes, AnswerOffer(n) PROVE TypeOK'
  <2> DEFINE s == Head(offered[n])
  <2>1. s \in Sockets /\ Tail(offered[n]) \in Seq(Sockets)
    BY <1>16, TailQueue DEF AnswerOffer, TypeOK
  <2>2. UserOf[s] \in Users /\ [event |-> "answer", by |-> n, offerer |-> s] \in Message
    BY <2>1 DEF Message
  <2>3. returned' \in [Nodes -> [Users -> Seq(Message)]]
    BY <1>16, <2>2, PublishType DEF AnswerOffer, TypeOK
  <2> QED
    BY <1>16, <2>1, <2>3 DEF TypeOK, AnswerOffer, rooms, registry, channels, handlers
<1>17. ASSUME NEW n \in Nodes, BroadcastToRoom(n) PROVE TypeOK'
  <2>1. events' \in 1..MaxEvents /\ events' \in 0..MaxEvents
    <3>1. events < MaxEvents /\ events' = events + 1
      BY <1>17 DEF BroadcastToRoom
    <3>2. events \in 0..MaxEvents
      BY DEF TypeOK
    <3> QED BY <3>1, <3>2
  <2>2. owed' \in [Sockets -> SUBSET (1..MaxEvents)]
    <3>1. \A t \in Sockets : owed[t] \cup {events'} \in SUBSET (1..MaxEvents)
      BY <2>1 DEF TypeOK
    <3> QED BY <1>17, <3>1 DEF BroadcastToRoom, TypeOK
  <2>3. ASSUME NEW k \in Nodes PROVE subs'[k] \in Seq(Sub) /\ Len(subs'[k]) = Len(subs[k])
    <3>1. subs[k] \in Seq(Sub) /\ Len(subs[k]) \in Nat /\ DOMAIN subs[k] = 1..Len(subs[k])
      BY LenProperties DEF TypeOK
    <3>2. subs'[k] = [i \in 1..Len(subs[k]) |->
                        IF subs[k][i].live /\ SocketsOf(k) # {}
                          THEN [subs[k][i] EXCEPT !.inbox = Append(@, events')]
                          ELSE subs[k][i]]
      BY <1>17, <3>1 DEF BroadcastToRoom
    <3>3. ASSUME NEW i \in 1..Len(subs[k]) PROVE subs'[k][i] \in Sub
      <4>1. subs[k][i] \in Sub
        BY <3>1, ElementOfSeq
      <4>2. Append(subs[k][i].inbox, events') \in Seq(1..MaxEvents)
        BY <4>1, <2>1, AppendQueue DEF Sub
      <4> QED BY <3>2, <4>1, <4>2 DEF Sub
    <3>4. subs'[k] \in [1..Len(subs[k]) -> Sub]
      BY <3>2, <3>3
    <3> QED BY <3>1, <3>4, FunctionIsQueue
  <2>4. subs' \in [Nodes -> Seq(Sub)]
    BY <1>17, <2>3 DEF BroadcastToRoom
  <2> QED
    BY <1>17, <2>1, <2>2, <2>3, <2>4 DEF TypeOK, BroadcastToRoom, rooms, registry, signalling, handlers
<1>18. ASSUME NEW n \in Nodes, Listen(n) PROVE TypeOK'
  <2>1. PICK i \in DOMAIN subs[n] :
          /\ subs[n][i].inbox # << >>
          /\ subs' = [subs EXCEPT ![n][i].inbox = Tail(@)]
          /\ LET e == Head(subs[n][i].inbox)
                 sent == {s \in Sockets : NodeOf[s] = n /\ open[n] /\ IsClient(s)}
             IN /\ got' = [s \in Sockets |-> IF s \in sent THEN got[s] \o Sent(s, e) ELSE got[s]]
                /\ owed' = [s \in Sockets |-> IF s \in sent THEN owed[s] \ {e} ELSE owed[s]]
    BY <1>18 DEF Listen
  <2> DEFINE sub == [subs[n][i] EXCEPT !.inbox = Tail(@)]
             q == [subs[n] EXCEPT ![i] = sub]
  <2>2. subs[n] \in Seq(Sub) /\ i \in 1..Len(subs[n]) /\ Len(subs[n]) \in Nat
    BY <2>1, LenProperties DEF TypeOK
  <2>3. subs[n][i] \in Sub
    BY <2>2, ElementOfSeq
  <2>4. Head(subs[n][i].inbox) \in 1..MaxEvents /\ Tail(subs[n][i].inbox) \in Seq(1..MaxEvents)
    <3>1. subs[n][i].inbox \in Seq(1..MaxEvents)
      BY <2>3 DEF Sub
    <3>2. \A S : subs[n][i].inbox \in Seq(S) =>
                 /\ Head(subs[n][i].inbox) \in S /\ Tail(subs[n][i].inbox) \in Seq(S)
      BY <2>1, TailQueue
    <3> QED BY <3>1, <3>2
  <2>5. sub \in Sub
    BY <2>3, <2>4 DEF Sub
  <2>6. q \in Seq(Sub) /\ Len(q) = Len(subs[n])
    BY <2>2, <2>5, ExceptSeq
  <2>7. subs' = [subs EXCEPT ![n] = q]
    BY <2>1 DEF TypeOK
  <2> HIDE DEF q
  <2>8. subs' \in [Nodes -> Seq(Sub)] /\ \A k \in Nodes : Len(subs'[k]) = Len(subs[k])
    BY <2>6, <2>7 DEF TypeOK
  <2>9. \A s \in Sockets : got[s] \o Sent(s, Head(subs[n][i].inbox)) \in Seq((1..MaxEvents) \X Places)
    BY <2>4, SentType
  <2>10. /\ got' \in [Sockets -> Seq((1..MaxEvents) \X Places)]
         /\ owed' \in [Sockets -> SUBSET (1..MaxEvents)]
    BY <2>1, <2>9 DEF TypeOK
  <2> QED
    BY <1>18, <2>8, <2>10 DEF TypeOK, Listen, rooms, registry, signalling, handlers
<1>19. ASSUME NEW n \in Nodes, NEW u \in Users, RelayBack(n, u) PROVE TypeOK'
  <2>1. /\ Head(returned[n][u]) \in Message /\ Tail(returned[n][u]) \in Seq(Message)
    BY <1>19, TailQueue DEF RelayBack, TypeOK
  <2>2. \A s \in Sockets : Append(relayed[s], Head(returned[n][u])) \in Seq(Message)
    BY <2>1, AppendQueue DEF TypeOK
  <2>3. returned' \in [Nodes -> [Users -> Seq(Message)]]
    BY <1>19, <2>1 DEF RelayBack, TypeOK
  <2>4. relayed' \in [Sockets -> Seq(Message)]
    BY <1>19, <2>2 DEF RelayBack, TypeOK
  <2> QED
    BY <1>19, <2>3, <2>4 DEF TypeOK, RelayBack, rooms, registry, channels, handlers
<1>20. ASSUME NEW n \in Nodes, StopNode(n) PROVE TypeOK'
  <2>1. /\ ClearRoom(n) /\ End(SocketsOf(n)) /\ Forget
        /\ orphans' \subseteq orphans \cup {"nodeMap", "origin"}
        /\ remote' = remote \ SocketsOf(n) /\ pattern' = pattern \ {n}
        /\ UNCHANGED <<opens, nodeMap, origin, events>>
    BY <1>20 DEF StopNode
  <2>2. /\ subs' = [subs EXCEPT ![n] = << >>] /\ current' = [current EXCEPT ![n] = 0]
        /\ offered' = [offered EXCEPT ![n] = << >>]
        /\ relay' = [relay EXCEPT ![n] = [u \in Users |-> None]]
        /\ returned' = [returned EXCEPT ![n] = [u \in Users |-> << >>]]
    BY <1>20 DEF StopNode
  <2>3. /\ << >> \in Seq(Sub) /\ << >> \in Seq(Sockets) /\ << >> \in Seq(Message)
        /\ Len(<< >>) = 0
    BY EmptyQueue
  <2>4. /\ subs' \in [Nodes -> Seq(Sub)]
        /\ current' \in [Nodes -> Nat] /\ \A k \in Nodes : current'[k] <= Len(subs'[k])
    <3>1. /\ subs \in [Nodes -> Seq(Sub)] /\ current \in [Nodes -> Nat]
          /\ \A k \in Nodes : current[k] <= Len(subs[k])
      BY DEF TypeOK
    <3> QED BY <2>2, <2>3, <3>1
  <2>5. /\ offered' \in [Nodes -> Seq(Sockets)]
        /\ relay' \in [Nodes -> [Users -> Sockets \cup {None}]]
        /\ returned' \in [Nodes -> [Users -> Seq(Message)]]
    BY <2>2, <2>3 DEF TypeOK
  <2> QED
    BY <2>1, <2>4, <2>5, ClearRoomType, EndType, ForgetOwed DEF TypeOK
<1> QED
  BY <1>1, <1>2, <1>3, <1>4, <1>5, <1>6, <1>7, <1>8, <1>9, <1>10, <1>11, <1>12, <1>13, <1>14,
     <1>15, <1>16, <1>17, <1>18, <1>19, <1>20
     DEF Next, Manager, Handler

LEMMA InitType == Init => TypeOK
BY ClusterAssumption, EmptyQueue
   DEF ClusterAssumption, Init, TypeOK, Busy, Steps

\* Every variable keeps its type, whatever servers, handlers and Redis do
\* (room_manager.go, client.go, redis_broker.go).
THEOREM TypeCorrect == Spec => []TypeOK
BY InitType, TypeOfStep, PTL DEF Spec

-----------------------------------------------------------------------------
(* The registries. *)

\* Whoever holds the lock of its RoomManager for Redis has the room, and whoever
\* is about to unlink the keys has removed the origin, which only a node that
\* makes the room sets again.
Registries ==
    /\ \A n \in Nodes : busy[n] # "no" => open[n]
    /\ \A n \in Nodes : busy[n] = "unlink" => origin # n
    /\ RegistryNamesOpenRooms

LEMMA RegistriesOfStep ==
    ASSUME TypeOK, Registries, [Next]_vars
    PROVE  Registries'
<1> USE ClusterAssumption DEF ClusterAssumption, Registries, RegistryNamesOpenRooms
<1>1. /\ open \in [Nodes -> BOOLEAN] /\ busy \in [Nodes -> Busy]
      /\ nodeMap \in Nodes \cup {None} /\ origin \in Nodes \cup {None}
  BY DEF TypeOK
<1>2. CASE UNCHANGED <<open, busy, registry>>
  BY <1>2 DEF registry
<1>3. ASSUME NEW n \in Nodes, CreateRoom(n) PROVE Registries'
  BY <1>1, <1>3 DEF CreateRoom, Then, registry
<1>4. ASSUME NEW n \in Nodes, SetRoomNodeMap(n) PROVE Registries'
  BY <1>1, <1>4 DEF SetRoomNodeMap, Then
<1>5. ASSUME NEW n \in Nodes, RegisterRoomOrigin(n) PROVE Registries'
  BY <1>1, <1>5 DEF RegisterRoomOrigin, Then
<1>6. ASSUME NEW n \in Nodes, CloseRoom(n) PROVE Registries'
  BY <1>1, <1>6 DEF CloseRoom, Then, registry
<1>7. ASSUME NEW n \in Nodes, RemoveRoomOrigin(n) PROVE Registries'
  BY <1>1, <1>7 DEF RemoveRoomOrigin, Then
<1>8. ASSUME NEW n \in Nodes, UnlinkAllRoomKeys(n) PROVE Registries'
  <2>1. /\ busy[n] = "unlink" /\ open' = [open EXCEPT ![n] = FALSE]
        /\ busy' = [busy EXCEPT ![n] = "no"]
        /\ nodeMap' = None /\ origin' = origin /\ orphans' = orphans \ {"nodeMap"}
    BY <1>8 DEF UnlinkAllRoomKeys, ClearRoom, Then
  <2> QED BY <1>1, <2>1
<1>9. ASSUME NEW n \in Nodes, StopNode(n) PROVE Registries'
  <2>1. /\ open' = [open EXCEPT ![n] = FALSE] /\ busy' = [busy EXCEPT ![n] = "no"]
        /\ UNCHANGED <<nodeMap, origin>>
        /\ orphans \subseteq orphans'
        /\ nodeMap = n => "nodeMap" \in orphans'
        /\ origin = n => "origin" \in orphans'
    BY <1>9 DEF StopNode, ClearRoom, Then
  <2> QED BY <1>1, <2>1
<1>10. CASE UNCHANGED vars
  BY <1>2, <1>10 DEF vars, rooms
<1>11. ASSUME NEW n \in Nodes, AnswerOffer(n) \/ BroadcastToRoom(n) \/ Listen(n) PROVE Registries'
  BY <1>2, <1>11 DEF AnswerOffer, BroadcastToRoom, Listen, rooms
<1>12. ASSUME NEW s \in Sockets, FindRoom(s) \/ Handler(s) \/ SetHostClient(s)
                                 \/ HandleClientDisconnect(s) \/ RemoveViewer(s)
      PROVE Registries'
  BY <1>2, <1>12 DEF FindRoom, Handler, GetRoomNodeMap, JoinViewer, JoinSubscribes, PublishOffer,
     SubscribeViewerSignaling, SetHostClient, HandleClientDisconnect, RemoveViewer, rooms
<1>13. ASSUME NEW n \in Nodes, NEW u \in Users, RelayBack(n, u) PROVE Registries'
  BY <1>2, <1>13 DEF RelayBack, rooms
<1> QED
  BY <1>3, <1>4, <1>5, <1>6, <1>7, <1>8, <1>9, <1>10, <1>11, <1>12, <1>13 DEF Next, Manager

\* However the nodes that make and close the room follow one another, and
\* wherever one of them stops, a registry that names a node without the room
\* holds a key which that node had set before it stopped (redis_broker.go,
\* SetRoomNodeMap, RegisterRoomOrigin, RemoveRoomOrigin, UnlinkAllRoomKeys;
\* main.go, the shutdown).
THEOREM RegistriesAreTrue == Spec => []RegistryNamesOpenRooms
<1>1. Init => Registries
  BY ClusterAssumption DEF ClusterAssumption, Init, Registries, RegistryNamesOpenRooms
<1>2. TypeOK /\ Registries /\ [Next]_vars => Registries'
  BY RegistriesOfStep
<1>3. Registries => RegistryNamesOpenRooms
  BY DEF Registries
<1> QED
  BY <1>1, <1>2, <1>3, TypeCorrect, PTL DEF Spec

-----------------------------------------------------------------------------
(* Who is in a room. *)

\* A room that can be used is subscribed to; who hosts or watches is in a room
\* that is open; only clients are owed anything.
InUse(n) ==
    /\ Usable(n) => current[n] # 0
    /\ hostClient[n] # None \/ viewers[n] # {} => open[n]
OwedToClients(s) == owed[s] # {} => IsClient(s)

Members == (\A n \in Nodes : InUse(n)) /\ \A s \in Sockets : OwedToClients(s)

\* A step that leaves the rooms alone and nobody is owed more by.
LEMMA MembersKept ==
    ASSUME Members, UNCHANGED <<open, busy, hostClient, viewers>>,
           \A n \in Nodes : current[n] # 0 => current'[n] # 0,
           \A s \in Sockets : owed'[s] # {} => IsClient(s)'
    PROVE  Members'
BY DEF Members, InUse, OwedToClients, Usable

\* Handlers that have not ended go on; whoever was a client stays one.
LEMMA ClientsKept ==
    ASSUME UNCHANGED <<hostClient, viewers>>, \A s \in Sockets : Connected(s) => Connected(s)'
    PROVE  \A s \in Sockets : IsClient(s) => IsClient(s)'
BY DEF IsClient

LEMMA MembersOfStep ==
    ASSUME TypeOK, Members, [Next]_vars
    PROVE  Members'
<1> USE ClusterAssumption DEF ClusterAssumption
<1>1. /\ open \in [Nodes -> BOOLEAN] /\ busy \in [Nodes -> Busy] /\ step \in [Sockets -> Steps]
      /\ hostClient \in [Nodes -> Sockets \cup {None}] /\ viewers \in [Nodes -> SUBSET Sockets]
      /\ current \in [Nodes -> Nat]
  BY DEF TypeOK
<1>2. ASSUME UNCHANGED <<open, busy, hostClient, viewers, current, step, owed>> PROVE Members'
  BY <1>2 DEF Members, InUse, OwedToClients, Usable, IsClient, Connected
<1>3. ASSUME Forget PROVE \A s \in Sockets : OwedToClients(s)'
  BY <1>3, ForgetOwed DEF OwedToClients
<1>4. CASE UNCHANGED vars
  BY <1>2, <1>4 DEF vars, rooms, channels, handlers
<1>5. ASSUME NEW n \in Nodes, CreateRoom(n) PROVE Members'
  <2>1. /\ open' = [open EXCEPT ![n] = TRUE] /\ busy' = [busy EXCEPT ![n] = "map"]
        /\ UNCHANGED <<hostClient, viewers, owed, step>>
    BY <1>5 DEF CreateRoom, Then, handlers
  <2>2. current'[n] # 0 /\ \A k \in Nodes \ {n} : current'[k] = current[k]
    BY <1>5, SubscribeRoomCurrent DEF CreateRoom
  <2>3. \A k \in Nodes : InUse(k)'
    BY <1>1, <2>1, <2>2 DEF Members, InUse, Usable
  <2> QED BY <2>1, <2>3 DEF Members, OwedToClients, IsClient, Connected
<1>6. ASSUME NEW n \in Nodes, SetRoomNodeMap(n) \/ RegisterRoomOrigin(n) \/ RemoveRoomOrigin(n)
      PROVE Members'
  <2>1. /\ \E next \in {"no", "register", "unlink"} :
             /\ busy' = [busy EXCEPT ![n] = next]
             /\ (busy[n] = "unregister" /\ next = "unlink") \/ (busy[n] \in {"map", "register"} /\ next # "unlink")
        /\ UNCHANGED <<open, hostClient, viewers, current, owed, step>>
    BY <1>6 DEF SetRoomNodeMap, RegisterRoomOrigin, RemoveRoomOrigin, Then, channels, handlers
  <2>2. \A k \in Nodes : Usable(k)' => Usable(k)
    BY <1>1, <2>1 DEF Usable
  <2> QED BY <2>1, <2>2 DEF Members, InUse, OwedToClients, IsClient, Connected
<1>7. ASSUME NEW n \in Nodes, CloseRoom(n) PROVE Members'
  <2>1. /\ busy' = [busy EXCEPT ![n] = "unregister"] /\ current' = [current EXCEPT ![n] = 0]
        /\ UNCHANGED <<open, hostClient, viewers, owed, step>>
    BY <1>7 DEF CloseRoom, UnsubscribeRoom, Then, handlers
  <2>2. \A k \in Nodes : InUse(k)'
    BY <1>1, <2>1 DEF Members, InUse, Usable
  <2> QED BY <2>1, <2>2 DEF Members, OwedToClients, IsClient, Connected
<1>8. ASSUME NEW n \in Nodes, UnlinkAllRoomKeys(n) \/ StopNode(n) PROVE Members'
  <2>1. /\ ClearRoom(n) /\ Forget
        /\ current' = current \/ current' = [current EXCEPT ![n] = 0]
    BY <1>8 DEF UnlinkAllRoomKeys, StopNode
  <2>2. /\ open' = [open EXCEPT ![n] = FALSE] /\ busy' = [busy EXCEPT ![n] = "no"]
        /\ hostClient' = [hostClient EXCEPT ![n] = None]
        /\ viewers' = [viewers EXCEPT ![n] = {}]
    BY <2>1 DEF ClearRoom, Then
  <2>3. ASSUME NEW k \in Nodes PROVE InUse(k)'
    <3>1. CASE k = n
      BY <1>1, <2>2, <3>1 DEF InUse, Usable
    <3>2. CASE k # n
      BY <1>1, <2>1, <2>2, <3>2 DEF Members, InUse, Usable
    <3> QED BY <3>1, <3>2
  <2> QED BY <1>3, <2>1, <2>3 DEF Members
<1>9. ASSUME NEW s \in Sockets, FindRoom(s) \/ GetRoomNodeMap(s) \/ PublishOffer(s)
                                \/ SubscribeViewerSignaling(s) \/ JoinSubscribes(s)
      PROVE Members'
  <2>1. UNCHANGED <<open, busy, hostClient, viewers, owed>>
    BY <1>9 DEF FindRoom, GetRoomNodeMap, PublishOffer, SubscribeViewerSignaling, JoinSubscribes,
       rooms, channels
  <2>2. \E to \in Steps \ {"gone", "left"} : step' = [step EXCEPT ![s] = to]
    BY <1>9 DEF FindRoom, GetRoomNodeMap, PublishOffer, SubscribeViewerSignaling, JoinSubscribes,
       Go, Onward, Steps
  <2>3. \A t \in Sockets : IsClient(t) => IsClient(t)'
    BY <1>1, <2>1, <2>2, ClientsKept DEF Connected
  <2>4. \A k \in Nodes : current[k] # 0 => current'[k] # 0
    <3>1. CASE JoinSubscribes(s)
      <4>1. NodeOf[s] \in Nodes /\ SubscribeRoom(NodeOf[s])
        BY <3>1 DEF JoinSubscribes
      <4> QED BY <4>1, SubscribeRoomCurrent
    <3>2. CASE ~JoinSubscribes(s)
      BY <1>9, <3>2 DEF FindRoom, GetRoomNodeMap, PublishOffer, SubscribeViewerSignaling, channels
    <3> QED BY <3>1, <3>2
  <2> QED BY <2>1, <2>3, <2>4, MembersKept DEF Members, OwedToClients
<1>10. ASSUME NEW s \in Sockets, JoinViewer(s) PROVE Members'
  <2>1. /\ UNCHANGED <<open, busy, hostClient, current>> /\ Forget
        /\ viewers' = viewers
             \/ /\ open[NodeOf[s]]
                /\ viewers' = [viewers EXCEPT ![NodeOf[s]] = {t \in @ : UserOf[t] # UserOf[s]} \cup {s}]
    BY <1>10 DEF JoinViewer
  <2>2. \A k \in Nodes : viewers'[k] = viewers[k] \/ open[k]
    BY <1>1, <2>1
  <2>3. \A k \in Nodes : InUse(k)'
    BY <2>1, <2>2 DEF Members, InUse, Usable
  <2> QED BY <1>3, <2>1, <2>3 DEF Members
<1>11. ASSUME NEW s \in Sockets, SetHostClient(s) PROVE Members'
  <2>1. /\ UNCHANGED <<open, busy, viewers, current>> /\ Forget
        /\ open[NodeOf[s]] /\ hostClient' = [hostClient EXCEPT ![NodeOf[s]] = s]
    BY <1>11 DEF SetHostClient
  <2>2. \A k \in Nodes : hostClient'[k] = hostClient[k] \/ open[k]
    BY <1>1, <2>1
  <2>3. \A k \in Nodes : InUse(k)'
    BY <2>1, <2>2 DEF Members, InUse, Usable
  <2> QED BY <1>3, <2>1, <2>3 DEF Members
<1>12. ASSUME NEW s \in Sockets, HandleClientDisconnect(s) PROVE Members'
  <2>1. /\ UNCHANGED <<open, busy, viewers, current>> /\ Forget
        /\ hostClient' = hostClient \/ hostClient' = [hostClient EXCEPT ![NodeOf[s]] = None]
    BY <1>12 DEF HandleClientDisconnect
  <2>2. \A k \in Nodes : hostClient'[k] = hostClient[k] \/ hostClient'[k] = None
    BY <1>1, <2>1
  <2>3. \A k \in Nodes : InUse(k)'
    BY <2>1, <2>2 DEF Members, InUse, Usable
  <2> QED BY <1>3, <2>1, <2>3 DEF Members
<1>13. ASSUME NEW s \in Sockets, RemoveViewer(s) PROVE Members'
  <2>1. /\ UNCHANGED <<open, busy, hostClient, current, owed, step>> /\ step[s] = "left"
        /\ viewers' = [viewers EXCEPT ![NodeOf[s]] = @ \ {s}]
    BY <1>13 DEF RemoveViewer, channels, handlers
  <2>2. \A k \in Nodes : /\ viewers'[k] \subseteq viewers[k]
                        /\ \A t \in viewers[k] : t = s \/ t \in viewers'[k]
    BY <1>1, <2>1
  <2>3. \A k \in Nodes : InUse(k)'
    BY <2>1, <2>2 DEF Members, InUse, Usable
  <2>4. ASSUME NEW t \in Sockets, owed[t] # {} PROVE IsClient(t)'
    <3>1. IsClient(t) /\ t # s
      BY <2>1, <2>4 DEF Members, OwedToClients, IsClient, Connected
    <3> QED BY <2>1, <2>2, <3>1 DEF IsClient, Connected
  <2> QED BY <2>1, <2>3, <2>4 DEF Members, OwedToClients
<1>14. ASSUME NEW n \in Nodes, BroadcastToRoom(n) PROVE Members'
  <2>1. /\ UNCHANGED <<open, busy, hostClient, viewers, current, step>>
        /\ owed' = [t \in Sockets |-> IF Served(t) THEN owed[t] \cup {events'} ELSE owed[t]]
    BY <1>14 DEF BroadcastToRoom, rooms, handlers
  <2>2. ASSUME NEW t \in Sockets, owed'[t] # {} PROVE IsClient(t)'
    <3>1. IsClient(t)
      BY <2>1, <2>2 DEF Members, OwedToClients, Served
    <3> QED BY <2>1, <3>1 DEF IsClient, Connected
  <2> QED BY <2>1, <2>2, MembersKept
<1>15. ASSUME NEW n \in Nodes, Listen(n) PROVE Members'
  <2>1. /\ UNCHANGED <<open, busy, hostClient, viewers, current, step>>
        /\ \A t \in Sockets : owed'[t] \subseteq owed[t]
    BY <1>15 DEF Listen, rooms, handlers
  <2>2. ASSUME NEW t \in Sockets, owed'[t] # {} PROVE IsClient(t)'
    <3>1. owed[t] # {}
      BY <2>1, <2>2
    <3> QED BY <2>1, <3>1 DEF Members, OwedToClients, IsClient, Connected
  <2> QED BY <2>1, <2>2, MembersKept
<1>16. ASSUME NEW n \in Nodes, AnswerOffer(n) PROVE Members'
  BY <1>2, <1>16 DEF AnswerOffer, rooms, channels, handlers
<1>17. ASSUME NEW n \in Nodes, NEW u \in Users, RelayBack(n, u) PROVE Members'
  BY <1>2, <1>17 DEF RelayBack, rooms, channels, handlers
<1> QED
  BY <1>4, <1>5, <1>6, <1>7, <1>8, <1>9, <1>10, <1>11, <1>12, <1>13, <1>14, <1>15, <1>16, <1>17
     DEF Next, Manager, Handler

-----------------------------------------------------------------------------
(* The room events. *)

Inbox(n, i) == Elements(subs[n][i].inbox)

\* Only the current subscription of a node is fed; no two subscriptions hold
\* the same event, and each holds its events in their order.
InboxOK(n, i) ==
    /\ subs[n][i].live <=> i = current[n]
    /\ Increasing(subs[n][i].inbox) /\ Inbox(n, i) \subseteq 1..events
    /\ \A j \in DOMAIN subs[n] : i # j => Inbox(n, i) \cap Inbox(n, j) = {}
\* A client has what the subscriptions of its node do not hold any more; while
\* there is one of them, what it has comes before what that one holds.
GotOK(s) ==
    /\ Distinct(got[s]) /\ Firsts(got[s]) \subseteq 1..events
    /\ \A i \in DOMAIN subs[NodeOf[s]] : Firsts(got[s]) \cap Inbox(NodeOf[s], i) = {}
    /\ Len(subs[NodeOf[s]]) <= 1 =>
         /\ InOrder(got[s])
         /\ \A i \in DOMAIN subs[NodeOf[s]] :
              \A d \in Firsts(got[s]), e \in Inbox(NodeOf[s], i) : d < e
\* What a client is owed waits in a subscription of its node.
OwedOK(s) == \A e \in owed[s] : \E i \in DOMAIN subs[NodeOf[s]] : e \in Inbox(NodeOf[s], i)

Channels ==
    /\ \A n \in Nodes : \A i \in DOMAIN subs[n] : InboxOK(n, i)
    /\ \A s \in Sockets : GotOK(s) /\ OwedOK(s)

LEMMA NothingGot ==
    ASSUME NEW s \in Sockets, got'[s] = << >>
    PROVE  GotOK(s)'
BY EmptyQueue, EmptyPairs DEF GotOK

\* A step that takes nothing from the inboxes and puts nothing into them.
LEMMA InboxesKept ==
    ASSUME TypeOK, Channels, UNCHANGED events,
           \A s \in Sockets : got'[s] = got[s] \/ got'[s] = << >>,
           \A s \in Sockets : owed'[s] \subseteq owed[s],
           \A n \in Nodes : Len(subs'[n]) \in Nat /\ Len(subs[n]) <= Len(subs'[n]),
           \A n \in Nodes : \A i \in DOMAIN subs[n] :
              i \in DOMAIN subs'[n] /\ subs'[n][i].inbox = subs[n][i].inbox,
           \A n \in Nodes : \A i \in DOMAIN subs'[n] :
              i \in DOMAIN subs[n] \/ subs'[n][i].inbox = << >>,
           \A n \in Nodes : \A i \in DOMAIN subs'[n] : subs'[n][i].live <=> i = current'[n]
    PROVE  Channels'
<1> USE ClusterAssumption DEF ClusterAssumption
<1>1. ASSUME NEW n \in Nodes, NEW i \in DOMAIN subs'[n]
      PROVE  IF i \in DOMAIN subs[n] THEN Inbox(n, i)' = Inbox(n, i) ELSE Inbox(n, i)' = {}
  <2>1. CASE i \in DOMAIN subs[n]
    <3>1. subs'[n][i].inbox = subs[n][i].inbox
      BY <2>1
    <3> QED BY <2>1, <3>1 DEF Inbox
  <2>2. CASE i \notin DOMAIN subs[n]
    <3>1. subs'[n][i].inbox = << >>
      BY <2>2
    <3> QED BY <2>2, <3>1, EmptyQueue DEF Inbox
  <2> QED BY <2>1, <2>2
<1>2. ASSUME NEW n \in Nodes, NEW i \in DOMAIN subs'[n] PROVE InboxOK(n, i)'
  <2>1. Increasing(subs'[n][i].inbox) /\ Inbox(n, i)' \subseteq 1..events
    <3>1. CASE i \in DOMAIN subs[n]
      <4>1. subs'[n][i].inbox = subs[n][i].inbox /\ InboxOK(n, i)
        BY <3>1 DEF Channels
      <4> QED BY <3>1, <4>1, <1>1 DEF InboxOK
    <3>2. CASE i \notin DOMAIN subs[n]
      <4>1. subs'[n][i].inbox = << >>
        BY <3>2
      <4> QED BY <3>2, <4>1, <1>1, EmptyQueue
    <3> QED BY <3>1, <3>2
  <2>2. \A j \in DOMAIN subs'[n] : i # j => Inbox(n, i)' \cap Inbox(n, j)' = {}
    BY <1>1 DEF Channels, InboxOK
  <2>3. subs'[n][i].live <=> i = current'[n]
    OBVIOUS
  <2> QED BY <2>1, <2>2, <2>3 DEF InboxOK
<1>3. ASSUME NEW s \in Sockets PROVE GotOK(s)'
  <2> DEFINE n == NodeOf[s]
  <2>1. n \in Nodes /\ Len(subs[n]) \in Nat
    BY DEF TypeOK
  <2>2. CASE got'[s] = << >>
    BY <2>2, NothingGot
  <2>3. CASE got'[s] = got[s]
    <3>1. \A i \in DOMAIN subs'[n] : Firsts(got[s]) \cap Inbox(n, i)' = {}
      BY <1>1, <2>1 DEF Channels, GotOK
    <3>2. ASSUME Len(subs'[n]) <= 1
          PROVE  /\ InOrder(got[s])
                 /\ \A i \in DOMAIN subs'[n] : \A d \in Firsts(got[s]), e \in Inbox(n, i)' : d < e
      <4>1. Len(subs[n]) <= 1 /\ GotOK(s)
        BY <2>1, <3>2 DEF Channels
      <4>2. /\ InOrder(got[s])
            /\ \A i \in DOMAIN subs[n] : \A d \in Firsts(got[s]), e \in Inbox(n, i) : d < e
        BY <4>1 DEF GotOK
      <4>3. ASSUME NEW i \in DOMAIN subs'[n], NEW d \in Firsts(got[s]), NEW e \in Inbox(n, i)'
            PROVE  d < e
        <5>1. i \in DOMAIN subs[n] /\ e \in Inbox(n, i)
          BY <1>1, <2>1
        <5> QED BY <4>2, <5>1
      <4> QED BY <4>2, <4>3
    <3> QED BY <2>3, <3>1, <3>2 DEF Channels, GotOK
  <2> QED BY <2>2, <2>3
<1>4. ASSUME NEW s \in Sockets PROVE OwedOK(s)'
  <2>1. NodeOf[s] \in Nodes
    OBVIOUS
  <2> SUFFICES ASSUME NEW e \in owed'[s]
               PROVE  \E i \in DOMAIN subs'[NodeOf[s]] : e \in Inbox(NodeOf[s], i)'
    BY DEF OwedOK
  <2>2. PICK i \in DOMAIN subs[NodeOf[s]] : e \in Inbox(NodeOf[s], i)
    BY DEF Channels, OwedOK
  <2> QED BY <1>1, <2>1, <2>2
<1> QED
  BY <1>2, <1>3, <1>4 DEF Channels

LEMMA SubscribeRoomKeeps ==
    ASSUME TypeOK, Channels, NEW n \in Nodes, SubscribeRoom(n)
    PROVE  /\ \A k \in Nodes : Len(subs'[k]) \in Nat /\ Len(subs[k]) <= Len(subs'[k])
           /\ \A k \in Nodes : \A i \in DOMAIN subs[k] :
                i \in DOMAIN subs'[k] /\ subs'[k][i].inbox = subs[k][i].inbox
           /\ \A k \in Nodes : \A i \in DOMAIN subs'[k] :
                i \in DOMAIN subs[k] \/ subs'[k][i].inbox = << >>
           /\ \A k \in Nodes : \A i \in DOMAIN subs'[k] : subs'[k][i].live <=> i = current'[k]
<1>1. \A k \in Nodes : /\ Len(subs[k]) \in Nat /\ DOMAIN subs[k] = 1..Len(subs[k])
                      /\ \A i \in DOMAIN subs[k] : subs[k][i].live <=> i = current[k]
  BY LenProperties DEF TypeOK, Channels, InboxOK
<1>2. CASE UNCHANGED <<subs, current>>
  BY <1>1, <1>2
<1>3. CASE current[n] = 0
  <2> DEFINE new == [live |-> TRUE, inbox |-> << >>]
             q == Append(subs[n], new)
  <2>1. /\ subs' = [subs EXCEPT ![n] = q] /\ current' = [current EXCEPT ![n] = Len(subs[n]) + 1]
    BY <1>3 DEF SubscribeRoom
  <2>2. \A k \in Nodes \ {n} : subs'[k] = subs[k] /\ current'[k] = current[k]
    BY <2>1 DEF TypeOK
  <2>3. subs'[n] = q /\ current'[n] = Len(subs[n]) + 1
    BY <2>1 DEF TypeOK
  <2>4. /\ Len(q) = Len(subs[n]) + 1 /\ DOMAIN q = 1..(Len(subs[n]) + 1)
        /\ \A i \in 1..Len(subs[n]) : q[i] = subs[n][i]
        /\ q[Len(subs[n]) + 1] = new
    <3>1. subs[n] \in Seq(Sub) /\ new \in Sub
      BY EmptyQueue DEF TypeOK, Sub
    <3> HIDE DEF new
    <3> QED BY <3>1, <1>1, AppendQueue, LenProperties
  <2>5. \A i \in DOMAIN q : i \in 1..Len(subs[n]) \/ i = Len(subs[n]) + 1
    BY <1>1, <2>4
  <2>6. new.live /\ new.inbox = << >>
    OBVIOUS
  <2>7. ASSUME NEW i \in DOMAIN q PROVE q[i].live <=> i = Len(subs[n]) + 1
    <3>1. CASE i \in 1..Len(subs[n])
      <4>1. i # 0 /\ i # Len(subs[n]) + 1
        BY <1>1, <3>1
      <4>2. q[i] = subs[n][i]
        BY <2>4, <3>1
      <4>3. ~subs[n][i].live
        BY <1>1, <1>3, <3>1, <4>1
      <4> QED BY <4>1, <4>2, <4>3
    <3>2. CASE i = Len(subs[n]) + 1
      BY <2>4, <2>6, <3>2
    <3> QED BY <2>5, <3>1, <3>2
  <2>8. \A i \in DOMAIN q : i \in DOMAIN subs[n] \/ q[i].inbox = << >>
    BY <1>1, <2>4, <2>5, <2>6
  <2>9. \A i \in DOMAIN subs[n] : i \in DOMAIN q /\ q[i].inbox = subs[n][i].inbox
    BY <1>1, <2>4
  <2> HIDE DEF q
  <2>10. ASSUME NEW k \in Nodes
         PROVE  /\ Len(subs'[k]) \in Nat /\ Len(subs[k]) <= Len(subs'[k])
                /\ \A i \in DOMAIN subs[k] :
                     i \in DOMAIN subs'[k] /\ subs'[k][i].inbox = subs[k][i].inbox
                /\ \A i \in DOMAIN subs'[k] : i \in DOMAIN subs[k] \/ subs'[k][i].inbox = << >>
                /\ \A i \in DOMAIN subs'[k] : subs'[k][i].live <=> i = current'[k]
    <3>1. CASE k = n
      <4>1. Len(q) \in Nat /\ Len(subs[n]) <= Len(q)
        BY <1>1, <2>4
      <4> QED BY <2>3, <2>7, <2>8, <2>9, <3>1, <4>1
    <3>2. CASE k # n
      BY <1>1, <2>2, <3>2
    <3> QED BY <3>1, <3>2
  <2> QED BY <2>10
<1> QED BY <1>2, <1>3 DEF SubscribeRoom

LEMMA UnsubscribeRoomKeeps ==
    ASSUME TypeOK, Channels, NEW n \in Nodes, UnsubscribeRoom(n)
    PROVE  /\ \A k \in Nodes : Len(subs'[k]) \in Nat /\ Len(subs[k]) <= Len(subs'[k])
           /\ \A k \in Nodes : \A i \in DOMAIN subs[k] :
                i \in DOMAIN subs'[k] /\ subs'[k][i].inbox = subs[k][i].inbox
           /\ \A k \in Nodes : \A i \in DOMAIN subs'[k] :
                i \in DOMAIN subs[k] \/ subs'[k][i].inbox = << >>
           /\ \A k \in Nodes : \A i \in DOMAIN subs'[k] : subs'[k][i].live <=> i = current'[k]
<1>1. \A k \in Nodes : /\ Len(subs[k]) \in Nat /\ DOMAIN subs[k] = 1..Len(subs[k])
                      /\ \A i \in DOMAIN subs[k] : subs[k][i].live <=> i = current[k]
  BY LenProperties DEF TypeOK, Channels, InboxOK
<1>2. \A k \in Nodes \ {n} : subs'[k] = subs[k] /\ current'[k] = current[k]
  BY DEF TypeOK, UnsubscribeRoom
<1>3. current'[n] = 0 /\ \A i \in DOMAIN subs[n] : i # 0
  BY <1>1 DEF TypeOK, UnsubscribeRoom
<1>4. /\ Len(subs'[n]) = Len(subs[n]) /\ DOMAIN subs'[n] = DOMAIN subs[n]
      /\ \A i \in DOMAIN subs[n] : subs'[n][i].inbox = subs[n][i].inbox /\ ~subs'[n][i].live
  <2>1. CASE current[n] = 0
    <3>1. subs' = subs
      BY <2>1 DEF UnsubscribeRoom
    <3> QED BY <1>1, <1>3, <2>1, <3>1
  <2>2. CASE current[n] # 0
    <3> DEFINE c == current[n]
               sub == [subs[n][c] EXCEPT !.live = FALSE]
               q == [subs[n] EXCEPT ![c] = sub]
    <3>1. subs[n] \in Seq(Sub) /\ c \in 1..Len(subs[n])
      BY <2>2, <1>1 DEF TypeOK
    <3>2. subs[n][c] \in Sub
      BY <3>1, ElementOfSeq
    <3>3. sub \in Sub /\ sub.inbox = subs[n][c].inbox /\ ~sub.live
      BY <3>2 DEF Sub
    <3>4. subs'[n] = q
      BY <2>2 DEF UnsubscribeRoom, TypeOK
    <3>5. /\ q \in Seq(Sub) /\ Len(q) = Len(subs[n])
          /\ \A j \in 1..Len(subs[n]) : q[j] = IF j = c THEN sub ELSE subs[n][j]
      BY <3>1, <3>3, ExceptSeq
    <3> HIDE DEF q, sub
    <3>6. DOMAIN q = DOMAIN subs[n]
      BY <1>1, <3>5, LenProperties
    <3>7. ASSUME NEW i \in DOMAIN subs[n] PROVE q[i].inbox = subs[n][i].inbox /\ ~q[i].live
      <4>1. CASE i = c
        BY <1>1, <3>3, <3>5, <4>1
      <4>2. CASE i # c
        BY <1>1, <3>5, <4>2
      <4> QED BY <4>1, <4>2
    <3> QED BY <3>4, <3>5, <3>6, <3>7
  <2> QED BY <2>1, <2>2
<1>5. ASSUME NEW k \in Nodes
      PROVE  /\ Len(subs'[k]) \in Nat /\ Len(subs[k]) <= Len(subs'[k])
             /\ \A i \in DOMAIN subs[k] :
                  i \in DOMAIN subs'[k] /\ subs'[k][i].inbox = subs[k][i].inbox
             /\ \A i \in DOMAIN subs'[k] : i \in DOMAIN subs[k] \/ subs'[k][i].inbox = << >>
             /\ \A i \in DOMAIN subs'[k] : subs'[k][i].live <=> i = current'[k]
  <2>1. CASE k = n
    BY <1>1, <1>3, <1>4, <2>1
  <2>2. CASE k # n
    BY <1>1, <1>2, <2>2
  <2> QED BY <2>1, <2>2
<1> QED BY <1>5

\* The next event goes to the end of the inbox that is fed on each node.
LEMMA BroadcastChannels ==
    ASSUME TypeOK, Members, Channels, NEW n \in Nodes, BroadcastToRoom(n)
    PROVE  Channels'
<1> USE ClusterAssumption DEF ClusterAssumption
<1>1. /\ events \in Nat /\ events' = events + 1 /\ events' \in 1..MaxEvents
      /\ events' \notin 1..events /\ 1..events \subseteq 1..events'
  <2>1. events \in 0..MaxEvents /\ events < MaxEvents
    BY DEF TypeOK, BroadcastToRoom
  <2>2. events' = events + 1
    BY DEF BroadcastToRoom
  <2> QED BY <2>1, <2>2
<1>2. UNCHANGED <<current, got>>
  BY DEF BroadcastToRoom, rooms, handlers
<1>3. \A k \in Nodes : subs'[k] = [i \in DOMAIN subs[k] |->
         IF subs[k][i].live /\ SocketsOf(k) # {}
           THEN [subs[k][i] EXCEPT !.inbox = Append(@, events')] ELSE subs[k][i]]
  BY DEF BroadcastToRoom
<1>4. ASSUME NEW k \in Nodes, NEW i \in DOMAIN subs[k]
      PROVE  subs'[k][i] = IF subs[k][i].live /\ SocketsOf(k) # {}
                             THEN [subs[k][i] EXCEPT !.inbox = Append(@, events')] ELSE subs[k][i]
  <2> DEFINE fed(j) == IF subs[k][j].live /\ SocketsOf(k) # {}
                         THEN [subs[k][j] EXCEPT !.inbox = Append(@, events')] ELSE subs[k][j]
  <2>1. subs'[k] = [j \in DOMAIN subs[k] |-> fed(j)]
    BY <1>3
  <2> HIDE DEF fed
  <2>2. subs'[k][i] = fed(i)
    BY <2>1
  <2> QED BY <2>2 DEF fed
<1>5. ASSUME NEW k \in Nodes, NEW i \in DOMAIN subs[k]
      PROVE  /\ subs[k][i] \in Sub /\ InboxOK(k, i) /\ (subs[k][i].live <=> i = current[k])
             /\ subs'[k][i].live <=> i = current[k]
  <2>1. subs[k] \in Seq(Sub) /\ i \in 1..Len(subs[k])
    BY LenProperties DEF TypeOK
  <2>2. subs[k][i] \in Sub
    BY <2>1, ElementOfSeq
  <2>3. InboxOK(k, i) /\ (subs[k][i].live <=> i = current[k])
    BY DEF Channels, InboxOK
  <2>4. subs[k][i].live \in BOOLEAN
    BY <2>2 DEF Sub
  <2>5. CASE subs[k][i].live /\ SocketsOf(k) # {}
    <3>1. subs'[k][i] = [subs[k][i] EXCEPT !.inbox = Append(@, events')]
      BY <1>4, <2>5
    <3> QED BY <2>2, <2>3, <2>5, <3>1 DEF Sub
  <2>6. CASE ~(subs[k][i].live /\ SocketsOf(k) # {})
    <3>1. subs'[k][i] = subs[k][i]
      BY <1>4, <2>6
    <3> QED BY <2>2, <2>3, <2>6, <3>1
  <2> QED BY <2>4, <2>5, <2>6
<1>6. \A k \in Nodes : DOMAIN subs'[k] = DOMAIN subs[k] /\ Len(subs'[k]) = Len(subs[k])
  <2> SUFFICES ASSUME NEW k \in Nodes
               PROVE  DOMAIN subs'[k] = DOMAIN subs[k] /\ Len(subs'[k]) = Len(subs[k])
    OBVIOUS
  <2>1. DOMAIN subs'[k] = DOMAIN subs[k]
    BY <1>3
  <2>2. subs[k] \in Seq(Sub) /\ subs'[k] \in Seq(Sub)
    BY TypeOfStep DEF TypeOK, Next
  <2> QED BY <2>1, <2>2, LenProperties
<1>7. ASSUME NEW k \in Nodes, NEW i \in DOMAIN subs[k]
      PROVE  /\ Inbox(k, i)' = IF i = current[k] /\ SocketsOf(k) # {}
                                  THEN Inbox(k, i) \cup {events'} ELSE Inbox(k, i)
             /\ Increasing(subs'[k][i].inbox)
             /\ Inbox(k, i) \subseteq 1..events
  <2> DEFINE q == subs[k][i].inbox
  <2>1. /\ q \in Seq(1..MaxEvents) /\ Increasing(q)
        /\ Inbox(k, i) = Elements(q) /\ Elements(q) \subseteq 1..events
    BY <1>5 DEF InboxOK, Inbox, Sub
  <2>2. Inbox(k, i)' = Elements(subs'[k][i].inbox)
    BY DEF Inbox
  <2>3. subs[k][i].live <=> i = current[k]
    BY <1>5
  <2>4. CASE subs[k][i].live /\ SocketsOf(k) # {}
    <3> DEFINE r == Append(q, events')
    <3>1. subs'[k][i] = [subs[k][i] EXCEPT !.inbox = Append(@, events')]
      BY <1>4, <2>4
    <3>2. subs'[k][i].inbox = r
      BY <1>5, <3>1 DEF Sub
    <3>3. Elements(r) = Elements(q) \cup {events'}
      <4> DEFINE S == 1..MaxEvents
      <4>1. q \in Seq(S) /\ events' \in S
        BY <1>1, <2>1
      <4> HIDE DEF S, q
      <4> QED BY <4>1, AppendQueue
    <3>4. \A e \in Elements(q) : e < events'
      BY <1>1, <2>1
    <3>5. Increasing(r)
      <4> DEFINE S == 1..MaxEvents
      <4>1. S \in SUBSET Nat /\ q \in Seq(S) /\ events' \in S
        BY <1>1, <2>1
      <4> HIDE DEF S, q
      <4> QED BY <4>1, <2>1, <3>4, AppendIncreasing
    <3> HIDE DEF r
    <3> QED BY <2>1, <2>2, <2>4, <2>3, <3>3, <3>5, <3>2
  <2>5. CASE ~(subs[k][i].live /\ SocketsOf(k) # {})
    <3>1. subs'[k][i] = subs[k][i]
      BY <1>4, <2>5
    <3> QED BY <2>1, <2>2, <2>5, <2>3, <3>1
  <2> QED BY <2>4, <2>5
<1>8. ASSUME NEW k \in Nodes, NEW i \in DOMAIN subs'[k] PROVE InboxOK(k, i)'
  <2>1. i \in DOMAIN subs[k]
    BY <1>6
  <2>2. (subs'[k][i].live <=> i = current'[k]) /\ Increasing(subs'[k][i].inbox)
    BY <1>2, <1>5, <1>7, <2>1
  <2>3. Inbox(k, i)' \subseteq 1..events'
    <3>1. Inbox(k, i)' \subseteq Inbox(k, i) \cup {events'} /\ Inbox(k, i) \subseteq 1..events
      BY <1>7, <2>1
    <3>2. events' \in 1..events'
      BY <1>1
    <3> QED BY <1>1, <3>1, <3>2
  <2>4. ASSUME NEW j \in DOMAIN subs'[k], i # j PROVE Inbox(k, i)' \cap Inbox(k, j)' = {}
    <3>1. j \in DOMAIN subs[k] /\ Inbox(k, i) \cap Inbox(k, j) = {}
      BY <1>5, <1>6, <2>1, <2>4 DEF InboxOK
    <3>2. events' \notin Inbox(k, i) /\ events' \notin Inbox(k, j)
      BY <1>1, <1>7, <2>1, <3>1
    <3>3. \/ Inbox(k, i)' = Inbox(k, i) /\ Inbox(k, j)' \subseteq Inbox(k, j) \cup {events'}
          \/ Inbox(k, i)' \subseteq Inbox(k, i) \cup {events'} /\ Inbox(k, j)' = Inbox(k, j)
      BY <1>7, <2>1, <2>4, <3>1
    <3> QED BY <3>1, <3>2, <3>3
  <2> QED BY <2>2, <2>3, <2>4 DEF InboxOK
<1>9. ASSUME NEW s \in Sockets PROVE GotOK(s)'
  <2>1. GotOK(s) /\ NodeOf[s] \in Nodes /\ got'[s] = got[s]
    BY <1>2 DEF Channels
  <2>2. \A d \in Firsts(got[s]) : d \in 1..events /\ d # events' /\ d < events'
    BY <1>1, <2>1 DEF GotOK
  <2>3. Firsts(got[s]) \subseteq 1..events'
    BY <1>1, <2>2
  <2>4. ASSUME NEW i \in DOMAIN subs'[NodeOf[s]]
        PROVE  Firsts(got[s]) \cap Inbox(NodeOf[s], i)' = {}
    BY <1>6, <1>7, <2>1, <2>2 DEF GotOK
  <2>5. ASSUME Len(subs'[NodeOf[s]]) <= 1
        PROVE  /\ InOrder(got[s])
               /\ \A i \in DOMAIN subs'[NodeOf[s]] :
                    \A d \in Firsts(got[s]), e \in Inbox(NodeOf[s], i)' : d < e
    <3>1. /\ Len(subs[NodeOf[s]]) <= 1 /\ InOrder(got[s])
          /\ \A i \in DOMAIN subs[NodeOf[s]] :
               \A d \in Firsts(got[s]), e \in Inbox(NodeOf[s], i) : d < e
      BY <1>6, <2>1, <2>5 DEF GotOK
    <3>2. ASSUME NEW i \in DOMAIN subs'[NodeOf[s]], NEW d \in Firsts(got[s]),
                 NEW e \in Inbox(NodeOf[s], i)'
          PROVE  d < e
      <4>1. i \in DOMAIN subs[NodeOf[s]] /\ (e \in Inbox(NodeOf[s], i) \/ e = events')
        <5>1. i \in DOMAIN subs[NodeOf[s]]
          BY <1>6, <2>1
        <5>2. Inbox(NodeOf[s], i)' \subseteq Inbox(NodeOf[s], i) \cup {events'}
          BY <1>7, <2>1, <5>1
        <5> QED BY <5>1, <5>2
      <4> QED BY <2>2, <3>1, <4>1
    <3> QED BY <3>1, <3>2
  <2> QED BY <2>1, <2>3, <2>4, <2>5 DEF GotOK
<1>10. ASSUME NEW s \in Sockets PROVE OwedOK(s)'
  <2> SUFFICES ASSUME NEW e \in owed'[s]
               PROVE  \E i \in DOMAIN subs'[NodeOf[s]] : e \in Inbox(NodeOf[s], i)'
    BY DEF OwedOK
  <2>1. NodeOf[s] \in Nodes /\ SocketsOf(NodeOf[s]) # {}
    BY DEF SocketsOf
  <2>2. owed'[s] = IF Served(s) THEN owed[s] \cup {events'} ELSE owed[s]
    BY DEF BroadcastToRoom
  <2>3. CASE e \in owed[s]
    <3>1. OwedOK(s)
      BY DEF Channels
    <3>2. PICK i \in DOMAIN subs[NodeOf[s]] : e \in Inbox(NodeOf[s], i)
      BY <2>3, <3>1 DEF OwedOK
    <3>3. e \in Inbox(NodeOf[s], i)'
      BY <1>7, <2>1, <3>2
    <3>4. i \in DOMAIN subs'[NodeOf[s]]
      BY <1>6, <2>1, <3>2
    <3> QED BY <3>3, <3>4
  <2>4. CASE e = events' /\ Served(s)
    <3>1. /\ current[NodeOf[s]] # 0 /\ current[NodeOf[s]] \in Nat
          /\ current[NodeOf[s]] <= Len(subs[NodeOf[s]]) /\ subs[NodeOf[s]] \in Seq(Sub)
      BY <2>1, <2>4 DEF Members, InUse, TypeOK, Served
    <3>2. current[NodeOf[s]] \in DOMAIN subs[NodeOf[s]]
      BY <3>1, LenProperties
    <3> QED BY <1>6, <1>7, <2>1, <2>4, <3>2
  <2> QED BY <2>2, <2>3, <2>4
<1> QED
  BY <1>8, <1>9, <1>10 DEF Channels

\* What one client is sent: nothing new to it before, and in order.
LEMMA SentPairs ==
    ASSUME TypeOK, NEW s \in Sockets, NEW e \in 1..MaxEvents, Distinct(got[s]),
           e \notin Firsts(got[s])
    PROVE  /\ Distinct(got[s] \o Sent(s, e))
           /\ Firsts(got[s] \o Sent(s, e)) \subseteq Firsts(got[s]) \cup {e}
           /\ InOrder(got[s]) /\ (\A d \in Firsts(got[s]) : d < e) => InOrder(got[s] \o Sent(s, e))
<1> DEFINE S == 1..MaxEvents
           T == S \X Places
           q == got[s]
           x == <<e, "host">>
           y == <<e, "viewer">>
           r == Append(q, x)
<1>1. q \in Seq(T) /\ \A z \in T : z[1] \in S /\ z[1] \in Nat
  BY DEF TypeOK
<1>2. x \in T /\ y \in T /\ x # y /\ x[1] = e /\ y[1] = e
  BY DEF Places
<1>3. /\ got[s] \o Sent(s, e) = q \o ((IF s = hostClient[NodeOf[s]] THEN <<x>> ELSE << >>)
                                     \o (IF s \in viewers[NodeOf[s]] THEN <<y>> ELSE << >>))
      /\ Distinct(q) /\ e \notin Firsts(q)
  BY DEF Sent
<1>4. e <= e /\ \A d \in S : d < e => d <= e
  OBVIOUS
<1> HIDE DEF S, T, q, x, y, r
<1>5. got[s] \o Sent(s, e) \in {q, r, Append(q, y), Append(r, y)}
  <2> DEFINE host == s = hostClient[NodeOf[s]]
             viewer == s \in viewers[NodeOf[s]]
  <2>1. got[s] \o Sent(s, e) = q \o ((IF host THEN <<x>> ELSE << >>) \o (IF viewer THEN <<y>> ELSE << >>))
    BY <1>3
  <2> HIDE DEF host, viewer
  <2>2. /\ q \o (<< >> \o << >>) = q
        /\ q \o (<<x>> \o << >>) = Append(q, x)
        /\ q \o (<< >> \o <<y>>) = Append(q, y)
        /\ q \o (<<x>> \o <<y>>) = Append(Append(q, x), y)
    BY <1>1, <1>2, ConcatPairs
  <2>3. CASE host /\ viewer
    BY <2>1, <2>2, <2>3 DEF r
  <2>4. CASE host /\ ~viewer
    BY <2>1, <2>2, <2>4 DEF r
  <2>5. CASE ~host /\ viewer
    BY <2>1, <2>2, <2>5
  <2>6. CASE ~host /\ ~viewer
    BY <2>1, <2>2, <2>6
  <2> QED BY <2>3, <2>4, <2>5, <2>6
<1>6. x \notin Elements(q) /\ y \notin Elements(q) /\ Firsts(q) \subseteq S
  <2>1. x \notin Elements(q) /\ y \notin Elements(q)
    BY <1>2, <1>3 DEF Elements, Firsts
  <2>2. \A i \in DOMAIN q : q[i] \in T
    BY <1>1, ElementOfSeq, LenProperties
  <2> QED BY <1>1, <2>1, <2>2 DEF Firsts
<1>7. /\ r \in Seq(T) /\ Elements(r) = Elements(q) \cup {x}
      /\ Firsts(r) = Firsts(q) \cup {x[1]} /\ Distinct(r)
      /\ InOrder(q) /\ (\A d \in Firsts(q) : d <= x[1]) => InOrder(r)
  BY <1>1, <1>2, <1>3, <1>6, AppendPair DEF r
<1>8. /\ Firsts(Append(q, y)) = Firsts(q) \cup {y[1]} /\ Distinct(Append(q, y))
      /\ InOrder(q) /\ (\A d \in Firsts(q) : d <= y[1]) => InOrder(Append(q, y))
  BY <1>1, <1>2, <1>3, <1>6, AppendPair
<1>9. /\ Firsts(Append(r, y)) = Firsts(r) \cup {y[1]} /\ Distinct(Append(r, y))
      /\ InOrder(r) /\ (\A d \in Firsts(r) : d <= y[1]) => InOrder(Append(r, y))
  <2>1. y \notin Elements(r)
    BY <1>2, <1>6, <1>7
  <2> QED BY <1>1, <1>2, <1>7, <2>1, AppendPair
<1>10. ASSUME NEW z \in {q, r, Append(q, y), Append(r, y)}
       PROVE  /\ Distinct(z) /\ Firsts(z) \subseteq Firsts(q) \cup {e}
              /\ InOrder(q) /\ (\A d \in Firsts(q) : d < e) => InOrder(z)
  <2>1. (\A d \in Firsts(q) : d < e) => \A d \in Firsts(q) \cup {e} : d <= e
    BY <1>4, <1>6
  <2> QED BY <1>2, <1>3, <1>7, <1>8, <1>9, <2>1
<1>11. got[s] = q
  BY DEF q
<1> QED BY <1>5, <1>10, <1>11

\* The oldest event of an inbox goes to the clients of the room.
LEMMA ListenChannels ==
    ASSUME TypeOK, Members, Channels, NEW n \in Nodes, Listen(n)
    PROVE  Channels'
<1> USE ClusterAssumption DEF ClusterAssumption
<1>1. PICK i \in DOMAIN subs[n] :
         /\ subs[n][i].inbox # << >>
         /\ subs' = [subs EXCEPT ![n][i].inbox = Tail(@)]
         /\ LET e == Head(subs[n][i].inbox)
                sent == {s \in Sockets : NodeOf[s] = n /\ open[n] /\ IsClient(s)}
            IN /\ got' = [s \in Sockets |-> IF s \in sent THEN got[s] \o Sent(s, e) ELSE got[s]]
               /\ owed' = [s \in Sockets |-> IF s \in sent THEN owed[s] \ {e} ELSE owed[s]]
  BY DEF Listen
<1> DEFINE box == subs[n][i].inbox
           e == Head(box)
           rest == Tail(box)
           sub == [subs[n][i] EXCEPT !.inbox = Tail(@)]
           q == [subs[n] EXCEPT ![i] = sub]
<1>2. UNCHANGED <<current, events>>
  BY DEF Listen, rooms, handlers
<1>3. /\ subs[n] \in Seq(Sub) /\ i \in 1..Len(subs[n]) /\ Len(subs[n]) \in Nat
      /\ \A k \in Nodes : DOMAIN subs[k] = 1..Len(subs[k])
  BY LenProperties DEF TypeOK
<1>4. subs[n][i] \in Sub
  BY <1>3, ElementOfSeq
<1>5. box \in Seq(1..MaxEvents)
  BY <1>4 DEF Sub
<1>6. \A S : box \in Seq(S) => Head(box) \in S /\ Tail(box) \in Seq(S)
  BY <1>1, TailQueue
<1>7. e \in 1..MaxEvents /\ rest \in Seq(1..MaxEvents)
  BY <1>5, <1>6
<1>8. InboxOK(n, i) /\ Inbox(n, i) = Elements(box) /\ Increasing(box)
  <2>1. InboxOK(n, i)
    BY DEF Channels
  <2> QED BY <2>1 DEF InboxOK, Inbox
<1>9. /\ Increasing(rest) /\ Distinct(box) /\ \A d \in Elements(rest) : e < d
  <2> DEFINE S == 1..MaxEvents
  <2>1. S \in SUBSET Nat /\ box \in Seq(S)
    BY <1>5
  <2> HIDE DEF S, box
  <2> QED BY <2>1, <1>1, <1>8, TailIncreasing DEF box
<1>10. /\ e \in Elements(box) /\ Elements(box) = Elements(rest) \cup {e}
       /\ e \notin Elements(rest)
  BY <1>1, <1>5, <1>9, TailQueue
<1>11. sub \in Sub /\ sub.inbox = rest /\ sub.live = subs[n][i].live
  BY <1>4, <1>7 DEF Sub
<1>12. /\ Len(q) = Len(subs[n]) /\ DOMAIN q = DOMAIN subs[n]
       /\ \A j \in DOMAIN subs[n] : q[j] = IF j = i THEN sub ELSE subs[n][j]
  <2> HIDE DEF sub
  <2> QED BY <1>3, <1>11, ExceptSeq, LenProperties
<1>13. subs' = [subs EXCEPT ![n] = q]
  BY <1>1 DEF TypeOK
<1> HIDE DEF q, sub, rest, e, box
<1>14. subs'[n] = q /\ \A k \in Nodes \ {n} : subs'[k] = subs[k]
  BY <1>13 DEF TypeOK
<1>15. \A k \in Nodes : /\ DOMAIN subs'[k] = DOMAIN subs[k] /\ Len(subs'[k]) = Len(subs[k])
  BY <1>12, <1>14
<1>16. ASSUME NEW k \in Nodes, NEW j \in DOMAIN subs[k]
       PROVE  /\ subs'[k][j].live = subs[k][j].live
              /\ IF k = n /\ j = i THEN subs'[k][j].inbox = rest ELSE subs'[k][j] = subs[k][j]
  <2>1. CASE k = n /\ j = i
    BY <1>11, <1>12, <1>14, <2>1
  <2>2. CASE k = n /\ j # i
    BY <1>12, <1>14, <2>2
  <2>3. CASE k # n
    BY <1>14, <2>3
  <2> QED BY <2>1, <2>2, <2>3
<1>17. ASSUME NEW k \in Nodes, NEW j \in DOMAIN subs[k]
       PROVE  /\ Inbox(k, j)' = IF k = n /\ j = i THEN Inbox(k, j) \ {e} ELSE Inbox(k, j)
              /\ Increasing(subs'[k][j].inbox)
  <2>1. Inbox(k, j)' = Elements(subs'[k][j].inbox) /\ Inbox(k, j) = Elements(subs[k][j].inbox)
    BY DEF Inbox
  <2>2. CASE k = n /\ j = i
    BY <1>8, <1>9, <1>10, <1>16, <2>1, <2>2
  <2>3. CASE ~(k = n /\ j = i)
    <3>1. subs'[k][j] = subs[k][j]
      BY <1>16, <2>3
    <3> QED BY <3>1, <2>1, <2>3 DEF Channels, InboxOK
  <2> QED BY <2>2, <2>3
<1>18. ASSUME NEW k \in Nodes, NEW j \in DOMAIN subs'[k] PROVE InboxOK(k, j)'
  <2>1. j \in DOMAIN subs[k] /\ InboxOK(k, j)
    BY <1>15 DEF Channels
  <2>2. subs'[k][j].live <=> j = current'[k]
    BY <1>2, <1>16, <2>1 DEF InboxOK
  <2>3. Inbox(k, j)' \subseteq 1..events'
    BY <1>2, <1>17, <2>1 DEF InboxOK
  <2>4. ASSUME NEW m \in DOMAIN subs'[k], j # m PROVE Inbox(k, j)' \cap Inbox(k, m)' = {}
    <3>1. m \in DOMAIN subs[k] /\ Inbox(k, j) \cap Inbox(k, m) = {}
      BY <1>15, <2>1, <2>4 DEF InboxOK
    <3>2. Inbox(k, j)' \subseteq Inbox(k, j) /\ Inbox(k, m)' \subseteq Inbox(k, m)
      BY <1>17, <2>1, <3>1
    <3> QED BY <3>1, <3>2
  <2> QED BY <1>17, <2>1, <2>2, <2>3, <2>4 DEF InboxOK
<1>19. ASSUME NEW s \in Sockets
       PROVE  \/ /\ NodeOf[s] = n
                 /\ got'[s] = got[s] \o Sent(s, e) /\ owed'[s] = owed[s] \ {e}
              \/ /\ NodeOf[s] = n => owed[s] = {}
                 /\ got'[s] = got[s] /\ owed'[s] = owed[s]
  <2>1. NodeOf[s] = n /\ IsClient(s) => open[n]
    <3>1. s # None
      OBVIOUS
    <3> QED BY <3>1 DEF Members, InUse, IsClient
  <2>2. ~IsClient(s) => owed[s] = {}
    BY DEF Members, OwedToClients
  <2>3. CASE NodeOf[s] = n /\ open[n] /\ IsClient(s)
    BY <1>1, <2>3 DEF e, box
  <2>4. CASE ~(NodeOf[s] = n /\ open[n] /\ IsClient(s))
    <3>1. got'[s] = got[s] /\ owed'[s] = owed[s]
      BY <1>1, <2>4
    <3> QED BY <2>1, <2>2, <2>4, <3>1
  <2> QED BY <2>3, <2>4
<1>20. ASSUME NEW s \in Sockets PROVE GotOK(s)'
  <2>1. GotOK(s) /\ NodeOf[s] \in Nodes
    BY DEF Channels
  <2>2. CASE got'[s] = got[s]
    <3>1. \A j \in DOMAIN subs'[NodeOf[s]] :
            j \in DOMAIN subs[NodeOf[s]] /\ Inbox(NodeOf[s], j)' \subseteq Inbox(NodeOf[s], j)
      BY <1>15, <1>17, <2>1
    <3>2. \A j \in DOMAIN subs'[NodeOf[s]] : Firsts(got[s]) \cap Inbox(NodeOf[s], j)' = {}
      BY <2>1, <3>1 DEF GotOK
    <3>3. ASSUME Len(subs'[NodeOf[s]]) <= 1
          PROVE  /\ InOrder(got[s])
                 /\ \A j \in DOMAIN subs'[NodeOf[s]] :
                      \A d \in Firsts(got[s]), f \in Inbox(NodeOf[s], j)' : d < f
      BY <1>15, <2>1, <3>1, <3>3 DEF GotOK
    <3> QED BY <1>2, <2>1, <2>2, <3>2, <3>3 DEF GotOK
  <2>3. CASE NodeOf[s] = n /\ got'[s] = got[s] \o Sent(s, e)
    <3>1. e \notin Firsts(got[s])
      BY <1>8, <1>10, <2>1, <2>3 DEF GotOK
    <3>2. /\ Distinct(got'[s]) /\ Firsts(got'[s]) \subseteq Firsts(got[s]) \cup {e}
          /\ InOrder(got[s]) /\ (\A d \in Firsts(got[s]) : d < e) => InOrder(got'[s])
      <4> DEFINE r == got[s] \o Sent(s, e)
      <4>1. Distinct(got[s])
        BY <2>1 DEF GotOK
      <4>2. /\ Distinct(r) /\ Firsts(r) \subseteq Firsts(got[s]) \cup {e}
            /\ InOrder(got[s]) /\ (\A d \in Firsts(got[s]) : d < e) => InOrder(r)
        BY <1>7, <3>1, <4>1, SentPairs
      <4>3. got'[s] = r
        BY <2>3
      <4> HIDE DEF r
      <4> QED BY <4>2, <4>3
    <3>3. Firsts(got'[s]) \subseteq 1..events'
      BY <1>2, <1>8, <1>10, <2>1, <3>2 DEF GotOK, InboxOK
    <3>4. ASSUME NEW j \in DOMAIN subs'[n] PROVE Firsts(got'[s]) \cap Inbox(n, j)' = {}
      <4>1. j \in DOMAIN subs[n] /\ Firsts(got[s]) \cap Inbox(n, j) = {}
        BY <1>15, <2>1, <2>3 DEF GotOK
      <4>2. j # i => e \notin Inbox(n, j)
        BY <1>8, <1>10, <4>1 DEF InboxOK
      <4> QED BY <1>17, <3>2, <4>1, <4>2
    <3>5. ASSUME Len(subs'[n]) <= 1
          PROVE  /\ InOrder(got'[s])
                 /\ \A j \in DOMAIN subs'[n] : \A d \in Firsts(got'[s]), f \in Inbox(n, j)' : d < f
      <4>1. /\ Len(subs[n]) <= 1 /\ \A j \in DOMAIN subs'[n] : j = i
        BY <1>3, <1>15, <3>5
      <4>2. /\ InOrder(got[s]) /\ \A d \in Firsts(got[s]), f \in Inbox(n, i) : d < f
        BY <2>1, <2>3, <4>1 DEF GotOK
      <4>3. \A d \in Firsts(got[s]) : d < e
        BY <1>8, <1>10, <4>2
      <4>4. \A f \in Inbox(n, i)' : f \in Inbox(n, i) /\ e < f
        BY <1>8, <1>9, <1>10, <1>17
      <4> QED BY <2>3, <3>2, <4>1, <4>2, <4>3, <4>4
    <3> QED BY <2>3, <3>2, <3>3, <3>4, <3>5 DEF GotOK
  <2> QED BY <1>19, <2>2, <2>3
<1>21. ASSUME NEW s \in Sockets PROVE OwedOK(s)'
  <2> SUFFICES ASSUME NEW d \in owed'[s]
               PROVE  \E j \in DOMAIN subs'[NodeOf[s]] : d \in Inbox(NodeOf[s], j)'
    BY DEF OwedOK
  <2>1. NodeOf[s] \in Nodes /\ d \in owed[s]
    BY <1>19
  <2>2. PICK j \in DOMAIN subs[NodeOf[s]] : d \in Inbox(NodeOf[s], j)
    BY <2>1 DEF Channels, OwedOK
  <2>3. NodeOf[s] = n => d # e
    BY <1>19
  <2> QED BY <1>15, <1>17, <2>1, <2>2, <2>3
<1> QED
  BY <1>18, <1>20, <1>21 DEF Channels

\* A node that stops has neither subscriptions nor clients left.
LEMMA StopNodeChannels ==
    ASSUME TypeOK, Channels, NEW n \in Nodes, StopNode(n)
    PROVE  Channels'
<1> USE ClusterAssumption DEF ClusterAssumption
<1>1. /\ End(SocketsOf(n)) /\ Forget /\ events' = events
      /\ subs' = [subs EXCEPT ![n] = << >>] /\ current' = [current EXCEPT ![n] = 0]
  BY DEF StopNode
<1>2. /\ subs'[n] = << >>
      /\ \A k \in Nodes \ {n} : subs'[k] = subs[k] /\ current'[k] = current[k]
  BY <1>1 DEF TypeOK
<1>3. DOMAIN subs'[n] = {}
  BY <1>2
<1>4. ASSUME NEW s \in Sockets
      PROVE  IF NodeOf[s] = n THEN got'[s] = << >> /\ owed'[s] = {}
                              ELSE got'[s] = got[s] /\ owed'[s] \subseteq owed[s]
  <2>1. owed'[s] = IF IsClient(s)' THEN owed[s] ELSE {}
    BY <1>1, ForgetOwed
  <2>2. CASE NodeOf[s] = n
    <3>1. step'[s] = "left" /\ got'[s] = << >>
      BY <1>1, <2>2 DEF End, SocketsOf
    <3> QED BY <2>1, <2>2, <3>1 DEF IsClient, Connected
  <2>3. CASE NodeOf[s] # n
    BY <1>1, <2>1, <2>3 DEF End, SocketsOf
  <2> QED BY <2>2, <2>3
<1>5. ASSUME NEW k \in Nodes, NEW i \in DOMAIN subs'[k] PROVE InboxOK(k, i)'
  <2>1. k # n /\ InboxOK(k, i)
    BY <1>2, <1>3 DEF Channels
  <2> QED BY <1>1, <1>2, <2>1 DEF InboxOK, Inbox
<1>6. ASSUME NEW s \in Sockets PROVE GotOK(s)' /\ OwedOK(s)'
  <2>1. CASE NodeOf[s] = n
    BY <1>4, <2>1, NothingGot DEF OwedOK
  <2>2. CASE NodeOf[s] # n
    <3>1. GotOK(s) /\ OwedOK(s) /\ subs'[NodeOf[s]] = subs[NodeOf[s]]
      BY <1>2, <2>2 DEF Channels
    <3>2. got'[s] = got[s] /\ owed'[s] \subseteq owed[s]
      BY <1>4, <2>2
    <3> QED BY <1>1, <3>1, <3>2 DEF GotOK, OwedOK, Inbox
  <2> QED BY <2>1, <2>2
<1> QED BY <1>5, <1>6 DEF Channels

LEMMA ChannelsOfStep ==
    ASSUME TypeOK, Members, Channels, [Next]_vars
    PROVE  Channels'
<1> USE ClusterAssumption DEF ClusterAssumption
<1>1. ASSUME UNCHANGED <<subs, current, events>>,
             \A s \in Sockets : got'[s] = got[s] \/ got'[s] = << >>,
             \A s \in Sockets : owed'[s] \subseteq owed[s]
      PROVE  Channels'
  <2>1. \A n \in Nodes : /\ Len(subs[n]) \in Nat
                        /\ \A i \in DOMAIN subs[n] : subs[n][i].live <=> i = current[n]
    BY DEF TypeOK, Channels, InboxOK
  <2>2. \A n \in Nodes : /\ Len(subs'[n]) \in Nat /\ Len(subs[n]) <= Len(subs'[n])
                        /\ \A i \in DOMAIN subs'[n] : subs'[n][i].live <=> i = current'[n]
    BY <1>1, <2>1
  <2>3. \A n \in Nodes : \A i \in DOMAIN subs[n] :
           i \in DOMAIN subs'[n] /\ subs'[n][i].inbox = subs[n][i].inbox
    BY <1>1
  <2>4. \A n \in Nodes : \A i \in DOMAIN subs'[n] :
           i \in DOMAIN subs[n] \/ subs'[n][i].inbox = << >>
    BY <1>1
  <2> QED BY <1>1, <2>2, <2>3, <2>4, InboxesKept
<1>2. CASE UNCHANGED channels
  BY <1>1, <1>2 DEF channels
<1>3. ASSUME UNCHANGED <<subs, current, events>>, Forget,
             \A s \in Sockets : got'[s] = got[s] \/ got'[s] = << >>
      PROVE  Channels'
  <2>1. \A s \in Sockets : owed'[s] \subseteq owed[s]
    BY <1>3, ForgetOwed
  <2> QED BY <1>1, <1>3, <2>1
<1>4. ASSUME NEW n \in Nodes, CreateRoom(n) PROVE Channels'
  <2>1. SubscribeRoom(n) /\ UNCHANGED <<events, got, owed>>
    BY <1>4 DEF CreateRoom
  <2> QED BY <2>1, SubscribeRoomKeeps, InboxesKept
<1>5. ASSUME NEW n \in Nodes, CloseRoom(n) PROVE Channels'
  <2>1. UnsubscribeRoom(n) /\ UNCHANGED <<events, got, owed>>
    BY <1>5 DEF CloseRoom
  <2> QED BY <2>1, UnsubscribeRoomKeeps, InboxesKept
<1>6. ASSUME NEW s \in Sockets, JoinSubscribes(s) PROVE Channels'
  <2>1. SubscribeRoom(NodeOf[s]) /\ NodeOf[s] \in Nodes /\ UNCHANGED <<events, got, owed>>
    BY <1>6 DEF JoinSubscribes
  <2> QED BY <2>1, SubscribeRoomKeeps, InboxesKept
<1>7. ASSUME NEW n \in Nodes, SetRoomNodeMap(n) \/ RegisterRoomOrigin(n) \/ RemoveRoomOrigin(n)
                              \/ AnswerOffer(n)
      PROVE  Channels'
  BY <1>2, <1>7 DEF SetRoomNodeMap, RegisterRoomOrigin, RemoveRoomOrigin, AnswerOffer
<1>8. ASSUME NEW n \in Nodes, UnlinkAllRoomKeys(n) PROVE Channels'
  BY <1>3, <1>8 DEF UnlinkAllRoomKeys
<1>9. ASSUME NEW s \in Sockets, FindRoom(s) \/ GetRoomNodeMap(s) \/ PublishOffer(s)
                                \/ SubscribeViewerSignaling(s) \/ RemoveViewer(s)
      PROVE  Channels'
  BY <1>2, <1>9 DEF FindRoom, GetRoomNodeMap, PublishOffer, SubscribeViewerSignaling, RemoveViewer
<1>10. ASSUME NEW s \in Sockets, JoinViewer(s) \/ SetHostClient(s) PROVE Channels'
  BY <1>3, <1>10 DEF JoinViewer, SetHostClient
<1>11. ASSUME NEW s \in Sockets, HandleClientDisconnect(s) PROVE Channels'
  <2>1. End({s}) /\ Forget /\ UNCHANGED <<subs, current, events>>
    BY <1>11 DEF HandleClientDisconnect
  <2>2. \A t \in Sockets : got'[t] = got[t] \/ got'[t] = << >>
    BY <2>1 DEF End
  <2> QED BY <1>3, <2>1, <2>2
<1>12. ASSUME NEW n \in Nodes, NEW u \in Users, RelayBack(n, u) PROVE Channels'
  BY <1>2, <1>12 DEF RelayBack
<1>13. CASE UNCHANGED vars
  BY <1>2, <1>13 DEF vars
<1> QED
  BY <1>4, <1>5, <1>6, <1>7, <1>8, <1>9, <1>10, <1>11, <1>12, <1>13,
     BroadcastChannels, ListenChannels, StopNodeChannels
     DEF Next, Manager, Handler

LEMMA InitChannels == Init => Members /\ Channels
<1> SUFFICES ASSUME Init PROVE Members /\ Channels
  OBVIOUS
<1> USE ClusterAssumption DEF ClusterAssumption, Init
<1>1. Members
  BY DEF Members, InUse, OwedToClients, Usable
<1>2. \A n \in Nodes : DOMAIN subs[n] = {}
  OBVIOUS
<1>3. \A s \in Sockets : got[s] = << >> /\ owed[s] = {}
  OBVIOUS
<1>4. \A s \in Sockets : GotOK(s)
  BY <1>2, <1>3, EmptyQueue, EmptyPairs DEF GotOK
<1>5. \A s \in Sockets : OwedOK(s)
  BY <1>3 DEF OwedOK
<1> QED BY <1>1, <1>2, <1>4, <1>5 DEF Channels

LEMMA ChannelsAlways == Spec => [](TypeOK /\ Members /\ Channels)
<1>1. TypeOK /\ Members /\ Channels /\ [Next]_vars => Members' /\ Channels'
  BY MembersOfStep, ChannelsOfStep
<1> QED
  BY <1>1, InitChannels, TypeCorrect, PTL DEF Spec

\* No socket is sent an event twice as the host or twice as a viewer, also when
\* the room is closed and made again while events of its first subscription are
\* still on their way; in a state in which its node has had one subscription
\* since it was started, what the socket was sent is in the order of publication
\* (redis_broker.go, SubscribeRoom, UnsubscribeRoom, listenChannel; room_manager.go,
\* broadcastRawToRoomInternal).
THEOREM NoEventTwice == Spec => []EventsOnceInOrder
<1>1. TypeOK /\ Channels => EventsOnceInOrder
  <2> SUFFICES ASSUME TypeOK, Channels, NEW s \in Sockets, NEW i \in DOMAIN got[s],
                      NEW j \in DOMAIN got[s], i < j
               PROVE  /\ got[s][i] # got[s][j]
                      /\ Len(subs[NodeOf[s]]) = 1 => got[s][i][1] <= got[s][j][1]
    BY DEF EventsOnceInOrder
  <2>1. GotOK(s) /\ i # j
    <3>1. DOMAIN got[s] = 1..Len(got[s])
      BY LenProperties DEF TypeOK
    <3> QED BY <3>1 DEF Channels, TypeOK
  <2>2. got[s][i] # got[s][j]
    BY <2>1 DEF GotOK, Distinct
  <2>3. Len(subs[NodeOf[s]]) = 1 => got[s][i][1] <= got[s][j][1]
    BY <2>1 DEF GotOK, InOrder
  <2> QED BY <2>2, <2>3
<1> QED
  BY <1>1, ChannelsAlways, PTL

\* What was published while a socket was the host or a viewer of an open room of
\* its node is sent to it or waits in a subscription of that node, as long as it
\* is one of the two (redis_broker.go, BroadcastToRoom; room_manager.go,
\* CreateRoom, CloseRoomAndNotifyWithReason, broadcastRawToRoomInternal).
THEOREM NoEventLost == Spec => []EventsOnTheirWay
<1>1. Channels => EventsOnTheirWay
  BY DEF Channels, OwedOK, EventsOnTheirWay, Inbox, Elements
<1> QED
  BY <1>1, ChannelsAlways, PTL

-----------------------------------------------------------------------------
(* Offers and answers. *)

\* The handler of the socket has published its offer, if it has one to publish,
\* or never will.
Past(s) == step[s] \in {"relay", "in", "gone", "left"}

\* Only servers that are no edge listen to all viewers; no offer waits twice.
OffersOK(n) ==
    /\ n \in pattern \/ busy[n] = "register" => n \notin Edges
    /\ Distinct(offered[n])
    /\ \A s \in Elements(offered[n]) : n \notin Edges /\ Past(s)
\* A message to the subscribers of u is an offer of u, or the answer of a server
\* that listens to one; that offer does not wait at that server any more.
Genuine(u, m) ==
    /\ UserOf[m.offerer] = u /\ Past(m.offerer)
    /\ \/ m.event = "offer" /\ m.by = u
       \/ /\ m.event = "answer" /\ m.by \in Nodes \ Edges
          /\ m.offerer \notin Elements(offered[m.by])
ReturnedOK(n, u) ==
    /\ relay[n][u] # None => NodeOf[relay[n][u]] = n /\ UserOf[relay[n][u]] = u
    /\ returned[n][u] # << >> => relay[n][u] # None
    /\ Distinct(returned[n][u])
    /\ \A m \in Elements(returned[n][u]) : Genuine(u, m)
\* What a socket was sent are answers, each once, that do not wait for it too.
RelayedOK(s) ==
    /\ Distinct(relayed[s])
    /\ \A m \in Elements(relayed[s]) :
         /\ Genuine(UserOf[s], m) /\ m.event = "answer"
         /\ m \notin Elements(returned[NodeOf[s]][UserOf[s]])

Signals ==
    /\ \A n \in Nodes : OffersOK(n)
    /\ \A n \in Nodes, u \in Users : ReturnedOK(n, u)
    /\ \A s \in Sockets : RelayedOK(s)

\* A step that puts nothing into the queues of offers and messages; a node that
\* stops empties its own, a socket that ends what it was sent.
LEMMA SignalsKept ==
    ASSUME TypeOK, Signals,
           \A n \in Nodes : offered'[n] = offered[n] \/ offered'[n] = << >>,
           \A s \in Sockets : relayed'[s] = relayed[s] \/ relayed'[s] = << >>,
           \A s \in Sockets : Past(s) => Past(s)',
           \A n \in Nodes : n \in pattern' \/ busy'[n] = "register" => n \notin Edges,
           \A n \in Nodes, u \in Users :
              \/ relay'[n][u] = None /\ returned'[n][u] = << >>
              \/ /\ returned'[n][u] = returned[n][u]
                 /\ \/ relay'[n][u] = relay[n][u]
                    \/ /\ relay[n][u] = None /\ relay'[n][u] # None
                       /\ NodeOf[relay'[n][u]] = n /\ UserOf[relay'[n][u]] = u
    PROVE  Signals'
<1> USE ClusterAssumption DEF ClusterAssumption
<1>1. ASSUME NEW n \in Nodes
      PROVE  /\ Elements(offered'[n]) \subseteq Elements(offered[n])
             /\ Elements(offered[n]) \subseteq Sockets
             /\ Distinct(offered'[n])
  <2>1. offered[n] \in Seq(Sockets) /\ Distinct(offered[n])
    BY DEF TypeOK, Signals, OffersOK
  <2> QED BY <2>1, ElementsType, EmptyQueue
<1>2. ASSUME NEW n \in Nodes PROVE OffersOK(n)'
  <2>1. \A s \in Elements(offered'[n]) : s \in Sockets /\ n \notin Edges /\ Past(s)
    BY <1>1 DEF Signals, OffersOK
  <2> QED BY <1>1, <2>1 DEF OffersOK
<1>3. ASSUME NEW u, NEW m \in Message, Genuine(u, m) PROVE Genuine(u, m)'
  <2>1. m.offerer \in Sockets
    BY DEF Message
  <2>2. m.by \in Nodes => Elements(offered'[m.by]) \subseteq Elements(offered[m.by])
    BY <1>1
  <2> QED BY <1>3, <2>1, <2>2 DEF Genuine
<1>4. ASSUME NEW n \in Nodes, NEW u \in Users PROVE ReturnedOK(n, u)'
  <2>1. returned[n][u] \in Seq(Message) /\ ReturnedOK(n, u)
    BY DEF TypeOK, Signals
  <2>2. CASE relay'[n][u] = None /\ returned'[n][u] = << >>
    BY <2>2, EmptyQueue DEF ReturnedOK
  <2>3. CASE /\ returned'[n][u] = returned[n][u]
             /\ \/ relay'[n][u] = relay[n][u]
                \/ /\ relay[n][u] = None /\ relay'[n][u] # None
                   /\ NodeOf[relay'[n][u]] = n /\ UserOf[relay'[n][u]] = u
    <3>1. \A m \in Elements(returned[n][u]) : m \in Message /\ Genuine(u, m)
      BY <2>1, ElementsType DEF ReturnedOK
    <3>2. \A m \in Elements(returned'[n][u]) : Genuine(u, m)'
      BY <1>3, <2>3, <3>1
    <3> QED BY <2>1, <2>3, <3>2 DEF ReturnedOK
  <2> QED BY <2>2, <2>3
<1>5. ASSUME NEW s \in Sockets PROVE RelayedOK(s)'
  <2> DEFINE box == returned[NodeOf[s]][UserOf[s]]
  <2>1. relayed[s] \in Seq(Message) /\ RelayedOK(s)
    BY DEF TypeOK, Signals
  <2>2. CASE relayed'[s] = << >>
    BY <2>2, EmptyQueue DEF RelayedOK
  <2>3. CASE relayed'[s] = relayed[s]
    <3>1. \A m \in Elements(relayed[s]) : m \in Message /\ Genuine(UserOf[s], m)
      BY <2>1, ElementsType DEF RelayedOK
    <3>2. \A m \in Elements(relayed[s]) : Genuine(UserOf[s], m)'
      BY <1>3, <3>1
    <3>3. box' = box \/ box' = << >>
      OBVIOUS
    <3>4. Elements(box') \subseteq Elements(box)
      BY <3>3, EmptyQueue
    <3> QED BY <2>1, <2>3, <3>2, <3>4 DEF RelayedOK
  <2> QED BY <2>2, <2>3
<1> QED BY <1>2, <1>4, <1>5 DEF Signals

\* A new message goes to the inboxes of one user.
LEMMA PublishNew ==
    ASSUME TypeOK, Signals, NEW u \in Users, NEW m \in Message, Publish(u, m),
           \A n \in Nodes : m \notin Elements(returned[n][u])
    PROVE  \A n \in Nodes, v \in Users :
              /\ Distinct(returned'[n][v])
              /\ \A x \in Elements(returned'[n][v]) : x \in Elements(returned[n][v]) \/ (x = m /\ v = u)
              /\ returned'[n][v] # << >> => relay[n][v] # None
<1> SUFFICES ASSUME NEW n \in Nodes, NEW v \in Users
             PROVE  /\ Distinct(returned'[n][v])
                    /\ \A x \in Elements(returned'[n][v]) : x \in Elements(returned[n][v]) \/ (x = m /\ v = u)
                    /\ returned'[n][v] # << >> => relay[n][v] # None
  OBVIOUS
<1>1. returned[n][v] \in Seq(Message) /\ ReturnedOK(n, v)
  BY DEF TypeOK, Signals
<1>2. returned'[n] = [returned[n] EXCEPT ![u] = IF relay[n][u] # None THEN Append(@, m) ELSE @]
  BY DEF Publish
<1>3. CASE v = u /\ relay[n][u] # None
  <2> DEFINE q == Append(returned[n][u], m)
  <2>1. returned'[n][v] = q
    BY <1>2, <1>3 DEF TypeOK
  <2>2. Distinct(q) /\ Elements(q) = Elements(returned[n][u]) \cup {m}
    BY <1>1, <1>3, AppendQueue DEF ReturnedOK
  <2> HIDE DEF q
  <2> QED BY <1>3, <2>1, <2>2
<1>4. CASE ~(v = u /\ relay[n][u] # None)
  <2>1. returned'[n][v] = returned[n][v]
    BY <1>2, <1>4 DEF TypeOK
  <2> QED BY <1>1, <2>1 DEF ReturnedOK
<1> QED BY <1>3, <1>4

LEMMA PublishOfferSignals ==
    ASSUME TypeOK, Signals, NEW s \in Sockets, PublishOffer(s)
    PROVE  Signals'
<1> USE ClusterAssumption DEF ClusterAssumption
<1> DEFINE u == UserOf[s]
           m == [event |-> "offer", by |-> u, offerer |-> s]
<1>1. /\ step[s] = "offer" /\ step'[s] = "relay" /\ \A t \in Sockets \ {s} : step'[t] = step[t]
      /\ Publish(u, m)
      /\ UNCHANGED <<busy, pattern, relay, relayed>>
  BY DEF PublishOffer, Go, TypeOK, rooms
<1>2. u \in Users /\ m \in Message /\ m.event = "offer" /\ m.by = u /\ m.offerer = s
  BY DEF Message
<1>3. u = UserOf[s]
  OBVIOUS
<1> HIDE DEF u, m
<1>4. ~Past(s) /\ Past(s)' /\ \A t \in Sockets : Past(t) => Past(t)'
  BY <1>1 DEF Past
<1>5. \A n \in Nodes : m \notin Elements(returned[n][u])
  BY <1>2, <1>4 DEF Signals, ReturnedOK, Genuine
<1>6. ASSUME NEW n \in Nodes, NEW v \in Users
      PROVE  /\ Distinct(returned'[n][v])
             /\ \A x \in Elements(returned'[n][v]) : x \in Elements(returned[n][v]) \/ (x = m /\ v = u)
             /\ returned'[n][v] # << >> => relay[n][v] # None
  <2>1. Publish(u, m)
    BY <1>1
  <2>2. u \in Users /\ m \in Message
    BY <1>2
  <2> QED BY <1>5, <2>1, <2>2, PublishNew
<1>7. ASSUME NEW n \in Nodes
      PROVE  /\ OffersOK(n)'
             /\ Elements(offered'[n]) \subseteq Elements(offered[n]) \cup {s}
  <2>1. offered[n] \in Seq(Sockets) /\ OffersOK(n) /\ Elements(offered[n]) \subseteq Sockets
    BY ElementsType DEF TypeOK, Signals
  <2>2. CASE n \in pattern
    <3> DEFINE q == Append(offered[n], s)
    <3>1. offered'[n] = q
      BY <2>2 DEF PublishOffer
    <3>2. s \notin Elements(offered[n])
      BY <1>4, <2>1 DEF OffersOK
    <3>3. Distinct(q) /\ Elements(q) = Elements(offered[n]) \cup {s}
      BY <2>1, <3>2, AppendQueue DEF OffersOK
    <3> HIDE DEF q
    <3> QED BY <1>1, <1>4, <2>1, <2>2, <3>1, <3>3 DEF OffersOK
  <2>3. CASE n \notin pattern
    <3>1. offered'[n] = offered[n]
      BY <2>3 DEF PublishOffer
    <3> QED BY <1>1, <1>4, <2>1, <3>1 DEF OffersOK
  <2> QED BY <2>2, <2>3
<1>8. ASSUME NEW v, NEW x \in Message, Genuine(v, x) PROVE Genuine(v, x)'
  <2>1. x.offerer \in Sockets /\ x.offerer # s
    BY <1>4, <1>8 DEF Genuine, Message
  <2> QED BY <1>4, <1>7, <1>8, <2>1 DEF Genuine
<1>9. Genuine(u, m)'
  BY <1>2, <1>4, <1>3 DEF Genuine
<1>10. ASSUME NEW n \in Nodes, NEW v \in Users PROVE ReturnedOK(n, v)'
  <2>1. returned[n][v] \in Seq(Message) /\ ReturnedOK(n, v)
    BY DEF TypeOK, Signals
  <2>2. \A x \in Elements(returned[n][v]) : x \in Message /\ Genuine(v, x)
    BY <2>1, ElementsType DEF ReturnedOK
  <2>3. \A x \in Elements(returned'[n][v]) : Genuine(v, x)'
    BY <1>6, <1>8, <1>9, <2>2
  <2> QED BY <1>1, <1>6, <2>1, <2>3 DEF ReturnedOK
<1>11. ASSUME NEW t \in Sockets PROVE RelayedOK(t)'
  <2>1. relayed[t] \in Seq(Message) /\ RelayedOK(t) /\ NodeOf[t] \in Nodes /\ UserOf[t] \in Users
    BY DEF TypeOK, Signals
  <2>2. \A x \in Elements(relayed[t]) : x \in Message /\ Genuine(UserOf[t], x) /\ x.event = "answer"
    BY <2>1, ElementsType DEF RelayedOK
  <2>3. \A x \in Elements(relayed[t]) : Genuine(UserOf[t], x)'
    BY <1>8, <2>2
  <2>4. \A x \in Elements(relayed[t]) : x \notin Elements(returned'[NodeOf[t]][UserOf[t]])
    <3>1. m \notin Elements(relayed[t])
      BY <1>2, <2>2
    <3> QED BY <1>6, <2>1, <3>1 DEF RelayedOK
  <2> QED BY <1>1, <2>1, <2>2, <2>3, <2>4 DEF RelayedOK
<1> QED BY <1>7, <1>10, <1>11 DEF Signals

LEMMA AnswerOfferSignals ==
    ASSUME TypeOK, Signals, NEW n \in Nodes, AnswerOffer(n)
    PROVE  Signals'
<1> USE ClusterAssumption DEF ClusterAssumption
<1>1. /\ offered[n] # << >> /\ offered' = [offered EXCEPT ![n] = Tail(@)]
      /\ UNCHANGED <<busy, pattern, relay, relayed, step>>
  BY DEF AnswerOffer, rooms, handlers
<1>2. offered[n] \in Seq(Sockets) /\ OffersOK(n)
  BY DEF TypeOK, Signals
<1>3. PICK s \in Sockets : s = Head(offered[n])
  BY <1>1, <1>2, TailQueue
<1> DEFINE u == UserOf[s]
           m == [event |-> "answer", by |-> n, offerer |-> s]
<1>4. /\ s \in Elements(offered[n])
      /\ Elements(offered[n]) = Elements(Tail(offered[n])) \cup {s}
      /\ Distinct(Tail(offered[n])) /\ s \notin Elements(Tail(offered[n]))
  BY <1>3, <1>1, <1>2, TailQueue DEF OffersOK
<1>5. Publish(u, m) \/ UNCHANGED returned
  BY <1>3 DEF AnswerOffer
<1>6. n \notin Edges /\ Past(s)
  BY <1>2, <1>4 DEF OffersOK
<1>7. u \in Users /\ m \in Message /\ m.event = "answer" /\ m.by = n /\ m.offerer = s
  BY DEF Message
<1>8. u = UserOf[s]
  OBVIOUS
<1> HIDE DEF u, m
<1>9. \A k \in Nodes : m \notin Elements(returned[k][u])
  BY <1>4, <1>7, <1>8 DEF Signals, ReturnedOK, Genuine
<1>10. ASSUME NEW k \in Nodes, NEW v \in Users
      PROVE  /\ Distinct(returned'[k][v])
             /\ \A x \in Elements(returned'[k][v]) : x \in Elements(returned[k][v]) \/ (x = m /\ v = u)
             /\ returned'[k][v] # << >> => relay[k][v] # None
  <2>1. CASE Publish(u, m)
    BY <1>7, <1>9, <2>1, PublishNew
  <2>2. CASE UNCHANGED returned
    BY <2>2 DEF Signals, ReturnedOK
  <2> QED BY <1>5, <2>1, <2>2
<1>11. ASSUME NEW k \in Nodes
      PROVE  /\ OffersOK(k)' /\ Elements(offered'[k]) \subseteq Elements(offered[k])
             /\ k = n => s \notin Elements(offered'[k])
  <2>1. \A t : Past(t)' <=> Past(t)
    BY <1>1 DEF Past
  <2>2. CASE k = n
    <3>1. offered'[n] = Tail(offered[n])
      BY <1>1 DEF TypeOK
    <3> QED BY <1>1, <1>2, <1>4, <2>1, <2>2, <3>1 DEF OffersOK
  <2>3. CASE k # n
    <3>1. offered'[k] = offered[k] /\ OffersOK(k)
      BY <1>1, <2>3 DEF TypeOK, Signals
    <3> QED BY <1>1, <2>1, <2>3, <3>1 DEF OffersOK
  <2> QED BY <2>2, <2>3
<1>12. ASSUME NEW v, NEW x, Genuine(v, x) PROVE Genuine(v, x)'
  BY <1>1, <1>11, <1>12 DEF Genuine, Past
<1>13. Genuine(u, m)'
  BY <1>1, <1>6, <1>7, <1>11, <1>8 DEF Genuine, Past
<1>14. ASSUME NEW k \in Nodes, NEW v \in Users PROVE ReturnedOK(k, v)'
  <2>1. ReturnedOK(k, v)
    BY DEF Signals
  <2>2. \A x \in Elements(returned'[k][v]) : Genuine(v, x)'
    BY <1>10, <1>12, <1>13, <2>1 DEF ReturnedOK
  <2> QED BY <1>1, <1>10, <2>1, <2>2 DEF ReturnedOK
<1>15. ASSUME NEW t \in Sockets PROVE RelayedOK(t)'
  <2>1. RelayedOK(t) /\ NodeOf[t] \in Nodes /\ UserOf[t] \in Users
    BY DEF Signals
  <2>2. \A x \in Elements(relayed[t]) : Genuine(UserOf[t], x)' /\ x.event = "answer"
    BY <1>12, <2>1 DEF RelayedOK
  <2>3. \A x \in Elements(relayed[t]) : x \notin Elements(returned'[NodeOf[t]][UserOf[t]])
    <3>1. m \notin Elements(relayed[t])
      BY <1>4, <1>7, <2>1 DEF RelayedOK, Genuine
    <3> QED BY <1>10, <2>1, <3>1 DEF RelayedOK
  <2> QED BY <1>1, <2>1, <2>2, <2>3 DEF RelayedOK
<1> QED BY <1>11, <1>14, <1>15 DEF Signals

LEMMA RelayBackSignals ==
    ASSUME TypeOK, Signals, NEW n \in Nodes, NEW u \in Users, RelayBack(n, u)
    PROVE  Signals'
<1> USE ClusterAssumption DEF ClusterAssumption
<1> DEFINE m == Head(returned[n][u])
           s == relay[n][u]
           rest == Tail(returned[n][u])
<1>1. /\ returned[n][u] # << >> /\ returned' = [returned EXCEPT ![n][u] = rest]
      /\ relayed' = IF m.by # u /\ Connected(s)
                      THEN [relayed EXCEPT ![s] = Append(@, m)] ELSE relayed
      /\ UNCHANGED <<busy, pattern, relay, offered, step>>
  BY DEF RelayBack, rooms, handlers
<1>2. returned[n][u] \in Seq(Message) /\ ReturnedOK(n, u)
  BY DEF TypeOK, Signals
<1>3. /\ m \in Message /\ m \in Elements(returned[n][u])
      /\ Elements(returned[n][u]) = Elements(rest) \cup {m}
      /\ Distinct(rest) /\ m \notin Elements(rest)
  BY <1>1, <1>2, TailQueue DEF ReturnedOK
<1>4. s \in Sockets /\ NodeOf[s] = n /\ UserOf[s] = u
  BY <1>1, <1>2 DEF ReturnedOK, TypeOK
<1> HIDE DEF m, rest, s
<1>5. ASSUME NEW k \in Nodes, NEW v \in Users
      PROVE  returned'[k][v] = IF k = n /\ v = u THEN rest ELSE returned[k][v]
  BY <1>1 DEF TypeOK
<1>6. \A v, x : Genuine(v, x)' <=> Genuine(v, x)
  BY <1>1 DEF Genuine, Past
<1>7. ASSUME NEW k \in Nodes PROVE OffersOK(k)'
  BY <1>1 DEF Signals, OffersOK, Past
<1>8. ASSUME NEW k \in Nodes, NEW v \in Users PROVE ReturnedOK(k, v)'
  <2>1. ReturnedOK(k, v)
    BY DEF Signals
  <2>2. CASE k = n /\ v = u
    <3>1. returned'[k][v] = rest
      BY <1>5, <2>2
    <3> QED BY <1>1, <1>3, <1>6, <2>1, <2>2, <3>1 DEF ReturnedOK
  <2>3. CASE ~(k = n /\ v = u)
    <3>1. returned'[k][v] = returned[k][v]
      BY <1>5, <2>3
    <3> QED BY <1>1, <1>6, <2>1, <3>1 DEF ReturnedOK
  <2> QED BY <2>2, <2>3
<1>9. ASSUME NEW t \in Sockets PROVE RelayedOK(t)'
  <2> DEFINE box == returned[NodeOf[t]][UserOf[t]]
  <2>1. RelayedOK(t) /\ NodeOf[t] \in Nodes /\ UserOf[t] \in Users /\ relayed[t] \in Seq(Message)
    BY DEF Signals, TypeOK
  <2>2. Elements(box') \subseteq Elements(box)
    BY <1>3, <1>5, <2>1
  <2>3. CASE relayed'[t] = relayed[t]
    BY <1>6, <2>1, <2>2, <2>3 DEF RelayedOK
  <2>4. CASE t = s /\ m.by # u /\ relayed'[t] = Append(relayed[t], m)
    <3>1. m \notin Elements(relayed[t]) /\ m \notin Elements(box')
      BY <1>3, <1>4, <1>5, <2>1, <2>4 DEF RelayedOK
    <3>2. Distinct(relayed'[t]) /\ Elements(relayed'[t]) = Elements(relayed[t]) \cup {m}
      BY <1>3, <2>1, <2>4, <3>1, AppendQueue DEF RelayedOK
    <3>3. Genuine(u, m) /\ m.event = "answer"
      BY <1>2, <1>3, <2>4 DEF ReturnedOK, Genuine
    <3> QED BY <1>4, <1>6, <2>1, <2>2, <2>4, <3>1, <3>2, <3>3 DEF RelayedOK
  <2>5. relayed'[t] = relayed[t] \/ (t = s /\ m.by # u /\ relayed'[t] = Append(relayed[t], m))
    BY <1>1, <1>4 DEF TypeOK
  <2> QED BY <2>3, <2>4, <2>5
<1> QED BY <1>7, <1>8, <1>9 DEF Signals

LEMMA SignalsOfStep ==
    ASSUME TypeOK, Signals, [Next]_vars
    PROVE  Signals'
<1> USE ClusterAssumption DEF ClusterAssumption
<1>1. busy \in [Nodes -> Busy] /\ step \in [Sockets -> Steps] /\ relayed \in [Sockets -> Seq(Message)]
  BY DEF TypeOK
<1>2. \A n \in Nodes : n \in pattern \/ busy[n] = "register" => n \notin Edges
  BY DEF Signals, OffersOK
<1>3. ASSUME UNCHANGED <<pattern, offered, relay, returned>>,
             \A s \in Sockets : relayed'[s] = relayed[s] \/ relayed'[s] = << >>,
             \A s \in Sockets : Past(s) => Past(s)',
             \A n \in Nodes : busy'[n] = "register" => n \notin Edges
      PROVE  Signals'
  BY <1>2, <1>3, SignalsKept
<1>4. ASSUME UNCHANGED signalling, \A s \in Sockets : Past(s) => Past(s)',
             \A n \in Nodes : busy'[n] = "register" => busy[n] = "register" \/ n \notin Edges
      PROVE  Signals'
  BY <1>2, <1>3, <1>4 DEF signalling
<1>5. CASE UNCHANGED vars
  BY <1>4, <1>5 DEF vars, rooms, handlers, Past
<1>6. ASSUME NEW n \in Nodes, CreateRoom(n) \/ CloseRoom(n) \/ RemoveRoomOrigin(n) \/ SetRoomNodeMap(n)
      PROVE  Signals'
  <2>1. UNCHANGED <<signalling, step>>
    BY <1>6 DEF CreateRoom, CloseRoom, RemoveRoomOrigin, SetRoomNodeMap, handlers
  <2>2. \A k \in Nodes : busy'[k] = "register" => busy[k] = "register" \/ k \notin Edges
    BY <1>1, <1>6 DEF CreateRoom, CloseRoom, RemoveRoomOrigin, SetRoomNodeMap, Then
  <2> QED BY <1>4, <2>1, <2>2 DEF Past
<1>7. ASSUME NEW n \in Nodes, RegisterRoomOrigin(n) PROVE Signals'
  <2>1. UNCHANGED <<offered, relay, returned, relayed, step>>
    BY <1>7 DEF RegisterRoomOrigin, handlers
  <2>2. \A k \in Nodes : k \in pattern' \/ busy'[k] = "register" => k \notin Edges
    BY <1>2, <1>1, <1>7 DEF RegisterRoomOrigin, Then
  <2> QED BY <2>1, <2>2, SignalsKept DEF Past
<1>8. ASSUME NEW n \in Nodes, UnlinkAllRoomKeys(n) PROVE Signals'
  <2>1. UNCHANGED signalling /\ ClearRoom(n) /\ ShutSockets(n)
    BY <1>8 DEF UnlinkAllRoomKeys
  <2>2. \A s \in Sockets : step'[s] = step[s] \/ step'[s] = "gone"
    BY <2>1 DEF ShutSockets
  <2>3. \A k \in Nodes : busy'[k] = "register" => busy[k] = "register"
    BY <1>1, <2>1 DEF ClearRoom, Then
  <2> QED BY <1>4, <2>1, <2>2, <2>3 DEF Past
<1>9. ASSUME NEW s \in Sockets, FindRoom(s) \/ GetRoomNodeMap(s) \/ JoinViewer(s) \/ JoinSubscribes(s)
                                \/ SetHostClient(s) \/ RemoveViewer(s)
      PROVE  Signals'
  <2>1. UNCHANGED <<signalling, busy>>
    BY <1>9 DEF FindRoom, GetRoomNodeMap, JoinViewer, JoinSubscribes, SetHostClient, RemoveViewer, rooms
  <2>2. \A t \in Sockets : Past(t) => Past(t)'
    BY <1>1, <1>9 DEF FindRoom, GetRoomNodeMap, JoinViewer, JoinSubscribes, SetHostClient,
       RemoveViewer, Go, Past, handlers
  <2> QED BY <1>4, <2>1, <2>2
<1>10. ASSUME NEW s \in Sockets, HandleClientDisconnect(s) PROVE Signals'
  <2>1. End({s}) /\ UNCHANGED <<busy, pattern, offered, relay, returned>>
    BY <1>10 DEF HandleClientDisconnect
  <2>2. \A t \in Sockets : Past(t) => Past(t)'
    BY <2>1 DEF End, Past
  <2>3. \A t \in Sockets : relayed'[t] = relayed[t] \/ relayed'[t] = << >>
    BY <2>1 DEF End
  <2> QED BY <1>2, <1>3, <2>1, <2>2, <2>3
<1>11. ASSUME NEW s \in Sockets, SubscribeViewerSignaling(s) PROVE Signals'
  <2>1. /\ relay' = [relay EXCEPT ![NodeOf[s]][UserOf[s]] = IF @ = None THEN s ELSE @]
        /\ UNCHANGED <<busy, pattern, offered, returned, relayed>>
    BY <1>11 DEF SubscribeViewerSignaling, rooms
  <2>2. \A t \in Sockets : Past(t) => Past(t)'
    BY <1>1, <1>11 DEF SubscribeViewerSignaling, Go, Past
  <2>3. ASSUME NEW n \in Nodes, NEW u \in Users
        PROVE  \/ relay'[n][u] = relay[n][u]
               \/ /\ relay[n][u] = None /\ relay'[n][u] # None
                  /\ NodeOf[relay'[n][u]] = n /\ UserOf[relay'[n][u]] = u
    BY <2>1 DEF TypeOK
  <2> QED BY <1>2, <2>1, <2>2, <2>3, SignalsKept
<1>12. ASSUME NEW n \in Nodes, BroadcastToRoom(n) \/ Listen(n) PROVE Signals'
  BY <1>4, <1>12 DEF BroadcastToRoom, Listen, rooms, handlers, Past
<1>13. ASSUME NEW n \in Nodes, StopNode(n) PROVE Signals'
  <2>1. /\ ClearRoom(n) /\ End(SocketsOf(n)) /\ pattern' = pattern \ {n}
        /\ offered' = [offered EXCEPT ![n] = << >>]
        /\ relay' = [relay EXCEPT ![n] = [u \in Users |-> None]]
        /\ returned' = [returned EXCEPT ![n] = [u \in Users |-> << >>]]
    BY <1>13 DEF StopNode
  <2>2. \A t \in Sockets : /\ Past(t) => Past(t)'
                           /\ relayed'[t] = relayed[t] \/ relayed'[t] = << >>
    BY <2>1 DEF End, Past
  <2>3. \A k \in Nodes : k \in pattern' \/ busy'[k] = "register" => k \notin Edges
    BY <1>2, <1>1, <2>1 DEF ClearRoom, Then
  <2>4. \A k \in Nodes : offered'[k] = offered[k] \/ offered'[k] = << >>
    BY <2>1 DEF TypeOK
  <2>5. ASSUME NEW k \in Nodes, NEW u \in Users
        PROVE  \/ relay'[k][u] = None /\ returned'[k][u] = << >>
               \/ relay'[k][u] = relay[k][u] /\ returned'[k][u] = returned[k][u]
    BY <2>1 DEF TypeOK
  <2> QED BY <2>2, <2>3, <2>4, <2>5, SignalsKept
<1> QED
  BY <1>5, <1>6, <1>7, <1>8, <1>9, <1>10, <1>11, <1>12, <1>13,
     PublishOfferSignals, AnswerOfferSignals, RelayBackSignals DEF Next, Manager, Handler

\* An offer is answered once by each server that listens, so once at most where
\* only one is no edge, and nobody is sent anything but the answers to the
\* offers of its user (redis_broker.go, PublishViewerSignaling and
\* SubscribeViewerSignaling; room_manager.go, HandleRemoteViewerSignaling).
THEOREM AnswersComeOnce == Spec => []OffersAnsweredOnce
<1>1. Init => Signals
  BY ClusterAssumption, EmptyQueue
     DEF ClusterAssumption, Init, Signals, OffersOK, ReturnedOK, RelayedOK
<1>2. TypeOK /\ Signals /\ [Next]_vars => Signals'
  BY SignalsOfStep
<1>3. TypeOK /\ Signals => OffersAnsweredOnce
  <2> SUFFICES ASSUME TypeOK, Signals, Cardinality(Nodes \ Edges) = 1,
                      NEW s \in Sockets, NEW i \in DOMAIN relayed[s]
               PROVE  LET m == relayed[s][i]
                      IN /\ m.event = "answer" /\ UserOf[m.offerer] = UserOf[s]
                         /\ \A j \in DOMAIN relayed[s] : relayed[s][j].offerer = m.offerer => i = j
    BY DEF OffersAnsweredOnce
  <2>1. PICK o : Nodes \ Edges = {o}
    <3>1. IsFiniteSet(Nodes \ Edges)
      BY ClusterAssumption, FS_Difference DEF ClusterAssumption
    <3> QED BY <3>1, FS_Singleton
  <2>2. relayed[s] \in Seq(Message) /\ RelayedOK(s)
    BY DEF TypeOK, Signals
  <2>3. ASSUME NEW j \in DOMAIN relayed[s]
        PROVE  /\ relayed[s][j].event = "answer" /\ UserOf[relayed[s][j].offerer] = UserOf[s]
               /\ relayed[s][j].by = o /\ relayed[s][j] \in Message
    <3>1. relayed[s][j] \in Elements(relayed[s])
      BY DEF Elements
    <3> QED BY <2>1, <2>2, <3>1, ElementsType DEF RelayedOK, Genuine
  <2>4. ASSUME NEW j \in DOMAIN relayed[s], relayed[s][j].offerer = relayed[s][i].offerer
        PROVE  i = j
    <3>1. relayed[s][j] = relayed[s][i]
      BY <2>3, <2>4 DEF Message
    <3> QED BY <2>2, <3>1 DEF RelayedOK, Distinct
  <2> QED BY <2>3, <2>4
<1> QED
  BY <1>1, <1>2, <1>3, TypeCorrect, PTL DEF Spec
=============================================================================
