--------------------------- MODULE EventHubProofs ---------------------------
(***************************************************************************)
(* What the event hub promises, for any runs, sockets and buffer sizes.    *)
(*                                                                         *)
(* ReplayComplete is not inductive: a forgotten run may have lost any      *)
(* event, so the invariant says that its buffer is gone, and that an event *)
(* of a run that is known is kept or lies under the floor.                 *)
(* ProtectedDelivered needs to know that a socket without a subscription   *)
(* has nothing left over from its last one, and that no subscription is    *)
(* closed while events are still published.                                *)
(***************************************************************************)
EXTENDS EventHub, FiniteSetTheorems, NaturalsInduction, WellFoundedInduction, TLAPS

KeptOrUnderFloor ==
    /\ \A r \in Runs : r \notin known => replay[r] = {}
    /\ \A r \in known : \A i \in replay[r] : log[i].run = r
    /\ \A r \in known : \A i \in DOMAIN log : log[i].run = r => i \in replay[r] \/ i <= floor[r]

CleanSockets ==
    \A s \in Subscribers :
        /\ sub[s] = "none" => buf[s] = {} /\ head[s] = 0 /\ skipped[s] = {}
        /\ up => sub[s] # "closed"

HubInv == TypeOK /\ KeptOrUnderFloor /\ CleanSockets /\ ProtectedDelivered

(* A non-empty set of numbers has a least one.                             *)
LEMMA HasOldest ==
    ASSUME NEW S \in SUBSET Nat, S # {}
    PROVE  Oldest(S) # {}
  <1>1. PICK m \in S : \A n \in S : ~(<<n, m>> \in OpToRel(<, Nat))
    BY NatLessThanWellFounded, WFMin
  <1>2. \A n \in S : ~(n < m)
    BY <1>1 DEF OpToRel
  <1>3. \A n \in S : n \in Nat /\ m \in Nat
    OBVIOUS
  <1> QED
    BY <1>2, <1>3 DEF Oldest

(* There is at most one oldest element, and it is in the set.              *)
LEMMA OldestIsOne ==
    ASSUME NEW S \in SUBSET Nat, NEW i \in Oldest(S)
    PROVE  i \in S /\ (\A j \in S : i <= j) /\ Oldest(S) = {i}
  <1>1. i \in S /\ \A j \in S : i <= j
    BY DEF Oldest
  <1>2. \A j \in Oldest(S) : j \in Nat /\ i \in Nat /\ j <= i /\ i <= j
    BY <1>1 DEF Oldest
  <1>3. \A j \in Oldest(S) : j = i
    BY <1>2
  <1> QED
    BY <1>1, <1>3

(* What is evicted is one event of the buffer, and it is chatter.          *)
LEMMA EvictsChatter ==
    ASSUME NEW S \in SUBSET Nat, NEW limit
    PROVE  /\ Evicted(S, limit) \subseteq Chatter(S)
           /\ \A i \in Evicted(S, limit) : Evicted(S, limit) = {i}
  BY OldestIsOne DEF Evicted, Chatter, Oldest

(* Publishing adds one event at the end of the log.                        *)
LEMMA LogGrows ==
    ASSUME TypeOK, NEW r \in Runs, NEW kind \in Kinds, NEW gone, Publish(r, kind, gone)
    PROVE  /\ log' \in Seq(Event) /\ Len(log) \in Nat /\ Len(log') = Place /\ Place \in Nat
           /\ DOMAIN log = 1..Len(log) /\ DOMAIN log' = DOMAIN log \cup {Place}
           /\ \A i \in DOMAIN log : log'[i] = log[i] /\ i < Place /\ i \in Nat
           /\ log'[Place] = [run |-> r, kind |-> kind]
  <1>1. log \in Seq(Event) /\ [run |-> r, kind |-> kind] \in Event
    BY DEF TypeOK, Event
  <1>2. log' = Append(log, [run |-> r, kind |-> kind])
    BY DEF Publish
  <1>3. /\ log' \in Seq(Event) /\ Len(log) \in Nat /\ Len(log') = Place /\ Place \in Nat
        /\ DOMAIN log = 1..Len(log) /\ DOMAIN log' = 1..(Len(log) + 1)
    BY <1>1, <1>2 DEF Place
  <1>4. \A i \in DOMAIN log : log'[i] = log[i] /\ i < Place /\ i \in Nat
    BY <1>1, <1>2, <1>3 DEF Place
  <1>5. log'[Place] = [run |-> r, kind |-> kind]
    BY <1>1, <1>2, <1>3 DEF Place
  <1>6. DOMAIN log' = DOMAIN log \cup {Place}
    BY <1>3 DEF Place
  <1> QED
    BY <1>3, <1>4, <1>5, <1>6

(* A full buffer loses chatter only: what is pushed adds the new event,    *)
(* unless that is chatter, and keeps everything else that is not.          *)
LEMMA PushKeeps ==
    ASSUME TypeOK, NEW S \in SUBSET DOMAIN log, NEW limit, NEW kind \in Kinds
    PROVE  /\ Pushed(S, limit, kind) \subseteq S \cup {Place}
           /\ \A i \in S : i \in Pushed(S, limit, kind) \/ Droppable(i)
           /\ kind # "chatter" => Place \in Pushed(S, limit, kind)
  <1>1. S \in SUBSET Nat
    BY DEF TypeOK
  <1>2. Evicted(S, limit) \subseteq Chatter(S)
    BY <1>1, EvictsChatter
  <1> QED
    BY <1>2 DEF Pushed, Shed, Chatter

(* The floor never sinks, and everything dropped lies under it.            *)
LEMMA FloorCovers ==
    ASSUME TypeOK, NEW r \in Runs, NEW kind \in Kinds
    PROVE  /\ Floor(r, kind) \in 0..Place /\ floor[r] <= Floor(r, kind)
           /\ \A i \in replay[r] \cup {Place} :
                i \in Pushed(replay[r], ReplayLimit, kind) \/ i <= Floor(r, kind)
  <1> DEFINE S == replay[r]
             E == Evicted(S, ReplayLimit)
  <1>1. /\ S \in SUBSET Nat /\ Len(log) \in Nat /\ floor[r] \in 0..Len(log)
        /\ \A i \in S : i <= Len(log)
    BY DEF TypeOK
  <1>2. E \subseteq S /\ \A i \in E : E = {i}
    BY <1>1, EvictsChatter DEF Chatter
  <1>3. CASE Shed(S, ReplayLimit, kind)
    BY <1>1, <1>3 DEF Floor, Pushed, Higher, Place
  <1>4. CASE ~Shed(S, ReplayLimit, kind) /\ E = {}
    BY <1>1, <1>4 DEF Floor, Pushed, Place
  <1>5. CASE ~Shed(S, ReplayLimit, kind) /\ E # {}
    <2>1. PICK e \in E : E = {e}
      BY <1>2, <1>5
    <2>2. (CHOOSE i \in E : TRUE) = e
      BY <2>1
    <2>3. Floor(r, kind) = Higher(floor[r], e)
      BY <1>5, <2>2 DEF Floor
    <2>4. e \in S /\ Pushed(S, ReplayLimit, kind) = (S \ {e}) \cup {Place}
      BY <1>2, <1>5, <2>1 DEF Pushed
    <2> QED
      BY <1>1, <2>3, <2>4 DEF Higher, Place
  <1> QED
    BY <1>3, <1>4, <1>5

-----------------------------------------------------------------------------
(* A step of the pump, and what it leaves alone.                           *)
LEMMA PumpTakesNext ==
    ASSUME HubInv, NEW s \in Subscribers, Get(s)
    PROVE  \E i \in buf[s] :
            /\ i \in DOMAIN log /\ i > head[s] /\ \A j \in buf[s] : i <= j
            /\ buf' = [buf EXCEPT ![s] = @ \ {i}] /\ head' = [head EXCEPT ![s] = i]
            /\ skipped' = IF log[i].run \in known THEN skipped
                          ELSE [skipped EXCEPT ![s] = @ \cup {i}]
  <1>1. PICK i \in Oldest(buf[s]) :
            /\ buf' = [buf EXCEPT ![s] = @ \ {i}] /\ head' = [head EXCEPT ![s] = i]
            /\ skipped' = IF log[i].run \in known THEN skipped
                          ELSE [skipped EXCEPT ![s] = @ \cup {i}]
    BY DEF Get
  <1>2. buf[s] \in SUBSET Nat /\ buf[s] \in SUBSET DOMAIN log
    BY DEF HubInv, TypeOK
  <1>3. i \in buf[s] /\ (\A j \in buf[s] : i <= j) /\ i \in DOMAIN log
    BY <1>2, OldestIsOne
  <1>4. i > head[s]
    BY <1>3 DEF HubInv, CleanSockets, ProtectedDelivered
  <1> QED
    BY <1>1, <1>3, <1>4

LEMMA TypePreserved ==
    HubInv /\ [Next]_vars => TypeOK'
  <1> SUFFICES ASSUME HubInv, [Next]_vars PROVE TypeOK'
    OBVIOUS
  <1>t. TypeOK /\ Len(log) \in Nat /\ DOMAIN log = 1..Len(log)
    BY DEF HubInv, TypeOK
  <1>1. ASSUME NEW r \in Runs, NEW kind \in Kinds, NEW gone \in SUBSET Runs, Publish(r, kind, gone)
        PROVE TypeOK'
    <2>1. /\ log' \in Seq(Event) /\ Len(log') = Place /\ Place \in Nat
          /\ DOMAIN log' = DOMAIN log \cup {Place}
      BY <1>t, <1>1, LogGrows
    <2>2. \A limit : \A S \in SUBSET DOMAIN log : Pushed(S, limit, kind) \in SUBSET DOMAIN log'
      BY <1>t, <2>1, PushKeeps
    <2>3. replay' \in [Runs -> SUBSET DOMAIN log']
      <3>1. \A q \in Runs : replay[q] \in SUBSET DOMAIN log
        BY <1>t DEF TypeOK
      <3> QED
        BY <1>1, <2>1, <2>2, <3>1 DEF Publish
    <2>4. floor' \in [Runs -> 0..Len(log')]
      <3>1. Floor(r, kind) \in 0..Place
        BY <1>t, FloorCovers
      <3>2. 0 \in 0..Place /\ \A q \in Runs : floor[q] \in 0..Place
        BY <1>t, <2>1 DEF TypeOK, Place
      <3>3. floor' = [q \in Runs |-> IF q = r THEN Floor(r, kind) ELSE IF q \in gone THEN 0 ELSE floor[q]]
        BY <1>1 DEF Publish
      <3>4. \A q \in Runs : (IF q = r THEN Floor(r, kind) ELSE IF q \in gone THEN 0 ELSE floor[q]) \in 0..Place
        BY <3>1, <3>2
      <3> QED
        BY <2>1, <3>3, <3>4
    <2>5. buf' \in [Subscribers -> SUBSET DOMAIN log']
      <3>1. \A s \in Subscribers : buf[s] \in SUBSET DOMAIN log
        BY <1>t DEF TypeOK
      <3> QED
        BY <1>1, <2>1, <2>2, <3>1 DEF Publish
    <2>6. from' \in [Subscribers -> 0..Len(log')] /\ head' \in [Subscribers -> 0..Len(log')]
      <3>1. \A s \in Subscribers : from[s] \in 0..Place /\ head[s] \in 0..Place
        BY <1>t DEF TypeOK, Place
      <3> QED
        BY <1>t, <1>1, <2>1, <3>1 DEF TypeOK, Publish
    <2>7. skipped' \in [Subscribers -> SUBSET DOMAIN log']
      BY <1>t, <1>1, <2>1 DEF TypeOK, Publish
    <2>8. known' \subseteq Runs /\ sub' = sub /\ up' = up
      BY <1>t, <1>1 DEF TypeOK, Publish
    <2> QED
      BY <1>t, <2>1, <2>3, <2>4, <2>5, <2>6, <2>7, <2>8 DEF TypeOK
  <1>2. ASSUME NEW s \in Subscribers, Subscribe(s) PROVE TypeOK'
    BY <1>t, <1>2 DEF TypeOK, Subscribe
  <1>3. ASSUME NEW s \in Subscribers, Get(s) PROVE TypeOK'
    <2>1. PICK i \in buf[s] :
            /\ i \in DOMAIN log
            /\ buf' = [buf EXCEPT ![s] = @ \ {i}] /\ head' = [head EXCEPT ![s] = i]
            /\ skipped' = IF log[i].run \in known THEN skipped
                          ELSE [skipped EXCEPT ![s] = @ \cup {i}]
      BY <1>3, PumpTakesNext
    <2>2. buf' \in [Subscribers -> SUBSET DOMAIN log] /\ head' \in [Subscribers -> 0..Len(log)]
      BY <1>t, <2>1 DEF TypeOK
    <2>3. skipped' \in [Subscribers -> SUBSET DOMAIN log]
      BY <1>t, <2>1 DEF TypeOK
    <2> QED
      BY <1>t, <1>3, <2>2, <2>3 DEF TypeOK, Get
  <1>4. ASSUME NEW s \in Subscribers, Unsubscribe(s) PROVE TypeOK'
    BY <1>t, <1>4 DEF TypeOK, Unsubscribe
  <1>5. CASE Close
    BY <1>t, <1>5 DEF TypeOK, Close
  <1>6. CASE UNCHANGED vars
    BY <1>t, <1>6 DEF TypeOK, vars
  <1> QED
    BY <1>1, <1>2, <1>3, <1>4, <1>5, <1>6 DEF Next

(* Only publishing touches the replay buffers.                             *)
LEMMA ReplayPreserved ==
    HubInv /\ [Next]_vars => KeptOrUnderFloor'
  <1> SUFFICES ASSUME HubInv, [Next]_vars PROVE KeptOrUnderFloor'
    OBVIOUS
  <1>k. TypeOK /\ KeptOrUnderFloor
    BY DEF HubInv
  <1>1. ASSUME NEW r \in Runs, NEW kind \in Kinds, NEW gone \in SUBSET Runs, Publish(r, kind, gone)
        PROVE KeptOrUnderFloor'
    <2>1. /\ DOMAIN log' = DOMAIN log \cup {Place} /\ log'[Place] = [run |-> r, kind |-> kind]
          /\ \A i \in DOMAIN log : log'[i] = log[i] /\ i < Place
      BY <1>k, <1>1, LogGrows
    <2>2. /\ known' = (known \cup {r}) \ gone /\ r \notin gone /\ known \subseteq Runs
          /\ r \notin known => \A i \in DOMAIN log : log[i].run # r
      BY <1>k, <1>1 DEF Publish, TypeOK, Of
    <2>3. \A q \in Runs : q # r /\ q \notin gone => replay'[q] = replay[q] /\ floor'[q] = floor[q]
      BY <1>1 DEF Publish
    <2>4. \A q \in Runs : q # r /\ q \in gone => replay'[q] = {}
      BY <1>1 DEF Publish
    <2>5. replay'[r] = Pushed(replay[r], ReplayLimit, kind) /\ floor'[r] = Floor(r, kind)
      BY <1>1 DEF Publish
    <2>6. replay[r] \in SUBSET DOMAIN log /\ \A q \in Runs : replay[q] \in SUBSET DOMAIN log
      BY <1>k DEF TypeOK
    <2>7. \A q \in Runs : q \notin known' => replay'[q] = {}
      BY <1>k, <2>2, <2>3, <2>4 DEF KeptOrUnderFloor
    <2>8. \A q \in known' : \A i \in replay'[q] : log'[i].run = q
      <3>1. \A i \in replay'[r] : i \in replay[r] \/ i = Place
        BY <1>k, <2>5, <2>6, PushKeeps
      <3>2. \A i \in replay[r] : log[i].run = r
        BY <1>k, <2>2 DEF KeptOrUnderFloor
      <3>3. \A q \in known' : q # r => q \in known /\ q \in Runs /\ q \notin gone
        BY <2>2
      <3> QED
        BY <1>k, <2>1, <2>3, <2>6, <3>1, <3>2, <3>3 DEF KeptOrUnderFloor
    <2>9. \A q \in known' : \A i \in DOMAIN log' : log'[i].run = q => i \in replay'[q] \/ i <= floor'[q]
      <3> SUFFICES ASSUME NEW q \in known', NEW i \in DOMAIN log', log'[i].run = q
                   PROVE  i \in replay'[q] \/ i <= floor'[q]
        OBVIOUS
      <3>1. CASE q # r
        <4>1. i \in DOMAIN log /\ log[i].run = q
          BY <2>1, <3>1
        <4>2. q \in known /\ q \in Runs /\ q \notin gone
          BY <2>2, <3>1
        <4> QED
          BY <1>k, <2>3, <3>1, <4>1, <4>2 DEF KeptOrUnderFloor
      <3>2. CASE q = r /\ i = Place
        BY <1>k, <2>5, <3>2, FloorCovers
      <3>3. CASE q = r /\ i # Place
        <4>1. i \in DOMAIN log /\ log[i].run = r /\ r \in known
          BY <2>1, <2>2, <3>3
        <4>2. i \in replay[r] \/ i <= floor[r]
          BY <1>k, <4>1 DEF KeptOrUnderFloor
        <4>3. CASE i \in replay[r]
          BY <1>k, <2>5, <3>3, <4>3, FloorCovers
        <4>4. CASE i <= floor[r]
          <5>1. floor[r] <= Floor(r, kind) /\ Floor(r, kind) \in 0..Place
            BY <1>k, FloorCovers
          <5>2. floor[r] \in Nat /\ i \in Nat /\ Floor(r, kind) \in Nat
            BY <1>k, <4>1, <5>1 DEF TypeOK, Place
          <5>3. i <= Floor(r, kind)
            BY <4>4, <5>1, <5>2
          <5> QED
            BY <2>5, <3>3, <5>3
        <4> QED
          BY <4>2, <4>3, <4>4
      <3> QED
        BY <3>1, <3>2, <3>3
    <2> QED
      BY <2>7, <2>8, <2>9 DEF KeptOrUnderFloor
  <1>2. ASSUME NEW s \in Subscribers, Subscribe(s) \/ Get(s) \/ Unsubscribe(s)
        PROVE  KeptOrUnderFloor'
    BY <1>k, <1>2 DEF KeptOrUnderFloor, Subscribe, Get, Unsubscribe
  <1>3. CASE Close
    BY <1>k, <1>3 DEF KeptOrUnderFloor, Close
  <1>4. CASE UNCHANGED vars
    BY <1>k, <1>4 DEF KeptOrUnderFloor, vars
  <1> QED
    BY <1>1, <1>2, <1>3, <1>4 DEF Next

LEMMA SocketsPreserved ==
    HubInv /\ [Next]_vars => CleanSockets'
  <1> SUFFICES ASSUME HubInv, [Next]_vars PROVE CleanSockets'
    OBVIOUS
  <1>c. TypeOK /\ CleanSockets
    BY DEF HubInv
  <1>1. ASSUME NEW r \in Runs, NEW kind \in Kinds, NEW gone \in SUBSET Runs, Publish(r, kind, gone)
        PROVE CleanSockets'
    BY <1>c, <1>1 DEF CleanSockets, Publish
  <1>2. ASSUME NEW s \in Subscribers, Subscribe(s) PROVE CleanSockets'
    BY <1>c, <1>2 DEF CleanSockets, Subscribe, TypeOK
  <1>3. ASSUME NEW s \in Subscribers, Get(s) PROVE CleanSockets'
    <2>1. PICK i \in buf[s] :
            /\ buf' = [buf EXCEPT ![s] = @ \ {i}] /\ head' = [head EXCEPT ![s] = i]
            /\ skipped' = IF log[i].run \in known THEN skipped
                          ELSE [skipped EXCEPT ![s] = @ \cup {i}]
      BY <1>3, PumpTakesNext
    <2>2. sub[s] # "none" /\ sub' = sub /\ up' = up
      BY <1>c, <1>3, <2>1 DEF CleanSockets, Get
    <2>3. \A q \in Subscribers : q # s => buf'[q] = buf[q] /\ head'[q] = head[q] /\ skipped'[q] = skipped[q]
      BY <1>c, <2>1 DEF TypeOK
    <2> QED
      BY <1>c, <2>2, <2>3 DEF CleanSockets
  <1>4. ASSUME NEW s \in Subscribers, Unsubscribe(s) PROVE CleanSockets'
    BY <1>c, <1>4 DEF CleanSockets, Unsubscribe, TypeOK
  <1>5. CASE Close
    BY <1>c, <1>5 DEF CleanSockets, Close, TypeOK
  <1>6. CASE UNCHANGED vars
    BY <1>c, <1>6 DEF CleanSockets, vars
  <1> QED
    BY <1>1, <1>2, <1>3, <1>4, <1>5, <1>6 DEF Next

(* The promise to one socket.                                              *)
Delivered(s) ==
    sub[s] # "none" =>
        /\ \A i \in DOMAIN log :
            i > from[s] /\ log[i].run \in Watches[s] /\ ~Droppable(i) => i \in buf[s] \/ i <= head[s]
        /\ \A i \in buf[s] : i > head[s]
        /\ \A i \in skipped[s] : log[i].run \notin known

LEMMA DeliveryPreserved ==
    HubInv /\ [Next]_vars => ProtectedDelivered'
  <1> SUFFICES ASSUME HubInv, [Next]_vars, NEW s \in Subscribers PROVE Delivered(s)'
    BY DEF ProtectedDelivered, Delivered
  <1>d. TypeOK /\ CleanSockets /\ Delivered(s)
    BY DEF HubInv, ProtectedDelivered, Delivered
  <1>1. ASSUME NEW r \in Runs, NEW kind \in Kinds, NEW gone \in SUBSET Runs, Publish(r, kind, gone)
        PROVE Delivered(s)'
    <2> SUFFICES ASSUME sub[s] # "none"
                 PROVE  /\ \A i \in DOMAIN log' :
                            i > from[s] /\ log'[i].run \in Watches[s] /\ log'[i].kind # "chatter"
                                => i \in buf'[s] \/ i <= head[s]
                        /\ \A i \in buf'[s] : i > head[s]
                        /\ \A i \in skipped[s] : log'[i].run \notin known'
      BY <1>1 DEF Delivered, Publish, Droppable
    <2>1. /\ DOMAIN log' = DOMAIN log \cup {Place} /\ log'[Place] = [run |-> r, kind |-> kind]
          /\ \A i \in DOMAIN log : log'[i] = log[i] /\ i < Place /\ i \in Nat
      BY <1>d, <1>1, LogGrows
    <2>2. sub[s] = "open"
      BY <1>d, <1>1 DEF CleanSockets, TypeOK, Publish
    <2>3. /\ buf[s] \in SUBSET DOMAIN log /\ skipped[s] \in SUBSET DOMAIN log
          /\ head[s] \in Nat /\ Place > head[s]
      BY <1>d DEF TypeOK, Place
    <2>4. buf'[s] = IF r \in Watches[s] THEN Pushed(buf[s], Buffer, kind) ELSE buf[s]
      BY <1>1, <2>2 DEF Publish
    <2>5. \A i \in skipped[s] : log'[i].run \notin known'
      <3>1. known' \subseteq known \cup {r} /\ (r \notin known => \A i \in DOMAIN log : log[i].run # r)
        BY <1>1 DEF Publish, Of
      <3> QED
        BY <1>d, <2>1, <2>3, <3>1 DEF Delivered
    <2>6. \A i \in buf'[s] : i > head[s]
      <3>1. \A i \in buf'[s] : i \in buf[s] \/ i = Place
        BY <1>d, <2>3, <2>4, PushKeeps
      <3> QED
        BY <1>d, <2>3, <3>1 DEF Delivered
    <2>7. ASSUME NEW i \in DOMAIN log', i > from[s], log'[i].run \in Watches[s], log'[i].kind # "chatter"
          PROVE  i \in buf'[s] \/ i <= head[s]
      <3>1. CASE i = Place
        <4>1. r \in Watches[s] /\ kind # "chatter"
          BY <2>1, <2>7, <3>1
        <4> QED
          BY <1>d, <2>3, <2>4, <3>1, <4>1, PushKeeps
      <3>2. CASE i \in DOMAIN log
        <4>1. ~Droppable(i) /\ log[i].run \in Watches[s]
          BY <2>1, <2>7, <3>2 DEF Droppable
        <4>2. i \in buf[s] \/ i <= head[s]
          BY <1>d, <2>7, <3>2, <4>1 DEF Delivered
        <4>3. i \in buf[s] => i \in buf'[s]
          BY <1>d, <2>3, <2>4, <4>1, PushKeeps
        <4> QED
          BY <4>2, <4>3
      <3> QED
        BY <2>1, <3>1, <3>2
    <2> QED
      BY <2>5, <2>6, <2>7
  <1>2. ASSUME NEW q \in Subscribers, Subscribe(q) PROVE Delivered(s)'
    <2>1. CASE q = s
      <3>1. buf[s] = {} /\ skipped[s] = {} /\ from'[s] = Len(log)
        BY <1>d, <1>2, <2>1 DEF Subscribe, CleanSockets, TypeOK
      <3>2. \A i \in DOMAIN log : ~(i > Len(log))
        BY <1>d DEF TypeOK
      <3> QED
        BY <1>2, <3>1, <3>2 DEF Delivered, Subscribe
    <2>2. CASE q # s
      BY <1>d, <1>2, <2>2 DEF Delivered, Subscribe, TypeOK, Droppable
    <2> QED
      BY <2>1, <2>2
  <1>3. ASSUME NEW q \in Subscribers, Get(q) PROVE Delivered(s)'
    <2>1. PICK i \in buf[q] :
            /\ i \in DOMAIN log /\ i > head[q] /\ \A j \in buf[q] : i <= j
            /\ buf' = [buf EXCEPT ![q] = @ \ {i}] /\ head' = [head EXCEPT ![q] = i]
            /\ skipped' = IF log[i].run \in known THEN skipped
                          ELSE [skipped EXCEPT ![q] = @ \cup {i}]
      BY <1>3, PumpTakesNext
    <2>u. UNCHANGED <<log, known, sub, from>>
      BY <1>3 DEF Get
    <2>2. CASE q # s
      <3>1. buf'[s] = buf[s] /\ head'[s] = head[s] /\ skipped'[s] = skipped[s]
        BY <1>d, <2>1, <2>2 DEF TypeOK
      <3> QED
        BY <1>d, <2>u, <3>1 DEF Delivered, Droppable
    <2>3. CASE q = s
      <3> SUFFICES ASSUME sub[s] # "none" PROVE Delivered(s)'
        BY <2>u DEF Delivered
      <3>1. /\ buf'[s] = buf[s] \ {i} /\ head'[s] = i
            /\ skipped'[s] = skipped[s] \/ (skipped'[s] = skipped[s] \cup {i} /\ log[i].run \notin known)
        BY <1>d, <2>1, <2>3 DEF TypeOK
      <3>2. buf[s] \in SUBSET Nat /\ head[s] \in Nat /\ i \in Nat /\ DOMAIN log \in SUBSET Nat
        BY <1>d, <2>1 DEF TypeOK
      <3>3. \A j \in buf[s] : i <= j
        BY <2>1, <2>3
      <3>4. \A j \in buf'[s] : j > head'[s]
        BY <3>1, <3>2, <3>3
      <3>5. \A j \in DOMAIN log : j \in buf[s] \/ j <= head[s] => j \in buf'[s] \/ j <= head'[s]
        BY <2>1, <2>3, <3>1, <3>2
      <3>6. \A j \in skipped'[s] : log[j].run \notin known
        BY <1>d, <3>1 DEF Delivered
      <3> QED
        BY <1>d, <2>u, <3>4, <3>5, <3>6 DEF Delivered, Droppable
    <2> QED
      BY <2>2, <2>3
  <1>4. ASSUME NEW q \in Subscribers, Unsubscribe(q) PROVE Delivered(s)'
    BY <1>d, <1>4 DEF Delivered, Unsubscribe, TypeOK, Droppable
  <1>5. CASE Close
    <2>1. UNCHANGED <<log, known, from, buf, head, skipped>> /\ (sub'[s] # "none" => sub[s] # "none")
      BY <1>d, <1>5 DEF Close, TypeOK
    <2> QED
      BY <1>d, <2>1 DEF Delivered, Droppable
  <1>6. CASE UNCHANGED vars
    BY <1>d, <1>6 DEF Delivered, vars, Droppable
  <1> QED
    BY <1>1, <1>2, <1>3, <1>4, <1>5, <1>6 DEF Next

-----------------------------------------------------------------------------
(* The inductive invariant holds of every behaviour of the hub.            *)
THEOREM HubInvariant == Spec => []HubInv
  <1>1. Init => HubInv
    BY DEF Init, HubInv, TypeOK, KeptOrUnderFloor, CleanSockets, ProtectedDelivered, Event
  <1>2. HubInv /\ [Next]_vars => HubInv'
    BY TypePreserved, ReplayPreserved, SocketsPreserved, DeliveryPreserved DEF HubInv
  <1> QED
    BY <1>1, <1>2, PTL DEF Spec

(* Every variable of the hub keeps its type, whatever is published.        *)
THEOREM HubTypes == Spec => []TypeOK
  <1>1. HubInv => TypeOK
    BY DEF HubInv
  <1> QED
    BY <1>1, HubInvariant, PTL

(* _JobReplay.after gives a client that is not told to resynchronise every *)
(* event it has not seen, for any limit of the replay buffer.              *)
THEOREM ReplayIsComplete == Spec => []ReplayComplete
  <1>1. HubInv => ReplayComplete
    <2> SUFFICES ASSUME HubInv, NEW r \in known, NEW seq \in 0..Len(log), seq >= floor[r]
                 PROVE  {i \in replay[r] : i > seq} = {i \in Of(r) : i > seq}
      BY DEF ReplayComplete
    <2>1. /\ replay[r] \in SUBSET DOMAIN log /\ floor[r] \in Nat /\ seq \in Nat
          /\ DOMAIN log \in SUBSET Nat
      BY DEF HubInv, TypeOK
    <2>2. \A i \in replay[r] : log[i].run = r
      BY DEF HubInv, KeptOrUnderFloor
    <2>3. \A i \in DOMAIN log : log[i].run = r /\ i > seq => i \in replay[r]
      <3>1. \A i \in DOMAIN log : log[i].run = r => i \in replay[r] \/ i <= floor[r]
        BY DEF HubInv, KeptOrUnderFloor
      <3> QED
        BY <2>1, <3>1
    <2> QED
      BY <2>1, <2>2, <2>3 DEF Of
  <1> QED
    BY <1>1, HubInvariant, PTL

(* Subscription.push and the pump lose no event that is not chatter, for   *)
(* any buffer and however slow the socket is, except that `visible` passes *)
(* over what is buffered for a run the queue has forgotten meanwhile.      *)
THEOREM NothingProtectedIsLost == Spec => []ProtectedDelivered
  <1>1. HubInv => ProtectedDelivered
    BY DEF HubInv
  <1> QED
    BY <1>1, HubInvariant, PTL

-----------------------------------------------------------------------------
(* A buffer over its bound holds no chatter.                               *)
Bends(S, limit) == Cardinality(S) > limit => Chatter(S) = {}

(* A buffer is finite: the log is.                                         *)
LEMMA PlacesAreFinite ==
    ASSUME TypeOK, NEW S \in SUBSET DOMAIN log
    PROVE  IsFiniteSet(S) /\ Cardinality(S) \in Nat
  <1>1. Len(log) \in Nat /\ DOMAIN log = 1..Len(log)
    BY DEF TypeOK
  <1>2. 1 \in Int /\ Len(log) \in Int
    BY <1>1
  <1>3. IsFiniteSet(1..Len(log))
    BY <1>2, FS_Interval
  <1> QED
    BY <1>1, <1>3, FS_Subset, FS_CardinalityType

(* A push into a buffer grows it beyond the bound only if the buffer and   *)
(* the new event are free of chatter.                                      *)
LEMMA PushBends ==
    ASSUME TypeOK, NEW r \in Runs, NEW kind \in Kinds, NEW gone, Publish(r, kind, gone),
           NEW S \in SUBSET DOMAIN log, NEW limit \in Nat, Bends(S, limit)
    PROVE  Cardinality(Pushed(S, limit, kind)) > limit =>
                \A i \in Pushed(S, limit, kind) : log'[i].kind # "chatter"
  <1>1. /\ Place \notin S /\ S \in SUBSET Nat /\ log'[Place] = [run |-> r, kind |-> kind]
        /\ \A i \in S : log'[i] = log[i]
    BY LogGrows
  <1>2. IsFiniteSet(S) /\ Cardinality(S) \in Nat
    BY PlacesAreFinite
  <1>3. CASE Shed(S, limit, kind)
    BY <1>1, <1>3 DEF Pushed, Shed, Chatter, Droppable
  <1>4. CASE ~Full(S, limit)
    <2>1. Pushed(S, limit, kind) = S \cup {Place}
      BY <1>4 DEF Pushed, Shed, Evicted
    <2>2. Cardinality(S \cup {Place}) = Cardinality(S) + 1
      BY <1>1, <1>2, FS_AddElement
    <2> QED
      BY <1>2, <1>4, <2>1, <2>2 DEF Full
  <1>5. CASE Full(S, limit) /\ Chatter(S) = {} /\ kind # "chatter"
    <2>1. \A i \in Pushed(S, limit, kind) : i \in S \/ i = Place
      BY DEF Pushed
    <2>2. \A i \in S : log[i].kind # "chatter"
      BY <1>5 DEF Chatter, Droppable
    <2> QED
      BY <1>1, <1>5, <2>1, <2>2
  <1>6. CASE Full(S, limit) /\ Chatter(S) # {}
    <2>1. PICK e \in Oldest(Chatter(S)) : TRUE
      <3>1. Chatter(S) \in SUBSET Nat
        BY <1>1 DEF Chatter
      <3> QED
        BY <1>6, <3>1, HasOldest
    <2>2. e \in S /\ Evicted(S, limit) = {e}
      <3>1. Chatter(S) \in SUBSET Nat /\ Chatter(S) \subseteq S
        BY <1>1 DEF Chatter
      <3>2. e \in Chatter(S) /\ Oldest(Chatter(S)) = {e}
        BY <2>1, <3>1, OldestIsOne
      <3> QED
        BY <1>6, <3>1, <3>2 DEF Evicted
    <2>3. Pushed(S, limit, kind) = (S \ {e}) \cup {Place}
      BY <1>6, <2>2 DEF Pushed, Shed
    <2>4. IsFiniteSet(S \ {e}) /\ Cardinality(S \ {e}) = Cardinality(S) - 1
      BY <1>2, <2>2, FS_RemoveElement
    <2>5. Cardinality((S \ {e}) \cup {Place}) = Cardinality(S \ {e}) + 1
      BY <1>1, <2>4, FS_AddElement
    <2>6. ~(Cardinality(S) > limit)
      BY <1>6 DEF Bends
    <2> QED
      BY <1>2, <2>3, <2>4, <2>5, <2>6
  <1> QED
    BY <1>3, <1>4, <1>5, <1>6 DEF Shed

LEMMA BoundsPreserved ==
    TypeOK /\ BoundOnlyBends /\ [Next]_vars => BoundOnlyBends'
  <1> SUFFICES ASSUME TypeOK, BoundOnlyBends, [Next]_vars
               PROVE  /\ \A s \in Subscribers : Bends(buf[s], Buffer)'
                      /\ \A r \in Runs : Bends(replay[r], ReplayLimit)'
    BY DEF BoundOnlyBends, Bends
  <1>b. /\ \A s \in Subscribers : Bends(buf[s], Buffer) /\ buf[s] \in SUBSET DOMAIN log
        /\ \A r \in Runs : Bends(replay[r], ReplayLimit) /\ replay[r] \in SUBSET DOMAIN log
        /\ Buffer \in Nat /\ ReplayLimit \in Nat
    BY HubAssumption DEF BoundOnlyBends, Bends, TypeOK
  <1>e. Cardinality({}) = 0 /\ \A n \in Nat : ~(0 > n)
    BY FS_EmptySet
  <1>1. ASSUME NEW r \in Runs, NEW kind \in Kinds, NEW gone \in SUBSET Runs, Publish(r, kind, gone)
        PROVE  /\ \A s \in Subscribers : Bends(buf[s], Buffer)'
               /\ \A q \in Runs : Bends(replay[q], ReplayLimit)'
    <2>1. \A i \in DOMAIN log : log'[i] = log[i]
      BY <1>1, LogGrows
    <2>2. ASSUME NEW s \in Subscribers PROVE Bends(buf[s], Buffer)'
      <3>1. buf'[s] = Pushed(buf[s], Buffer, kind) \/ buf'[s] = buf[s]
        BY <1>1 DEF Publish
      <3>2. CASE buf'[s] = Pushed(buf[s], Buffer, kind)
        <4>1. Cardinality(buf'[s]) > Buffer => \A i \in buf'[s] : log'[i].kind # "chatter"
          BY <1>1, <1>b, <3>2, PushBends
        <4> QED
          BY <4>1 DEF Bends, Chatter, Droppable
      <3>3. CASE buf'[s] = buf[s]
        BY <1>b, <2>1, <3>3 DEF Bends, Chatter, Droppable
      <3> QED
        BY <3>1, <3>2, <3>3
    <2>3. ASSUME NEW q \in Runs PROVE Bends(replay[q], ReplayLimit)'
      <3>1. \/ q = r /\ replay'[q] = Pushed(replay[q], ReplayLimit, kind)
            \/ replay'[q] = {} \/ replay'[q] = replay[q]
        BY <1>1 DEF Publish
      <3>2. CASE replay'[q] = Pushed(replay[q], ReplayLimit, kind)
        <4>1. Cardinality(replay'[q]) > ReplayLimit => \A i \in replay'[q] : log'[i].kind # "chatter"
          BY <1>1, <1>b, <3>2, PushBends
        <4> QED
          BY <4>1 DEF Bends, Chatter, Droppable
      <3>3. CASE replay'[q] = replay[q]
        BY <1>b, <2>1, <3>3 DEF Bends, Chatter, Droppable
      <3>4. CASE replay'[q] = {}
        BY <3>4 DEF Bends, Chatter
      <3> QED
        BY <3>1, <3>2, <3>3, <3>4
    <2> QED
      BY <2>2, <2>3
  <1>2. ASSUME NEW p \in Subscribers, Subscribe(p) \/ Get(p) \/ Unsubscribe(p)
        PROVE  /\ \A s \in Subscribers : Bends(buf[s], Buffer)'
               /\ \A q \in Runs : Bends(replay[q], ReplayLimit)'
    <2>1. UNCHANGED <<log, replay>>
      BY <1>2 DEF Subscribe, Get, Unsubscribe
    <2>2. ASSUME NEW s \in Subscribers PROVE Bends(buf[s], Buffer)'
      <3>1. buf'[s] \subseteq buf[s]
        BY <1>2 DEF Subscribe, Get, Unsubscribe, TypeOK
      <3>2. Cardinality(buf'[s]) <= Cardinality(buf[s])
            /\ Cardinality(buf'[s]) \in Nat /\ Cardinality(buf[s]) \in Nat
        <4>1. IsFiniteSet(buf[s])
          BY <1>b, PlacesAreFinite
        <4> QED
          BY <3>1, <4>1, FS_Subset, FS_CardinalityType
      <3>3. Cardinality(buf'[s]) > Buffer => Cardinality(buf[s]) > Buffer
        BY <1>b, <3>2
      <3> QED
        BY <1>b, <2>1, <3>1, <3>3 DEF Bends, Chatter, Droppable
    <2> QED
      BY <1>b, <2>1, <2>2 DEF Bends, Chatter, Droppable
  <1>3. CASE Close
    BY <1>b, <1>3 DEF Close, Bends, Chatter, Droppable
  <1>4. CASE UNCHANGED vars
    BY <1>b, <1>4 DEF vars, Bends, Chatter, Droppable
  <1> QED
    BY <1>1, <1>2, <1>3, <1>4 DEF Next

(* The soft bounds of push() and append() bend for events that are not     *)
(* chatter and for nothing else.                                           *)
THEOREM BoundsBendForFactsOnly == Spec => []BoundOnlyBends
  <1>1. Init => BoundOnlyBends
    <2>1. Chatter({}) = {}
      BY DEF Chatter
    <2> QED
      BY <2>1 DEF Init, BoundOnlyBends
  <1>2. TypeOK /\ BoundOnlyBends /\ [Next]_vars => BoundOnlyBends'
    BY BoundsPreserved
  <1> QED
    BY <1>1, <1>2, HubTypes, PTL DEF Spec

=============================================================================
