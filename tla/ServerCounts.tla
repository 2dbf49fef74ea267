---------------------------- MODULE ServerCounts ----------------------------
(***************************************************************************)
(* The counters of the state log are exact, for any number of connections, *)
(* pools and workers and any capacity of the event channel.                *)
(***************************************************************************)
EXTENDS ServerProofs, FiniteSetTheorems

-----------------------------------------------------------------------------
(* The events in the channel *)

Event == [eType : {"conn"}, pool : Pool, old : ConnState, new : ConnState]
           \cup [eType : {"worker"}, worker : Worker, new : WorkerState]

LogInv == mEventChann \in Seq(Event) /\ perStateCnt \in [Pool -> [ConnState -> Int]]

Bit(b) == IF b THEN 1 ELSE 0

\* Places in a channel of n events, and the next one.
LEMMA NextPlace ==
    ASSUME NEW n \in Nat, NEW S \in SUBSET (1 .. n)
    PROVE  /\ IsFiniteSet(S) /\ Cardinality(S) \in Nat
           /\ Cardinality(S \cup {n + 1}) = Cardinality(S) + 1
<1>1. IsFiniteSet(1 .. n)
  BY FS_Interval
<1>2. IsFiniteSet(S)
  BY <1>1, FS_Subset, Zenon
<1>3. n + 1 \notin S
  OBVIOUS
<1>4. QED
  BY <1>2, <1>3, FS_CardinalityType, FS_AddElement, Zenon

\* The places of some events after one more.
LEMMA PlacesMore ==
    ASSUME NEW n \in Nat, NEW S \in SUBSET (1 .. n), NEW T \in SUBSET (1 .. n + 1),
           \A i \in 1 .. n : i \in T <=> i \in S
    PROVE  Cardinality(T) = Cardinality(S) + Bit(n + 1 \in T)
<1>1. (\A i \in 1 .. n + 1 : i \in 1 .. n \/ i = n + 1) /\ (\A i \in 1 .. n : i # n + 1)
  OBVIOUS
<1>2. \A i : i \in T \ {n + 1} <=> i \in S
  BY <1>1, Zenon
<1>3. T \ {n + 1} = S
  BY <1>2, Zenon
<1>4. (n + 1 \in T => T = S \cup {n + 1}) /\ (n + 1 \notin T => T = S)
  BY <1>3, Zenon
<1>5. Cardinality(S) \in Nat /\ Cardinality(S \cup {n + 1}) = Cardinality(S) + 1
  BY NextPlace, Zenon
<1>6. QED
  BY <1>4, <1>5 DEF Bit

\* The places of the events that are left when the first one is taken.
LEMMA PlacesLeft ==
    ASSUME NEW n \in Nat, NEW S \in SUBSET (1 .. n), NEW T \in SUBSET (1 .. n),
           \A i \in 1 .. n : i \in T <=> i + 1 \in S
    PROVE  Cardinality(T) = Cardinality(S) - Bit(1 \in S) /\ Cardinality(T) \in Nat
<1>1. IsFiniteSet(S) /\ IsFiniteSet(T) /\ Cardinality(S) \in Nat /\ Cardinality(T) \in Nat
  BY NextPlace, Zenon
<1>2. IsFiniteSet(S \ {1}) /\ Cardinality(S \ {1}) = Cardinality(S) - Bit(1 \in S)
  BY <1>1, FS_RemoveElement DEF Bit
<1>3. ExistsBijection(T, S \ {1})
  <2> DEFINE f == [i \in T |-> i + 1]
  <2>1. \A i \in T : i \in Nat /\ i >= 1 /\ i + 1 \in S \ {1}
    OBVIOUS
  <2>2. f \in [T -> S \ {1}]
    BY <2>1, Zenon
  <2>3. \A i, j \in T : f[i] = f[j] => i = j
    BY <2>1
  <2>4. \A j \in S \ {1} : \E i \in T : f[i] = j
    <3>1. TAKE j \in S \ {1}
    <3>2. j - 1 \in 1 .. n /\ (j - 1) + 1 = j
      OBVIOUS
    <3>3. j - 1 \in T
      BY <3>2, Zenon
    <3>4. QED
      BY <3>2, <3>3, Zenon
  <2> HIDE DEF f
  <2>5. f \in Bijection(T, S \ {1})
    BY <2>2, <2>3, <2>4, Zenon DEF Bijection, Injection, IsInjective, Surjection
  <2>6. QED
    BY <2>5, Zenon DEF ExistsBijection
<1>4. QED
  BY <1>1, <1>2, <1>3, FS_Bijection, Zenon

\* The places of the events that change a counter.
LEMMA Places ==
    ASSUME LogInv, NEW q \in Pool, NEW s \in ConnState
    PROVE  /\ Len(mEventChann) \in Nat /\ DOMAIN mEventChann = 1 .. Len(mEventChann)
           /\ Entering(q, s) \in SUBSET (1 .. Len(mEventChann)) /\ Leaving(q, s) \in SUBSET (1 .. Len(mEventChann))
           /\ Cardinality(Entering(q, s)) \in Nat /\ Cardinality(Leaving(q, s)) \in Nat
           /\ perStateCnt[q][s] \in Int /\ Announced(q, s) \in Int
<1> DEFINE n == Len(mEventChann)
<1>1. n \in Nat /\ DOMAIN mEventChann = 1 .. n /\ perStateCnt[q][s] \in Int
  BY DEF LogInv
<1>2. Entering(q, s) \in SUBSET (1 .. n) /\ Leaving(q, s) \in SUBSET (1 .. n)
  BY <1>1, Zenon DEF Entering, Leaving
<1> HIDE DEF n
<1>3. Cardinality(Entering(q, s)) \in Nat /\ Cardinality(Leaving(q, s)) \in Nat
  BY <1>1, <1>2, NextPlace, Zenon
<1>4. QED
  BY <1>1, <1>2, <1>3 DEF Announced, n

\* A channel with one event more.
LEMMA OneMore ==
    ASSUME LogInv, NEW e \in Event, PublishStateEvent(e)
    PROVE  /\ LogInv' /\ DOMAIN mEventChann' = 1 .. Len(mEventChann) + 1
           /\ mEventChann'[Len(mEventChann) + 1] = e
           /\ \A i \in 1 .. Len(mEventChann) : mEventChann'[i] = mEventChann[i]
BY DEF LogInv, PublishStateEvent

\* An event of a connection is announced by the change it makes.
LEMMA AnnouncesConn ==
    ASSUME LogInv, NEW p \in Pool, NEW old \in ConnState, NEW new \in ConnState,
           PublishStateEvent(ConnEvt(p, old, new)), NEW q \in Pool, NEW s \in ConnState
    PROVE  Announced(q, s)' = Announced(q, s) + Change(ConnEvt(p, old, new), q, s)
<1> DEFINE n == Len(mEventChann)
           e == ConnEvt(p, old, new)
<1>1. e \in Event /\ e.eType = "conn" /\ e.old = old /\ e.new = new
  BY Zenon DEF ConnEvt, Event
<1>2. /\ DOMAIN mEventChann' = 1 .. n + 1 /\ mEventChann'[n + 1] = e
      /\ \A i \in 1 .. n : mEventChann'[i] = mEventChann[i]
  BY <1>1, OneMore, Zenon
<1>3. /\ n \in Nat /\ DOMAIN mEventChann = 1 .. n
      /\ Entering(q, s) \in SUBSET (1 .. n) /\ Leaving(q, s) \in SUBSET (1 .. n)
      /\ Cardinality(Entering(q, s)) \in Nat /\ Cardinality(Leaving(q, s)) \in Nat /\ perStateCnt[q][s] \in Int
  BY Places, Zenon
<1>4. perStateCnt' = perStateCnt
  BY Zenon DEF PublishStateEvent
<1> HIDE DEF n, e
<1>5. /\ Entering(q, s)' \in SUBSET (1 .. n + 1) /\ Leaving(q, s)' \in SUBSET (1 .. n + 1)
      /\ \A i \in 1 .. n : /\ i \in Entering(q, s)' <=> i \in Entering(q, s)
                           /\ i \in Leaving(q, s)' <=> i \in Leaving(q, s)
  BY <1>2, <1>3 DEF Entering, Leaving, Counts
<1>6. /\ n + 1 \in Entering(q, s)' <=> new = s /\ Counts(e, q, s)
      /\ n + 1 \in Leaving(q, s)' <=> old = s /\ Counts(e, q, s)
  BY <1>1, <1>2, <1>3 DEF Entering, Leaving, Counts
<1>7. Cardinality(Entering(q, s)') = Cardinality(Entering(q, s)) + Bit(new = s /\ Counts(e, q, s))
  BY <1>3, <1>5, <1>6, PlacesMore DEF Bit
<1>8. Cardinality(Leaving(q, s)') = Cardinality(Leaving(q, s)) + Bit(old = s /\ Counts(e, q, s))
  BY <1>3, <1>5, <1>6, PlacesMore DEF Bit
<1>9. Change(e, q, s) = Bit(new = s /\ Counts(e, q, s)) - Bit(old = s /\ Counts(e, q, s))
  BY <1>1, Zenon DEF Change, Bit
<1>10. \A b : Bit(b) \in Int
  BY DEF Bit
<1>11. Announced(q, s)' = perStateCnt[q][s] + Cardinality(Entering(q, s)') - Cardinality(Leaving(q, s)')
  BY <1>4, Zenon DEF Announced
<1>12. QED
  BY <1>3, <1>7, <1>8, <1>9, <1>10, <1>11 DEF Announced, e

\* An event of a worker announces nothing of the connections.
LEMMA AnnouncesWorker ==
    ASSUME LogInv, NEW w \in Worker, NEW x \in WorkerState,
           PublishStateEvent(WorkerEvt(w, x)), NEW q \in Pool, NEW s \in ConnState
    PROVE  Announced(q, s)' = Announced(q, s)
<1> DEFINE n == Len(mEventChann)
           e == WorkerEvt(w, x)
<1>1. e \in Event /\ e.eType = "worker"
  BY Zenon DEF WorkerEvt, Event
<1>2. /\ DOMAIN mEventChann' = 1 .. n + 1 /\ mEventChann'[n + 1] = e
      /\ \A i \in 1 .. n : mEventChann'[i] = mEventChann[i]
  BY <1>1, OneMore, Zenon
<1>3. n \in Nat /\ DOMAIN mEventChann = 1 .. n
  BY Places, Zenon
<1>4. perStateCnt' = perStateCnt
  BY Zenon DEF PublishStateEvent
<1> HIDE DEF n, e
<1>5. Entering(q, s)' = Entering(q, s) /\ Leaving(q, s)' = Leaving(q, s)
  BY <1>1, <1>2, <1>3 DEF Entering, Leaving, Counts
<1>6. QED
  BY <1>4, <1>5, Zenon DEF Announced

\* The log applies the first event: nothing changes in what is announced.
LEMMA OneLess ==
    ASSUME LogInv, ApplyEvent
    PROVE  /\ Len(mEventChann) \in Nat /\ Len(mEventChann) >= 1 /\ mEventChann[1] \in Event
           /\ DOMAIN mEventChann = 1 .. Len(mEventChann)
           /\ mEventChann' \in Seq(Event) /\ DOMAIN mEventChann' = 1 .. Len(mEventChann) - 1
           /\ \A i \in 1 .. Len(mEventChann) - 1 : mEventChann'[i] = mEventChann[i + 1]
           /\ \/ mEventChann[1].eType = "conn" /\ updateConnectionState(mEventChann[1])
              \/ mEventChann[1].eType = "worker" /\ perStateCnt' = perStateCnt
<1>1. mEventChann # << >> /\ mEventChann' = Tail(mEventChann) /\ mEventChann \in Seq(Event)
  BY Zenon DEF LogInv, ApplyEvent
<1>2. \/ mEventChann[1].eType = "conn" /\ updateConnectionState(mEventChann[1])
      \/ mEventChann[1].eType = "worker" /\ perStateCnt' = perStateCnt
  BY DEF ApplyEvent
<1>3. QED
  BY <1>1, <1>2

\* The log goroutine takes an event and keeps the counters of every pool.
LEMMA AppliesLog == ASSUME LogInv, ApplyEvent PROVE LogInv'
<1>1. perStateCnt' \in [Pool -> [ConnState -> Int]]
  BY OneLess DEF LogInv, updateConnectionState, Change
<1>2. QED
  BY <1>1, OneLess, Zenon DEF LogInv

\* What an event announces does not depend on whether updateConnectionState has
\* seen it: it leaves the channel for the counters.
LEMMA AppliesAnnounced ==
    ASSUME LogInv, ApplyEvent, NEW q \in Pool, NEW s \in ConnState
    PROVE  Announced(q, s)' = Announced(q, s)
<1> DEFINE n == Len(mEventChann)
           e == mEventChann[1]
<1>1. /\ n \in Nat /\ n >= 1 /\ e \in Event /\ DOMAIN mEventChann = 1 .. n
      /\ DOMAIN mEventChann' = 1 .. n - 1
      /\ \A i \in 1 .. n - 1 : mEventChann'[i] = mEventChann[i + 1]
  BY OneLess, Zenon
<1>2. /\ Entering(q, s) \in SUBSET (1 .. n) /\ Leaving(q, s) \in SUBSET (1 .. n)
      /\ Cardinality(Entering(q, s)) \in Nat /\ Cardinality(Leaving(q, s)) \in Nat /\ perStateCnt[q][s] \in Int
  BY Places, Zenon
<1>3. perStateCnt'[q][s] = perStateCnt[q][s] + Bit(1 \in Entering(q, s)) - Bit(1 \in Leaving(q, s))
  <2>1. /\ 1 \in Entering(q, s) <=> e.eType = "conn" /\ e.new = s /\ Counts(e, q, s)
        /\ 1 \in Leaving(q, s) <=> e.eType = "conn" /\ e.old = s /\ Counts(e, q, s)
    BY <1>1 DEF Entering, Leaving
  <2>2. CASE e.eType = "conn" /\ updateConnectionState(e)
    <3>1. perStateCnt'[q][s] = perStateCnt[q][s] + Change(e, q, s)
      BY <2>2, Zenon DEF updateConnectionState
    <3>2. Change(e, q, s) = Bit(1 \in Entering(q, s)) - Bit(1 \in Leaving(q, s))
      BY <2>1, <2>2, Zenon DEF Change, Bit
    <3>3. QED
      BY <1>2, <3>1, <3>2, Zenon DEF Bit
  <2>3. CASE e.eType = "worker" /\ perStateCnt' = perStateCnt
    BY <1>2, <2>1, <2>3 DEF Bit
  <2>4. QED
    BY <2>2, <2>3, OneLess, Zenon
<1> HIDE DEF n, e
<1>4. (\A i \in 1 .. n : i \in 1 .. n - 1 <=> i + 1 \in 1 .. n) /\ 1 .. n - 1 \subseteq 1 .. n
  BY <1>1
<1>5. n \in Nat /\ Entering(q, s) \in SUBSET (1 .. n) /\ Leaving(q, s) \in SUBSET (1 .. n)
  BY <1>1, <1>2, Zenon
<1>6. Cardinality(Entering(q, s)') = Cardinality(Entering(q, s)) - Bit(1 \in Entering(q, s))
  <2>1. Entering(q, s)' \in SUBSET (1 .. n)
    BY <1>1, <1>4, Zenon DEF Entering
  <2>2. \A i \in 1 .. n : i \in Entering(q, s)' <=> i + 1 \in Entering(q, s)
    BY <1>1, <1>4, Zenon DEF Entering, Counts
  <2>3. QED
    BY <1>5, <2>1, <2>2, PlacesLeft, Zenon
<1>7. Cardinality(Leaving(q, s)') = Cardinality(Leaving(q, s)) - Bit(1 \in Leaving(q, s))
  <2>1. Leaving(q, s)' \in SUBSET (1 .. n)
    BY <1>1, <1>4, Zenon DEF Leaving
  <2>2. \A i \in 1 .. n : i \in Leaving(q, s)' <=> i + 1 \in Leaving(q, s)
    BY <1>1, <1>4, Zenon DEF Leaving, Counts
  <2>3. QED
    BY <1>5, <2>1, <2>2, PlacesLeft, Zenon
<1>8. Announced(q, s)' = perStateCnt'[q][s] + Cardinality(Entering(q, s)') - Cardinality(Leaving(q, s)')
  BY Zenon DEF Announced
<1>9. QED
  BY <1>2, <1>3, <1>6, <1>7, <1>8 DEF Announced, Bit

-----------------------------------------------------------------------------
(* The connections that are counted *)

\* Two sets of connections that agree but for c differ by c in size.
LEMMA OneMember ==
    ASSUME NEW S \in SUBSET Conn, NEW T \in SUBSET Conn, NEW c \in Conn,
           \A d \in Conn \ {c} : d \in T <=> d \in S
    PROVE  /\ Cardinality(S) \in Nat /\ Cardinality(T) \in Nat
           /\ Cardinality(T) = Cardinality(S) + Bit(c \in T) - Bit(c \in S)
<1>1. IsFiniteSet(S) /\ IsFiniteSet(T)
  BY ServerAssumption, FS_Subset, Zenon
<1>2. S \ {c} = T \ {c}
  BY Zenon
<1>3. /\ Cardinality(S) \in Nat /\ Cardinality(T) \in Nat
      /\ Cardinality(S \ {c}) = Cardinality(S) - Bit(c \in S)
      /\ Cardinality(T \ {c}) = Cardinality(T) - Bit(c \in T)
  BY <1>1, FS_CardinalityType, FS_RemoveElement DEF Bit
<1>4. QED
  BY <1>2, <1>3 DEF Bit

\* Where the log has each connection.
LEMMA Members ==
    ASSUME ServerInv, NEW c \in Conn
    PROVE  /\ c \in Opened <=> IsOpen(c)
           /\ c \in WithWorker <=> Stage(c) = "Assign"
           /\ c \in Waiting <=> Stage(c) = "Backlog"
           /\ \A p \in Pool : c \in InBacklog(p) <=> Stage(c) = "Backlog" /\ target[c] = p
<1>1. target[c] \in Pool
  BY Zenon DEF ServerInv, ConnInv
<1>2. \A p \in Pool : c \in InBacklog(p) <=> Stage(c) = "Backlog" /\ target[c] = p
  BY Zenon DEF InBacklog, Stage
<1>3. c \in Waiting <=> Stage(c) = "Backlog"
  BY <1>1, <1>2, Zenon DEF Waiting
<1>4. QED
  BY <1>2, <1>3, Zenon DEF Opened, IsOpen, WithWorker, Stage

\* A connection that only others touch stays where the log has it.
LEMMA OtherMembers == ASSUME NEW d \in Conn, Other(d) \/ Elsewhere
                      PROVE  Stage(d)' = Stage(d) /\ target'[d] = target[d] /\ (IsOpen(d)' <=> IsOpen(d))
<1>1. /\ handler'[d] = handler[d] /\ worker'[d] = worker[d] /\ target'[d] = target[d]
      /\ crd'[d] = crd[d] \/ (crd[d] = "wait" /\ crd'[d] = "wake")
  BY Zenon DEF Other, Elsewhere
<1>2. QED
  BY <1>1, Zenon DEF Stage, IsOpen

\* The places of connection c are what changes in the numbers of connections.
Balanced(c, p) ==
    /\ Cardinality(InBacklog(p)) \in Nat /\ Cardinality(Waiting) \in Nat
    /\ Cardinality(WithWorker) \in Nat /\ Cardinality(Opened) \in Nat
    /\ Cardinality(InBacklog(p)') = Cardinality(InBacklog(p))
         + Bit(Stage(c)' = "Backlog" /\ target'[c] = p) - Bit(Stage(c) = "Backlog" /\ target[c] = p)
    /\ Cardinality(Waiting') = Cardinality(Waiting) + Bit(Stage(c)' = "Backlog") - Bit(Stage(c) = "Backlog")
    /\ Cardinality(WithWorker') = Cardinality(WithWorker) + Bit(Stage(c)' = "Assign") - Bit(Stage(c) = "Assign")
    /\ Cardinality(Opened') = Cardinality(Opened) + Bit(IsOpen(c)') - Bit(IsOpen(c))

\* A step of one connection changes its own places only.
LEMMA Balance ==
    ASSUME ServerInv, ServerInv', NEW c \in Conn, Frame(c), NEW p \in Pool PROVE Balanced(c, p)
<1>1. ASSUME NEW d \in Conn
      PROVE  /\ d \in Opened' <=> IsOpen(d)'
             /\ d \in WithWorker' <=> Stage(d)' = "Assign"
             /\ d \in Waiting' <=> Stage(d)' = "Backlog"
             /\ d \in InBacklog(p)' <=> Stage(d)' = "Backlog" /\ target'[d] = p
  <2>1. target'[d] \in Pool
    BY Zenon DEF ServerInv, ConnInv
  <2>2. \A q \in Pool : d \in InBacklog(q)' <=> Stage(d)' = "Backlog" /\ target'[d] = q
    BY Zenon DEF InBacklog, Stage
  <2>3. d \in Waiting' <=> Stage(d)' = "Backlog"
    BY <2>1, <2>2, Zenon DEF Waiting
  <2>4. QED
    BY <2>2, <2>3, Zenon DEF Opened, IsOpen, WithWorker, Stage
<1>2. /\ InBacklog(p) \in SUBSET Conn /\ Waiting \in SUBSET Conn
      /\ WithWorker \in SUBSET Conn /\ Opened \in SUBSET Conn
      /\ InBacklog(p)' \in SUBSET Conn /\ Waiting' \in SUBSET Conn
      /\ WithWorker' \in SUBSET Conn /\ Opened' \in SUBSET Conn
  BY Zenon DEF InBacklog, Waiting, WithWorker, Opened
<1>3. \A d \in Conn \ {c} : Stage(d)' = Stage(d) /\ target'[d] = target[d] /\ (IsOpen(d)' <=> IsOpen(d))
  BY OtherMembers, Zenon DEF Frame
<1>4. \A d \in Conn \ {c} : /\ d \in InBacklog(p)' <=> d \in InBacklog(p)
                            /\ d \in Waiting' <=> d \in Waiting
                            /\ d \in WithWorker' <=> d \in WithWorker
                            /\ d \in Opened' <=> d \in Opened
  BY <1>1, <1>3, Members, Zenon
<1>5. /\ Cardinality(InBacklog(p)) \in Nat
      /\ Cardinality(InBacklog(p)') = Cardinality(InBacklog(p)) + Bit(c \in InBacklog(p)') - Bit(c \in InBacklog(p))
  BY <1>2, <1>4, OneMember, Zenon
<1>6. /\ Cardinality(Waiting) \in Nat
      /\ Cardinality(Waiting') = Cardinality(Waiting) + Bit(c \in Waiting') - Bit(c \in Waiting)
  BY <1>2, <1>4, OneMember, Zenon
<1>7. /\ Cardinality(WithWorker) \in Nat
      /\ Cardinality(WithWorker') = Cardinality(WithWorker) + Bit(c \in WithWorker') - Bit(c \in WithWorker)
  BY <1>2, <1>4, OneMember, Zenon
<1>8. /\ Cardinality(Opened) \in Nat
      /\ Cardinality(Opened') = Cardinality(Opened) + Bit(c \in Opened') - Bit(c \in Opened)
  BY <1>2, <1>4, OneMember, Zenon
<1>9. /\ c \in InBacklog(p) <=> Stage(c) = "Backlog" /\ target[c] = p
      /\ c \in Waiting <=> Stage(c) = "Backlog"
      /\ c \in WithWorker <=> Stage(c) = "Assign"
      /\ c \in Opened <=> IsOpen(c)
  BY Members, Zenon
<1>10. QED
  BY <1>1, <1>5, <1>6, <1>7, <1>8, <1>9, Zenon DEF Balanced, Bit

-----------------------------------------------------------------------------
(* The counters *)

\* What an event of a connection changes in the counters of pool q.
Adds(p, old, new, q) ==
    /\ Announced(q, "Backlog")' = Announced(q, "Backlog")
         + Bit(new = "Backlog" /\ q = p) - Bit(old = "Backlog" /\ q = p)
    /\ Announced(q, "Assign")' = Announced(q, "Assign") + Bit(new = "Assign") - Bit(old = "Assign")
    /\ Announced(q, "Idle")' = Announced(q, "Idle") + Bit(new = "Idle") - Bit(old = "Idle")
    /\ Announced(q, "Close")' = Announced(q, "Close")
         + Bit(new = "Close" /\ q = p) - Bit(old = "Close" /\ q = p)

\* PublishStateEvent announces one connection less in the old state of the event
\* and one more in the new one, and nothing else.
LEMMA EventCounts ==
    ASSUME LogInv, NEW p \in Pool, NEW old \in ConnState, NEW new \in ConnState,
           PublishStateEvent(ConnEvt(p, old, new))
    PROVE  LogInv' /\ \A q \in Pool : Adds(p, old, new, q)
<1>1. LogInv'
  <2>1. ConnEvt(p, old, new) \in Event
    BY Zenon DEF ConnEvt, Event
  <2>2. QED
    BY <2>1, OneMore, Zenon
<1>2. ASSUME NEW q \in Pool PROVE Adds(p, old, new, q)
  <2>1. ASSUME NEW s \in ConnState
        PROVE  Announced(q, s) \in Int /\ Announced(q, s)' = Announced(q, s) + Change(ConnEvt(p, old, new), q, s)
    <3>1. Announced(q, s) \in Int
      BY Places, Zenon
    <3>2. Announced(q, s)' = Announced(q, s) + Change(ConnEvt(p, old, new), q, s)
      BY AnnouncesConn
    <3>3. QED
      BY <3>1, <3>2, Zenon
  <2>2. /\ Change(ConnEvt(p, old, new), q, "Backlog") = Bit(new = "Backlog" /\ q = p) - Bit(old = "Backlog" /\ q = p)
        /\ Change(ConnEvt(p, old, new), q, "Assign") = Bit(new = "Assign") - Bit(old = "Assign")
        /\ Change(ConnEvt(p, old, new), q, "Idle") = Bit(new = "Idle") - Bit(old = "Idle")
        /\ Change(ConnEvt(p, old, new), q, "Close") = Bit(new = "Close" /\ q = p) - Bit(old = "Close" /\ q = p)
    BY Zenon DEF Change, Counts, ConnEvt, Bit
  <2>3. QED
    BY <2>1, <2>2, Zenon DEF ConnState, Adds, Bit
<1>3. QED
  BY <1>1, <1>2, Zenon

\* Without an event of a connection they stay.
LEMMA QuietCounts ==
    ASSUME LogInv, NoEvent \/ WorkerEvent
    PROVE  LogInv' /\ \A q \in Pool, s \in ConnState : Announced(q, s)' = Announced(q, s)
<1>1. CASE NoEvent
  <2>1. mEventChann' = mEventChann /\ perStateCnt' = perStateCnt
    BY <1>1, Zenon DEF NoEvent
  <2>2. \A q \in Pool, s \in ConnState : Entering(q, s)' = Entering(q, s) /\ Leaving(q, s)' = Leaving(q, s)
    BY <2>1, Zenon DEF Entering, Leaving, Counts
  <2>3. QED
    BY <2>1, <2>2, Zenon DEF LogInv, Announced
<1>2. CASE WorkerEvent
  <2>1. PICK w \in Worker, s \in WorkerState : PublishStateEvent(WorkerEvt(w, s))
    BY <1>2, Zenon DEF WorkerEvent
  <2>2. WorkerEvt(w, s) \in Event
    BY Zenon DEF WorkerEvt, Event
  <2>3. QED
    BY <2>1, <2>2, OneMore, AnnouncesWorker, Zenon
<1>3. QED
  BY <1>1, <1>2, Zenon

\* An event says what the step of connection c changes, bit by bit.
Tally(c, p, old, new) ==
    /\ \A q \in Pool : Bit(new = "Backlog" /\ q = p) - Bit(old = "Backlog" /\ q = p)
                         = Bit(Stage(c)' = "Backlog" /\ target'[c] = q) - Bit(Stage(c) = "Backlog" /\ target[c] = q)
    /\ Bit(new = "Assign") - Bit(old = "Assign") = Bit(Stage(c)' = "Assign") - Bit(Stage(c) = "Assign")
    /\ Bit(new = "Idle") - Bit(old = "Idle")
         = (Bit(IsOpen(c)') - Bit(IsOpen(c))) - (Bit(Stage(c)' = "Backlog") - Bit(Stage(c) = "Backlog"))
             - (Bit(Stage(c)' = "Assign") - Bit(Stage(c) = "Assign"))
    /\ Bit(new = "Close" /\ MainPool = p) - Bit(old = "Close" /\ MainPool = p) = Bit(IsOpen(c)) - Bit(IsOpen(c)')

\* Then the counters stay exact.
LEMMA TallyCounts ==
    ASSUME ServerInv, ServerInv', LogInv, CountsExact, NEW c \in Conn, Frame(c),
           NEW p \in Pool, NEW old \in ConnState, NEW new \in ConnState,
           PublishStateEvent(ConnEvt(p, old, new)), Tally(c, p, old, new)
    PROVE  LogInv' /\ CountsExact'
<1>1. MainPool \in Pool /\ LogInv' /\ \A q \in Pool : Adds(p, old, new, q)
  BY ServerAssumption, EventCounts, Zenon
<1>2. ASSUME NEW q \in Pool
      PROVE  /\ Announced(q, "Backlog")' = Cardinality(InBacklog(q)')
             /\ Announced(q, "Assign")' = Cardinality(WithWorker')
             /\ Announced(q, "Idle")' = Cardinality(Opened') - Cardinality(Waiting') - Cardinality(WithWorker')
  <2>1. Balanced(c, q)
    BY Balance, Zenon
  <2>2. Adds(p, old, new, q)
    BY <1>1, Zenon
  <2>3. /\ Announced(q, "Backlog") = Cardinality(InBacklog(q))
        /\ Announced(q, "Assign") = Cardinality(WithWorker)
        /\ Announced(q, "Idle") = Cardinality(Opened) - Cardinality(Waiting) - Cardinality(WithWorker)
    BY Zenon DEF CountsExact
  <2>4. QED
    BY <2>1, <2>2, <2>3 DEF Balanced, Adds, Tally, Bit
<1>3. Announced(MainPool, "Close")' = -Cardinality(Opened')
  <2>1. /\ Cardinality(Opened) \in Nat
        /\ Cardinality(Opened') = Cardinality(Opened) + Bit(IsOpen(c)') - Bit(IsOpen(c))
    BY <1>1, Balance, Zenon DEF Balanced
  <2>2. Announced(MainPool, "Close")' = Announced(MainPool, "Close")
          + Bit(new = "Close" /\ MainPool = p) - Bit(old = "Close" /\ MainPool = p)
    BY <1>1, Zenon DEF Adds
  <2>3. Announced(MainPool, "Close") = -Cardinality(Opened)
    BY <1>1, Zenon DEF CountsExact
  <2>4. Bit(new = "Close" /\ MainPool = p) - Bit(old = "Close" /\ MainPool = p) = Bit(IsOpen(c)) - Bit(IsOpen(c)')
    BY Zenon DEF Tally
  <2>5. QED
    BY <2>1, <2>2, <2>3, <2>4 DEF Bit
<1>4. QED
  BY <1>1, <1>2, <1>3, Zenon DEF CountsExact

\* A step of connection c that reports what it does keeps the counters exact.
LEMMA AccountCounts ==
    ASSUME ServerInv, ServerInv', LogInv, CountsExact, NEW c \in Conn, Frame(c), Account(c)
    PROVE  LogInv' /\ CountsExact'
<1>1. /\ MainPool \in Pool /\ Stage(c) \in ConnState /\ Stage(c)' \in ConnState
      /\ Stage(c) # "Close" /\ Stage(c)' # "Close" /\ {"Idle", "Close"} \subseteq ConnState
  BY ServerAssumption, Zenon DEF Stage, ConnState
<1>2. CASE SameStage(c) /\ SameOpen(c) /\ (NoEvent \/ WorkerEvent)
  <2>1. LogInv' /\ \A q \in Pool, s \in ConnState : Announced(q, s)' = Announced(q, s)
    BY <1>2, QuietCounts, Zenon
  <2>2. ASSUME NEW q \in Pool
        PROVE  /\ Cardinality(InBacklog(q)') = Cardinality(InBacklog(q))
               /\ Cardinality(Waiting') = Cardinality(Waiting)
               /\ Cardinality(WithWorker') = Cardinality(WithWorker)
               /\ Cardinality(Opened') = Cardinality(Opened)
    <3>1. /\ Stage(c)' = Stage(c) /\ (IsOpen(c)' <=> IsOpen(c))
          /\ (Stage(c)' = "Backlog" /\ target'[c] = q <=> Stage(c) = "Backlog" /\ target[c] = q)
      BY <1>2, Zenon DEF SameStage, SameOpen
    <3>2. Balanced(c, q)
      BY Balance, Zenon
    <3>3. QED
      BY <3>1, <3>2 DEF Balanced, Bit
  <2>3. CountsExact'
    BY <1>1, <2>1, <2>2, Zenon DEF CountsExact, ConnState
  <2>4. QED
    BY <2>1, <2>3, Zenon
<1>3. CASE Moves(c)
  <2>1. PICK p \in Pool : /\ p = target[c] \/ "Backlog" \notin {Stage(c), Stage(c)'}
                          /\ PublishStateEvent(ConnEvt(p, Stage(c), Stage(c)'))
    BY <1>3, Zenon DEF Moves
  <2>2. (IsOpen(c)' <=> IsOpen(c)) /\ target'[c] = target[c]
    BY <1>3, Zenon DEF Moves, SameOpen
  <2>3. /\ Stage(c) = "Idle" \/ Stage(c) = "Backlog" \/ Stage(c) = "Assign"
        /\ Stage(c)' = "Idle" \/ Stage(c)' = "Backlog" \/ Stage(c)' = "Assign"
    BY Zenon DEF Stage
  <2>4. Tally(c, p, Stage(c), Stage(c)')
    BY <2>1, <2>2, <2>3 DEF Tally, Bit
  <2>5. QED
    BY <1>1, <2>1, <2>4, TallyCounts, Zenon
<1>4. CASE Opens(c) \/ Shuts(c)
  <2>1. /\ Stage(c)' = Stage(c)
        /\ \A q \in Pool : (Stage(c)' = "Backlog" /\ target'[c] = q <=> Stage(c) = "Backlog" /\ target[c] = q)
    BY <1>4, Zenon DEF Opens, Shuts, SameStage
  <2>2. CASE Opens(c)
    <3>1. Tally(c, MainPool, "Close", "Idle")
      BY <2>1, <2>2 DEF Opens, Tally, Bit
    <3>2. QED
      BY <1>1, <2>2, <3>1, TallyCounts, Zenon DEF Opens
  <2>3. CASE Shuts(c)
    <3>1. Tally(c, MainPool, "Idle", "Close")
      BY <2>1, <2>3 DEF Shuts, Tally, Bit
    <3>2. QED
      BY <1>1, <2>3, <3>1, TallyCounts, Zenon DEF Shuts
  <2>4. QED
    BY <1>4, <2>2, <2>3, Zenon
<1>5. QED
  BY <1>2, <1>3, <1>4, Zenon DEF Account

\* Every step does: of a connection, of a worker, of the log goroutine, of time.
LEMMA NextCounts ==
    ASSUME ServerInv, ServerInv', LogInv, CountsExact, [Next]_vars
    PROVE  LogInv' /\ CountsExact'
<1>1. ASSUME NEW c \in Conn,
             \/ Dial(c) \/ Send(c) \/ Leave(c) \/ Accept(c) \/ HandleConnection(c)
             \/ Coordinator(c) \/ CoordinatorPanics(c) \/ IdleTimeout(c) \/ Abort(c)
      PROVE  LogInv' /\ CountsExact'
  BY <1>1, ConnReports, AccountCounts, Zenon DEF Reports, Good
<1>2. MainPool \in Pool
  BY ServerAssumption, Zenon
<1>3. ASSUME Elsewhere \/ UNCHANGED <<handler, crd, worker, target>>,
             LogInv', \A q \in Pool, s \in ConnState : Announced(q, s)' = Announced(q, s)
      PROVE  LogInv' /\ CountsExact'
  <2>1. \A d \in Conn : Stage(d)' = Stage(d) /\ target'[d] = target[d] /\ (IsOpen(d)' <=> IsOpen(d))
    BY <1>3, OtherMembers, Zenon DEF Stage, IsOpen
  <2>2. Opened' = Opened /\ WithWorker' = WithWorker
    BY <2>1, Zenon DEF Opened, WithWorker, Stage, IsOpen
  <2>3. \A q \in Pool : InBacklog(q)' = InBacklog(q)
    BY <2>1, Zenon DEF InBacklog, Stage
  <2>4. Waiting' = Waiting
    BY <2>3, Zenon DEF Waiting
  <2>5. CountsExact'
    BY <1>2, <1>3, <2>2, <2>3, <2>4, Zenon DEF CountsExact, ConnState
  <2>6. QED
    BY <1>3, <2>5, Zenon
<1>4. ASSUME NEW w \in Worker, WorkerGoroutines(w) \/ WorkerExit(w)
      PROVE  LogInv' /\ CountsExact'
  <2>1. Elsewhere /\ (NoEvent \/ WorkerEvent)
    BY <1>4, WorkerStep, Zenon
  <2>2. QED
    BY <1>3, <2>1, QuietCounts, Zenon
<1>5. CASE LogGoroutine
  <2>1. ApplyEvent /\ UNCHANGED <<handler, crd, worker, target>>
    BY <1>5, Zenon DEF LogGoroutine, crdvars
  <2>2. QED
    BY <1>3, <2>1, AppliesLog, AppliesAnnounced, Zenon
<1>6. CASE BouncerTime \/ UNCHANGED vars
  <2>1. NoEvent /\ UNCHANGED <<handler, crd, worker, target>>
    BY <1>6, Zenon DEF BouncerTime, vars, logvars, crdvars, NoEvent
  <2>2. QED
    BY <1>3, <2>1, QuietCounts, Zenon
<1>7. QED
  BY <1>1, <1>4, <1>5, <1>6, Zenon DEF Next

\* No connection and no event: all the counters are zero.
LEMMA InitCounts == Init => LogInv /\ CountsExact
<1>1. SUFFICES ASSUME Init PROVE LogInv /\ CountsExact
  BY Zenon
<1>2. mEventChann = << >> /\ perStateCnt = [p \in Pool |-> [s \in ConnState |-> 0]]
  BY <1>1, Zenon DEF Init, StateLogInit
<1>3. LogInv
  BY <1>2 DEF LogInv
<1>4. \A q \in Pool, s \in ConnState : Entering(q, s) = {} /\ Leaving(q, s) = {}
  BY <1>2 DEF Entering, Leaving
<1>5. Cardinality({}) = 0
  BY FS_EmptySet, Zenon
<1>6. ASSUME NEW q \in Pool, NEW s \in ConnState PROVE Announced(q, s) = 0
  <2>1. perStateCnt[q][s] = 0
    BY <1>2, Zenon
  <2>2. Cardinality(Entering(q, s)) = 0 /\ Cardinality(Leaving(q, s)) = 0
    BY <1>4, <1>5, Zenon
  <2>3. QED
    BY <2>1, <2>2 DEF Announced
<1>7. Opened = {} /\ WithWorker = {} /\ \A q \in Pool : InBacklog(q) = {}
  BY <1>1, Zenon DEF Init, Opened, WithWorker, InBacklog
<1>8. Waiting = {}
  BY <1>7, Zenon DEF Waiting
<1>9. CountsExact
  <2>1. MainPool \in Pool /\ {"Backlog", "Assign", "Idle", "Close"} \subseteq ConnState
    BY ServerAssumption, Zenon DEF ConnState
  <2>2. 0 = Cardinality({}) - Cardinality({}) - Cardinality({}) /\ 0 = -Cardinality({})
    BY <1>5
  <2>3. QED
    BY <1>5, <1>6, <1>7, <1>8, <2>1, <2>2, Zenon DEF CountsExact
<1>10. QED
  BY <1>3, <1>9, Zenon

\* Whatever order the handlers, coordinators and pools report in, and however a
\* connection ends, the counters of the log and the events on their way add up to
\* where the connections are.
THEOREM CountersExact == Spec => []CountsExact
<1>1. ServerInv /\ ServerInv' /\ LogInv /\ CountsExact /\ [Next]_vars => LogInv' /\ CountsExact'
  BY NextCounts, Zenon
<1>2. QED
  BY <1>1, InitCounts, SpecServerInv, PTL DEF Spec
=============================================================================
