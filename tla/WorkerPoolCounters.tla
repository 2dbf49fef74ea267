------------------------- MODULE WorkerPoolCounters -------------------------
(***************************************************************************)
(* The two counters of WorkerPool, for every value of the constants:       *)
(* backlogCnt is the number of callers of GetWorker in the backlog, and    *)
(* numHealthyWorkers that of the attach goroutines in doRead.              *)
(***************************************************************************)
EXTENDS WorkerPoolProofs, FiniteSetTheorems

USE DEF sizeVars, ticketVars, recVars, clientVars, waitVars, monVars, timeVars

-----------------------------------------------------------------------------
(* The callers in the backlog and the goroutines in doRead                 *)

Waiting == {c \in Client : pc[c] \in {"wait", "woken"}}
Reading == {w \in Worker : attach[w] = "reading"}

\* One element more or less in a finite set is one more or less counted.
LEMMA CountAdd ==
  ASSUME NEW S, IsFiniteSet(S), NEW x, x \notin S
  PROVE  Cardinality(S \cup {x}) = Cardinality(S) + 1
BY FS_AddElement, Zenon

\* One element less.
LEMMA CountRemove ==
  ASSUME NEW S, IsFiniteSet(S), NEW x \in S
  PROVE  /\ Cardinality(S \ {x}) = Cardinality(S) - 1
         /\ Cardinality(S) \in Nat /\ Cardinality(S) > 0
<1>1. Cardinality(S) \in Nat /\ Cardinality(S) # 0
  BY FS_CardinalityType, FS_EmptySet, Zenon
<1>2. QED
  BY <1>1, FS_RemoveElement

\* The callers in the backlog and the attach goroutines in doRead are finite sets.
LEMMA CountedFinite == IsFiniteSet(Waiting) /\ IsFiniteSet(Reading)
<1>1. IsFiniteSet(Waiting)
  BY ConstantsAssumption, FS_Subset, Zenon DEF Waiting
<1>2. IsFiniteSet(Worker)
  BY ConstantsAssumption, FS_Interval DEF Worker
<1>3. IsFiniteSet(Reading)
  BY <1>2, FS_Subset, Zenon DEF Reading
<1>4. QED
  BY <1>1, <1>3, Zenon

\* poolCond.Signal moves a caller inside the backlog, never in or out of it.
LEMMA SignalKeepsWaiting ==
  ASSUME TypeOK, NEW p \in [Client -> ClientPC], Signal(p),
         {c \in Client : p[c] \in {"wait", "woken"}} = Waiting
  PROVE  Waiting' = Waiting
BY Zenon DEF Signal, Waiting, TypeOK

\* Every step keeps backlogCnt equal to the number of callers in the backlog.
LEMMA NextBacklogExact == TypeOK /\ BacklogExact /\ [Next]_vars => BacklogExact'
<1> SUFFICES ASSUME TypeOK, BacklogExact, [Next]_vars PROVE BacklogExact'
  BY Zenon
<1>0. backlogCnt = Cardinality(Waiting) /\ (BacklogExact' <=> backlogCnt' = Cardinality(Waiting'))
  BY Zenon DEF BacklogExact, Waiting
<1>1. ASSUME UNCHANGED backlogCnt, Waiting' = Waiting PROVE BacklogExact'
  BY <1>0, <1>1, Zenon
<1>2. ASSUME NEW c \in Client, GetWorker(c) PROVE BacklogExact'
  <2>1. c \notin Waiting
    BY <1>2, Zenon DEF GetWorker, Waiting
  <2>2. CASE UNCHANGED backlogCnt
    <3>1. pc' = pc \/ pc' = [pc EXCEPT ![c] = "got"] \/ pc' = [pc EXCEPT ![c] = "idle"]
      BY <1>2, <2>2 DEF GetWorker, Checkout, TypeOK
    <3>2. Waiting' = Waiting
      BY <2>1, <3>1, Zenon DEF Waiting, TypeOK
    <3>3. QED
      BY <1>1, <2>2, <3>2, Zenon
  <2>3. CASE backlogCnt' = backlogCnt + 1 /\ pc' = [pc EXCEPT ![c] = "wait"]
    <3>1. Waiting' = Waiting \cup {c}
      BY <2>3, Zenon DEF Waiting, TypeOK
    <3>2. QED
      BY <1>0, <2>1, <2>3, <3>1, CountAdd, CountedFinite, Zenon
  <2>4. QED
    BY <1>2, <2>2, <2>3, Zenon DEF GetWorker
<1>3. ASSUME NEW c \in Client, Wakeup(c) \/ BacklogTimeout(c) PROVE BacklogExact'
  <2>1. c \in Waiting
    BY <1>3, Zenon DEF Wakeup, BacklogTimeout, Waiting
  <2>2. decBacklogCnt = Cardinality(Waiting \ {c}) /\ decBacklogCnt = backlogCnt - 1
    BY <1>0, <2>1, CountRemove, CountedFinite, Zenon DEF decBacklogCnt
  <2>3. CASE /\ backlogCnt' = decBacklogCnt
             /\ pc' = [pc EXCEPT ![c] = "got"] \/ pc' = [pc EXCEPT ![c] = "idle"]
    <3>1. Waiting' = Waiting \ {c}
      BY <2>3, Zenon DEF Waiting, TypeOK
    <3>2. QED
      BY <1>0, <2>2, <2>3, <3>1, Zenon
  <2>4. CASE backlogCnt' = decBacklogCnt + 1 /\ pc' = [pc EXCEPT ![c] = "wait"]
    <3>1. Waiting' = Waiting
      BY <2>1, <2>4, Zenon DEF Waiting, TypeOK
    <3>2. backlogCnt' = backlogCnt
      BY <2>2, <2>4 DEF TypeOK
    <3>3. QED
      BY <1>1, <3>1, <3>2, Zenon
  <2>5. QED
    BY <1>3, <2>3, <2>4, Zenon DEF Wakeup, BacklogTimeout, Checkout
<1>4. ASSUME NEW c \in Client,
             Write(c) \/ Answer(c) \/ EndSession(c) \/ WorkerClosed(c) \/ Abandon(c)
      PROVE  BacklogExact'
  <2>1. UNCHANGED backlogCnt /\ c \notin Waiting
    BY <1>4, Zenon DEF Write, Answer, EndSession, WorkerClosed, Abandon, Waiting
  <2>2. \E at \in {"idle", "busy", "free", "session", "notify"} : pc' = pc \/ pc' = [pc EXCEPT ![c] = at]
    BY <1>4, Zenon DEF Write, Answer, EndSession, WorkerClosed, Abandon, LetGo
  <2>3. Waiting' = Waiting
    BY <2>1, <2>2, Zenon DEF Waiting, TypeOK
  <2>4. QED
    BY <1>1, <2>1, <2>3, Zenon
<1>5. ASSUME NEW c \in Client, SignalReturn(c) PROVE BacklogExact'
  <2> DEFINE p == [pc EXCEPT ![c] = "idle"]
  <2>1. p \in [Client -> ClientPC] /\ {d \in Client : p[d] \in {"wait", "woken"}} = Waiting
    BY <1>5, Zenon DEF SignalReturn, Waiting, TypeOK, ClientPC
  <2>2. Signal(p) /\ UNCHANGED backlogCnt
    BY <1>5, Zenon DEF SignalReturn
  <2> HIDE DEF p
  <2>3. QED
    BY <1>1, <2>1, <2>2, SignalKeepsWaiting, Zenon
<1>6. ASSUME NEW w \in Worker, SignalRecover(w) \/ SignalReady(w) PROVE BacklogExact'
  <2>1. Signal(pc) /\ UNCHANGED backlogCnt
    BY <1>6, Zenon DEF SignalRecover, SignalReady
  <2>2. pc \in [Client -> ClientPC] /\ {d \in Client : pc[d] \in {"wait", "woken"}} = Waiting
    BY Zenon DEF Waiting, TypeOK
  <2>3. QED
    BY <1>1, <2>1, <2>2, SignalKeepsWaiting, Zenon
<1>7. CASE UNCHANGED <<backlogCnt, pc>>
  BY <1>1, <1>7, Zenon DEF Waiting
<1>8. ASSUME NEW w \in Worker, WorkerStep(w), ~SignalRecover(w), ~SignalReady(w)
      PROVE  UNCHANGED <<backlogCnt, pc>>
  <2>1. CASE StrayEOR(w) \/ RecoverFree(w) \/ RecoverTimeout(w) \/ RecoverClosed(w) \/ RecoverEnd(w)
    BY <2>1, Zenon DEF StrayEOR, RecoverFree, RecoverTimeout, RecoverClosed, RecoverEnd
  <2>2. CASE ControlMsg(w) \/ WorkerReady(w) \/ StartRead(w) \/ ReadError(w)
    BY <2>2, Zenon DEF ControlMsg, WorkerReady, StartRead, ReadError
  <2>3. CASE ProcExit(w) \/ RestartWorker(w) \/ TimePasses(w)
    BY <2>3, Zenon DEF ProcExit, RestartWorker, TimePasses
  <2>4. QED
    BY <1>8, <2>1, <2>2, <2>3, Zenon DEF WorkerStep
<1>9. ASSUME \/ \E r \in pendingRec : RecoverBegin(r)
             \/ \E n \in Sizes : Resize(n)
             \/ StartMonitor \/ Reap \/ checkWorkerLifespan \/ RacMaint \/ Crashed
             \/ UNCHANGED vars
      PROVE  UNCHANGED <<backlogCnt, pc>>
  <2>1. CASE (\E r \in pendingRec : RecoverBegin(r)) \/ (\E n \in Sizes : Resize(n))
    BY <2>1, Zenon DEF RecoverBegin, Resize
  <2>2. CASE StartMonitor \/ Reap \/ checkWorkerLifespan \/ RacMaint
    BY <2>2, Zenon DEF StartMonitor, Reap, checkWorkerLifespan, RacMaint
  <2>3. CASE Crashed \/ UNCHANGED vars
    BY <2>3, Zenon DEF Crashed, vars
  <2>4. QED
    BY <1>9, <2>1, <2>2, <2>3, Zenon
<1>10. QED
  BY <1>2, <1>3, <1>4, <1>5, <1>6, <1>7, <1>8, <1>9, Zenon DEF Next, ClientStep

\* backlogCnt is at all times the number of callers of GetWorker in the backlog,
\* for any number of callers, wake-ups in vain and timeouts.
THEOREM BacklogCounts == Spec => []BacklogExact
<1>1. Init => BacklogExact
  <2> SUFFICES ASSUME Init PROVE BacklogExact
    BY Zenon
  <2>1. {c \in Client : pc[c] \in {"wait", "woken"}} = {} /\ backlogCnt = 0
    BY Zenon DEF Init
  <2>2. QED
    BY <2>1, FS_EmptySet, Zenon DEF BacklogExact
<1>2. QED
  BY <1>1, SpecInv, NextBacklogExact, PTL DEF Spec

-----------------------------------------------------------------------------
(* The goroutines in doRead                                                *)

\* Every step keeps numHealthyWorkers equal to the number of goroutines in doRead.
LEMMA NextHealthyExact == TypeOK /\ PoolInv /\ HealthyExact /\ [Next]_vars => HealthyExact'
<1> SUFFICES ASSUME TypeOK, PoolInv, HealthyExact, [Next]_vars PROVE HealthyExact'
  BY Zenon
<1>0. /\ numHealthyWorkers = Cardinality(Reading)
      /\ HealthyExact' <=> numHealthyWorkers' = Cardinality(Reading')
  BY Zenon DEF HealthyExact, Reading
<1>1. ASSUME UNCHANGED numHealthyWorkers, Reading' = Reading PROVE HealthyExact'
  BY <1>0, <1>1, Zenon
<1>2. ASSUME NEW w \in Worker, StartRead(w) PROVE HealthyExact'
  <2>1. w \notin Reading /\ Reading' = Reading \cup {w} /\ numHealthyWorkers' = numHealthyWorkers + 1
    <3>1. /\ attach[w] = "signalled" /\ attach' = [attach EXCEPT ![w] = "reading"]
          /\ numHealthyWorkers' = numHealthyWorkers + 1
      BY <1>2, Zenon DEF StartRead
    <3>2. attach \in [Worker -> Attach]
      BY Zenon DEF TypeOK
    <3>3. QED
      BY <3>1, <3>2, Zenon DEF Reading
  <2>2. QED
    BY <1>0, <2>1, CountAdd, CountedFinite, Zenon
<1>3. ASSUME NEW w \in Worker, ReadError(w) PROVE HealthyExact'
  <2>1. CASE attach[w] = "wait"
    <3>1. Reading' = Reading /\ UNCHANGED numHealthyWorkers
      BY <1>3, <2>1, Zenon DEF ReadError, DecHealthyWorkers, Reading, TypeOK
    <3>2. QED
      BY <1>1, <3>1, Zenon
  <2>2. CASE attach[w] = "reading"
    <3>1. w \in Reading /\ Reading' = Reading \ {w} /\ numHealthyWorkers' = numHealthyWorkers - 1
      <4>1. attach' = [attach EXCEPT ![w] = "done"] /\ numHealthyWorkers' = DecHealthyWorkers(w)
        BY <1>3, Zenon DEF ReadError
      <4>2. attach \in [Worker -> Attach]
        BY Zenon DEF TypeOK
      <4>3. QED
        BY <2>2, <4>1, <4>2, Zenon DEF DecHealthyWorkers, Reading
    <3>2. QED
      BY <1>0, <3>1, CountRemove, CountedFinite, Zenon
  <2>3. QED
    BY <1>3, <2>1, <2>2, Zenon DEF ReadError
<1>4. ASSUME NEW w \in Worker, ControlMsg(w) \/ WorkerReady(w) \/ SignalReady(w) PROVE HealthyExact'
  <2>1. Reading' = Reading /\ UNCHANGED numHealthyWorkers
    BY <1>4 DEF ControlMsg, WorkerReady, SignalReady, Reading, TypeOK
  <2>2. QED
    BY <1>1, <2>1, Zenon
<1>5. ASSUME NEW first \in Int, NEW last \in Int, StartWorkers(first, last), UNCHANGED numHealthyWorkers
      PROVE  HealthyExact'
  <2>1. \A w \in Worker : w \in Int
    BY ConstantsAssumption DEF Worker
  <2>2. \A w \in Worker : w \in spawned + 1 .. spawned + (last - first + 1) => attach[w] = "none"
    BY <2>1 DEF PoolInv, NotSpawned, TypeOK
  <2>3. attach' = [w \in Worker |-> IF w \in spawned + 1 .. spawned + (last - first + 1)
                                   THEN "wait" ELSE attach[w]]
    BY <1>5, Zenon DEF StartWorkers
  <2>4. Reading' = Reading
    BY <2>2, <2>3, Zenon DEF Reading
  <2>5. QED
    BY <1>1, <1>5, <2>4, Zenon
<1>6. CASE UNCHANGED <<numHealthyWorkers, attach>>
  BY <1>1, <1>6, Zenon DEF Reading
<1>7. ASSUME NEW w \in Worker, RestartWorker(w) PROVE HealthyExact'
  <2>1. /\ UNCHANGED numHealthyWorkers
        /\ UNCHANGED attach \/ StartWorkers(id[w], id[w])
    BY <1>7, Zenon DEF RestartWorker
  <2>2. id[w] \in Int
    BY Zenon DEF TypeOK
  <2>3. QED
    BY <1>5, <1>6, <2>1, <2>2, Zenon
<1>8. ASSUME NEW n \in Sizes, Resize(n) PROVE HealthyExact'
  <2>1. /\ UNCHANGED numHealthyWorkers
        /\ UNCHANGED attach \/ \E last \in currentSize - 1 .. n - 1 : StartWorkers(currentSize, last)
    BY <1>8, Zenon DEF Resize, Grow, Shrink
  <2>2. currentSize \in Int
    BY Zenon DEF TypeOK
  <2>3. QED
    BY <1>5, <1>6, <2>1, <2>2
<1>9. ASSUME NEW c \in Client, ClientStep(c) PROVE UNCHANGED <<numHealthyWorkers, attach>>
  <2>1. CASE GetWorker(c) \/ Wakeup(c) \/ BacklogTimeout(c)
    BY <2>1, Zenon DEF GetWorker, Wakeup, BacklogTimeout
  <2>2. CASE Write(c) \/ Answer(c) \/ EndSession(c)
    BY <2>2, Zenon DEF Write, Answer, EndSession
  <2>3. CASE SignalReturn(c) \/ WorkerClosed(c) \/ Abandon(c)
    BY <2>3, Zenon DEF SignalReturn, WorkerClosed, Abandon
  <2>4. QED
    BY <1>9, <2>1, <2>2, <2>3, Zenon DEF ClientStep
<1>10. ASSUME NEW w \in Worker,
              \/ StrayEOR(w) \/ RecoverFree(w) \/ RecoverTimeout(w) \/ RecoverClosed(w)
              \/ SignalRecover(w) \/ RecoverEnd(w) \/ ProcExit(w) \/ TimePasses(w)
       PROVE  UNCHANGED <<numHealthyWorkers, attach>>
  <2>1. CASE StrayEOR(w) \/ RecoverFree(w) \/ RecoverTimeout(w) \/ RecoverClosed(w)
    BY <2>1, Zenon DEF StrayEOR, RecoverFree, RecoverTimeout, RecoverClosed
  <2>2. CASE SignalRecover(w) \/ RecoverEnd(w) \/ ProcExit(w) \/ TimePasses(w)
    BY <2>2, Zenon DEF SignalRecover, RecoverEnd, ProcExit, TimePasses
  <2>3. QED
    BY <1>10, <2>1, <2>2, Zenon
<1>11. ASSUME \/ \E r \in pendingRec : RecoverBegin(r)
              \/ StartMonitor \/ Reap \/ checkWorkerLifespan \/ RacMaint \/ Crashed
              \/ UNCHANGED vars
       PROVE  UNCHANGED <<numHealthyWorkers, attach>>
  <2>1. CASE \E r \in pendingRec : RecoverBegin(r)
    BY <2>1, Zenon DEF RecoverBegin
  <2>2. CASE StartMonitor \/ Reap \/ checkWorkerLifespan \/ RacMaint
    BY <2>2, Zenon DEF StartMonitor, Reap, checkWorkerLifespan, RacMaint
  <2>3. CASE Crashed \/ UNCHANGED vars
    BY <2>3, Zenon DEF Crashed, vars
  <2>4. QED
    BY <1>11, <2>1, <2>2, <2>3, Zenon
<1>12. QED
  BY <1>2, <1>3, <1>4, <1>6, <1>7, <1>8, <1>9, <1>10, <1>11, Zenon DEF Next, WorkerStep

\* numHealthyWorkers is at all times the number of attach goroutines in doRead.
THEOREM HealthyCounts == Spec => []HealthyExact
<1>1. Init => HealthyExact
  <2> SUFFICES ASSUME Init PROVE HealthyExact
    BY Zenon
  <2>1. {w \in Worker : attach[w] = "reading"} = {} /\ numHealthyWorkers = 0
    BY Zenon DEF Init
  <2>2. QED
    BY <2>1, FS_EmptySet, Zenon DEF HealthyExact
<1>2. QED
  BY <1>1, SpecInv, NextHealthyExact, PTL DEF Spec
=============================================================================
