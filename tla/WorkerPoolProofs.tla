-------------------------- MODULE WorkerPoolProofs --------------------------
(***************************************************************************)
(* Theorems about WorkerPool, for every number of clients, workers, sizes  *)
(* and bounds: type correctness, exclusive use of a worker, no double      *)
(* dispatch, the ticket rule, loops in range, and workers told to exit out *)
(* of the clients' reach.                                                  *)
(***************************************************************************)
EXTENDS WorkerPoolTypes

USE DEF sizeVars, ticketVars, recVars, clientVars, waitVars, monVars, timeVars

-----------------------------------------------------------------------------
(* Exclusive use of a worker.  The inductive invariant says who may use a  *)
(* worker (NoUser), that a worker in the queue or still starting has no    *)
(* user and no ticket, and that the two maps of checked-out workers agree. *)

NoUser(w) ==
  /\ \A c \in Client : held[c] # w
  /\ \A r \in pendingRec : r.w # w
  /\ rec[w] # "waiting"

Exclusive ==
  /\ \A c, d \in Client : held[c] = held[d] /\ held[c] # None => c = d
  /\ \A c \in Client, r \in pendingRec : held[c] # r.w
  /\ \A c \in Client : held[c] # None => rec[held[c]] # "waiting"
  /\ \A q, r \in pendingRec : q.w = r.w => q = r
  /\ \A r \in pendingRec : rec[r.w] # "waiting"

QueueFree == \A w \in activeQ : NoUser(w) /\ checkoutTickets[w] = None

StartingFree ==
  \A w \in Worker : attach[w] \in {"none", "wait", "sent"} =>
    w \notin activeQ /\ NoUser(w) /\ checkoutTickets[w] = None

NotSpawned == \A w \in Worker : w > spawned => attach[w] = "none"

PoolInv ==
  /\ Holds /\ Exclusive /\ QueueFree /\ StartingFree /\ NotSpawned
  /\ dispatchedWorkers = checkoutTickets

\* The types the invariant is about.
UseTypes ==
  /\ activeQ \subseteq Worker
  /\ checkoutTickets \in [Worker -> Ticket \cup {None}]
  /\ attach \in [Worker -> Attach] /\ rec \in [Worker -> Rec]
  /\ pendingRec \subseteq [w : Worker, t : Ticket]
  /\ pc \in [Client -> ClientPC]
  /\ held \in [Client -> Worker \cup {None}]
  /\ ticket \in [Client -> Ticket \cup {None}]

\* They are part of the type invariant.
LEMMA UseTypesOK == TypeOK => UseTypes
BY Zenon DEF TypeOK, UseTypes

\* In the initial state nobody uses a worker and the queue is empty.
LEMMA InitPoolInv == Init => PoolInv
BY ConstantsAssumption
   DEF Init, PoolInv, Holds, Exclusive, QueueFree, StartingFree, NotSpawned, NoUser, Worker, None

\* Starting workers only adds starting ones, and numbers them in order.
LEMMA StartWorkersPoolInv ==
  ASSUME spawned \in Nat, attach \in [Worker -> Attach], NotSpawned,
         NEW first \in Int, NEW last \in Int, last >= first - 1, StartWorkers(first, last)
  PROVE  /\ \A v \in Worker : attach'[v] \in {"none", "wait", "sent"} =>
                               attach[v] \in {"none", "wait", "sent"}
         /\ NotSpawned'
<1> USE ConstantsAssumption DEF NotSpawned
<1>1. \A v \in Worker : v \in Int
  BY DEF Worker
<1>2. /\ spawned' = spawned + (last - first + 1)
      /\ attach' = [v \in Worker |-> IF v \in spawned + 1 .. spawned + (last - first + 1)
                                     THEN "wait" ELSE attach[v]]
  BY Zenon DEF StartWorkers
<1>3. \A v \in Worker : v \in spawned + 1 .. spawned + (last - first + 1) => attach[v] = "none"
  BY <1>1
<1>4. \A v \in Worker : v > spawned' => v > spawned /\ v \notin spawned + 1 .. spawned'
  BY <1>1, <1>2
<1>5. QED
  BY <1>2, <1>3, <1>4, Zenon

\* A step that takes workers off the queue and leaves the rest of the state of the
\* invariant alone keeps it; so does one that leaves it all alone.
LEMMA PoolShrinks ==
  ASSUME PoolInv, activeQ' \subseteq activeQ,
         UNCHANGED <<spawned, attach, checkoutTickets, dispatchedWorkers, rec, pendingRec,
                     pc, held, ticket>>
  PROVE  PoolInv'
BY Zenon DEF PoolInv, Holds, Exclusive, QueueFree, StartingFree, NotSpawned, NoUser

LEMMA PoolFrame ==
  ASSUME PoolInv,
         UNCHANGED <<activeQ, spawned, attach, checkoutTickets, dispatchedWorkers, rec, pendingRec,
                     pc, held, ticket>>
  PROVE  PoolInv'
BY PoolShrinks, Zenon

\* The steps of a coordinator keep the invariant: one step per action.
LEMMA ClientPoolInv == ASSUME UseTypes, PoolInv, NEW c \in Client, ClientStep(c) PROVE PoolInv'
<1> USE ConstantsAssumption, NoneDistinct
    DEF UseTypes, PoolInv, Holds, Exclusive, QueueFree, StartingFree, NotSpawned, NoUser
<1>1. CASE GetWorker(c)
  BY <1>1, FreshTicketType DEF GetWorker, Checkout, Poll, Available
<1>2. CASE Wakeup(c)
  BY <1>2, FreshTicketType DEF Wakeup, Checkout, Poll, Available
<1>3. CASE BacklogTimeout(c)
  BY <1>3 DEF BacklogTimeout
<1>4. CASE Write(c)
  BY <1>4 DEF Write, LetGo
<1>5. CASE Answer(c)
  BY <1>5 DEF Answer
<1>6. CASE EndSession(c)
  BY <1>6 DEF EndSession, ReturnWorker, RightTicket, LetGo, unregisterDispatchedWorker
<1>7. CASE SignalReturn(c)
  BY <1>7 DEF SignalReturn, Signal
<1>8. CASE WorkerClosed(c)
  BY <1>8 DEF WorkerClosed, LetGo
<1>9. CASE Abandon(c)
  BY <1>9 DEF Abandon, LetGo
<1>10. QED
  BY ClientStep(c), <1>1, <1>2, <1>3, <1>4, <1>5, <1>6, <1>7, <1>8, <1>9, Zenon DEF ClientStep

\* So do those of a worker's goroutines, of its process and of the monitor
\* that restarts it.
LEMMA WorkerPoolInv == ASSUME TypeOK, UseTypes, PoolInv, NEW w \in Worker, WorkerStep(w) PROVE PoolInv'
<1>1. CASE StrayEOR(w)
  BY <1>1, PoolFrame, Zenon DEF StrayEOR
<1>12. CASE ProcExit(w)
  BY <1>12, PoolFrame, Zenon DEF ProcExit
<1>14. CASE TimePasses(w)
  BY <1>14, PoolFrame, Zenon DEF TimePasses
<1> USE ConstantsAssumption, NoneDistinct
    DEF UseTypes, PoolInv, Holds, Exclusive, QueueFree, StartingFree, NotSpawned, NoUser
<1>2. CASE RecoverFree(w)
  BY <1>2 DEF RecoverFree, ReturnWorker, RightTicket, unregisterDispatchedWorker
<1>3. CASE SignalRecover(w)
  BY <1>3 DEF SignalRecover, Signal
<1>4. CASE RecoverTimeout(w)
  BY <1>4 DEF RecoverTimeout
<1>5. CASE RecoverClosed(w)
  BY <1>5 DEF RecoverClosed
<1>6. CASE RecoverEnd(w)
  BY <1>6 DEF RecoverEnd
<1>7. CASE ControlMsg(w)
  BY <1>7 DEF ControlMsg
<1>8. CASE WorkerReady(w)
  BY <1>8 DEF WorkerReady
<1>9. CASE SignalReady(w)
  BY <1>9 DEF SignalReady, Signal
<1>10. CASE StartRead(w)
  BY <1>10 DEF StartRead
<1>11. CASE ReadError(w)
  BY <1>11 DEF ReadError
<1>13. CASE RestartWorker(w)
  <2>1. UNCHANGED <<spawned, attach>> \/ StartWorkers(id[w], id[w])
    BY <1>13, Zenon DEF RestartWorker
  <2>2. /\ \A v \in Worker : attach'[v] \in {"none", "wait", "sent"} =>
                               attach[v] \in {"none", "wait", "sent"}
        /\ NotSpawned'
    <3>1. /\ spawned \in Nat /\ attach \in [Worker -> Attach] /\ NotSpawned
          /\ id[w] \in Int /\ id[w] >= id[w] - 1
      BY DEF TypeOK
    <3>2. QED
      BY <2>1, <3>1, StartWorkersPoolInv
  <2>3. QED
    BY <1>13, <2>2 DEF RestartWorker, Without, unregisterDispatchedWorker
<1>15. QED
  BY WorkerStep(w), <1>1, <1>2, <1>3, <1>4, <1>5, <1>6, <1>7, <1>8, <1>9, <1>10, <1>11, <1>12, <1>13, <1>14, Zenon DEF WorkerStep

\* Every step keeps the invariant.
LEMMA NextPoolInv == TypeOK /\ PoolInv /\ [Next]_vars => PoolInv'
<1> SUFFICES ASSUME TypeOK, UseTypes, PoolInv, [Next]_vars PROVE PoolInv'
  BY UseTypesOK, Zenon
<1>3. CASE StartMonitor \/ Reap \/ RacMaint
  BY <1>3, PoolFrame, Zenon DEF StartMonitor, Reap, RacMaint
<1>4. CASE Crashed \/ UNCHANGED vars
  BY <1>4, PoolFrame, Zenon DEF Crashed, vars
<1>5. CASE checkWorkerLifespan
  BY <1>5, PoolShrinks, Zenon DEF checkWorkerLifespan, Without
<1> USE ConstantsAssumption, NoneDistinct
    DEF UseTypes, PoolInv, Holds, Exclusive, QueueFree, StartingFree, NotSpawned, NoUser
<1>1. ASSUME NEW r \in pendingRec, RecoverBegin(r) PROVE PoolInv'
  BY <1>1 DEF RecoverBegin
<1>2. ASSUME NEW n \in Sizes, Resize(n) PROVE PoolInv'
  <2>1. UNCHANGED <<spawned, attach>> \/ \E last \in currentSize - 1 .. n - 1 : StartWorkers(currentSize, last)
    BY <1>2, Zenon DEF Resize, Grow, Shrink
  <2>2. /\ \A v \in Worker : attach'[v] \in {"none", "wait", "sent"} =>
                               attach[v] \in {"none", "wait", "sent"}
        /\ NotSpawned'
    <3>1. /\ spawned \in Nat /\ attach \in [Worker -> Attach] /\ NotSpawned
          /\ currentSize \in Int /\ n \in Int
      BY DEF TypeOK
    <3>2. QED
      BY <2>1, <3>1, StartWorkersPoolInv
  <2>3. activeQ' \subseteq activeQ
    BY <1>2, Zenon DEF Resize, Grow, Shrink, Without
  <2>4. QED
    BY <1>2, <2>2, <2>3 DEF Resize
<1>6. QED
  BY ClientPoolInv, WorkerPoolInv, <1>1, <1>2, <1>3, <1>4, <1>5, Zenon DEF Next

\* In every reachable state the variables have their types and the invariant
\* of exclusive use holds.
LEMMA SpecInv == Spec => [](TypeOK /\ PoolInv)
<1>1. Init => TypeOK /\ PoolInv
  BY InitTypeOK, InitPoolInv, Zenon
<1>2. TypeOK /\ PoolInv /\ [Next]_vars => TypeOK' /\ PoolInv'
  BY NextTypeOK, NextPoolInv, Zenon DEF PoolInv
<1>3. QED
  BY <1>1, <1>2, PTL DEF Spec

\* The invariant implies the property the runs check: the users of a worker,
\* as a set of tagged tuples, are at most one.
LEMMA ExclusiveNoShare == TypeOK /\ PoolInv => NoSharedWorker
<1> SUFFICES ASSUME TypeOK, PoolInv, NEW w \in Worker
             PROVE  /\ \A u, v \in Users(w) : u = v
                    /\ w \in activeQ => Users(w) = {}
  BY Zenon DEF NoSharedWorker
<1> USE DEF PoolInv, Users
<1>1. \A u, v \in Users(w) : u = v
  <2> SUFFICES ASSUME NEW u \in Users(w), NEW v \in Users(w) PROVE u = v
    BY Zenon
  <2> USE NoneDistinct DEF Exclusive
  <2>1. CASE \E c \in Client : held[c] = w
    <3>1. PICK c \in Client : held[c] = w
      BY <2>1, Zenon
    <3>2. /\ \A d \in Client : held[d] = w => d = c
          /\ \A r \in pendingRec : r.w # w
          /\ rec[w] # "waiting"
      BY <3>1, Zenon
    <3>3. QED
      BY <3>1, <3>2, Zenon
  <2>2. CASE \E r \in pendingRec : r.w = w
    <3>1. PICK r \in pendingRec : r.w = w
      BY <2>2, Zenon
    <3>2. /\ \A c \in Client : held[c] # w
          /\ \A q \in pendingRec : q.w = w => q = r
          /\ rec[w] # "waiting"
      BY <3>1, Zenon
    <3>3. QED
      BY <3>1, <3>2, Zenon
  <2>3. CASE /\ \A c \in Client : held[c] # w
             /\ \A r \in pendingRec : r.w # w
    BY <2>3, Zenon
  <2>4. QED
    BY <2>1, <2>2, <2>3, Zenon
<1>2. w \in activeQ => Users(w) = {}
  BY Zenon DEF QueueFree, NoUser
<1>3. QED
  BY <1>1, <1>2, Zenon

\* Type correctness of the pool for every value of the constants.
THEOREM TypeCorrect == Spec => []TypeOK
BY SpecInv, PTL

\* No worker is ever used by two sessions or recoveries, nor by one while it is
\* idle in the queue, for any number of clients, workers, exits, recoveries and
\* resizes.
THEOREM ExclusiveUse == Spec => []NoSharedWorker
BY SpecInv, ExclusiveNoShare, PTL

\* The "double_dispatch" exit of GetWorker is dead code: a polled worker has no
\* ticket in checkoutTickets and none in dispatchedWorkers.
THEOREM NeverDispatchedTwice == Spec => []NoDoubleDispatch
<1>1. TypeOK /\ PoolInv => NoDoubleDispatch
  BY Zenon DEF NoDoubleDispatch, PoolInv, QueueFree, alreadyDispatched
<1>2. QED
  BY <1>1, SpecInv, PTL

\* Only ReturnWorker and WorkerReady put a worker into the queue: every other
\* step leaves the queue as it is or takes workers out.
LEMMA OthersOnlyTake ==
  ASSUME Next,
         \A c \in Client : ~EndSession(c),
         \A v \in Worker : ~RecoverFree(v) /\ ~WorkerReady(v)
  PROVE  activeQ' \subseteq activeQ
<1>1. ASSUME NEW c \in Client, ClientStep(c), ~EndSession(c) PROVE activeQ' \subseteq activeQ
  <2>1. CASE GetWorker(c)
    BY <2>1, Zenon DEF GetWorker, Checkout, Poll
  <2>2. CASE Wakeup(c)
    BY <2>2, Zenon DEF Wakeup, Checkout, Poll
  <2>3. CASE BacklogTimeout(c) \/ Write(c) \/ Answer(c)
    BY <2>3, Zenon DEF BacklogTimeout, Write, Answer
  <2>4. CASE SignalReturn(c) \/ WorkerClosed(c) \/ Abandon(c)
    BY <2>4, Zenon DEF SignalReturn, WorkerClosed, Abandon
  <2>5. QED
    BY <1>1, <2>1, <2>2, <2>3, <2>4, Zenon DEF ClientStep
<1>2. ASSUME NEW v \in Worker, WorkerStep(v), ~RecoverFree(v), ~WorkerReady(v)
      PROVE  activeQ' \subseteq activeQ
  <2>1. CASE StrayEOR(v) \/ RecoverTimeout(v) \/ RecoverClosed(v) \/ SignalRecover(v)
    BY <2>1, Zenon DEF StrayEOR, RecoverTimeout, RecoverClosed, SignalRecover
  <2>2. CASE RecoverEnd(v) \/ ControlMsg(v) \/ SignalReady(v) \/ StartRead(v)
    BY <2>2, Zenon DEF RecoverEnd, ControlMsg, SignalReady, StartRead
  <2>3. CASE ReadError(v) \/ ProcExit(v) \/ TimePasses(v)
    BY <2>3, Zenon DEF ReadError, ProcExit, TimePasses
  <2>4. CASE RestartWorker(v)
    BY <2>4, Zenon DEF RestartWorker, Without
  <2>5. QED
    BY <1>2, <2>1, <2>2, <2>3, <2>4, Zenon DEF WorkerStep
<1>3. ASSUME NEW r \in pendingRec, RecoverBegin(r) PROVE activeQ' \subseteq activeQ
  BY <1>3, Zenon DEF RecoverBegin
<1>4. ASSUME NEW n \in Sizes, Resize(n) PROVE activeQ' \subseteq activeQ
  BY <1>4, Zenon DEF Resize, Grow, Shrink, Without
<1>5. CASE StartMonitor \/ Reap \/ RacMaint \/ Crashed
  BY <1>5, Zenon DEF StartMonitor, Reap, RacMaint, Crashed, vars
<1>6. CASE checkWorkerLifespan
  BY <1>6, Zenon DEF checkWorkerLifespan, Without
<1>7. QED
  BY <1>1, <1>2, <1>3, <1>4, <1>5, <1>6, Zenon DEF Next

\* What a worker that enters the queue was before the step.
LEMMA QueueEntry ==
  ASSUME TypeOK, PoolInv, Next, NEW w \in activeQ', w \notin activeQ
  PROVE  attach[w] = "sent" \/ (checkoutTickets[w] # None /\ checkoutTickets'[w] = None)
<1>1. ASSUME NEW c \in Client, EndSession(c)
      PROVE  checkoutTickets[w] # None /\ checkoutTickets'[w] = None
  BY <1>1 DEF EndSession, ReturnWorker, RightTicket, TypeOK, PoolInv, Holds
<1>2. ASSUME NEW v \in Worker, RecoverFree(v)
      PROVE  checkoutTickets[w] # None /\ checkoutTickets'[w] = None
  BY <1>2 DEF RecoverFree, ReturnWorker, RightTicket, TypeOK
<1>3. ASSUME NEW v \in Worker, WorkerReady(v) PROVE attach[w] = "sent"
  BY <1>3, Zenon DEF WorkerReady
<1>4. QED
  BY <1>1, <1>2, <1>3, OthersOnlyTake, Zenon

\* A worker enters the queue only when its attach goroutine makes it ready or
\* when the session that holds its ticket gives the ticket up.
THEOREM TicketRule == Spec => EntersQueueOnce
<1>1. ASSUME TypeOK, PoolInv, Next
      PROVE  \A w \in activeQ' \ activeQ :
               attach[w] = "sent" \/ (checkoutTickets[w] # None /\ checkoutTickets'[w] = None)
  BY <1>1, QueueEntry, Zenon
<1>2. QED
  BY <1>1, SpecInv, PTL DEF Spec, EntersQueueOnce

\* RacMaint and checkWorkerLifespan never index beyond the workers slice, for
\* any pool sizes, changes of size, failed starts and exits.
THEOREM LoopsStayInRange == Spec => []LoopsInRange
<1>1. Init => LoopsInRange
  BY Zenon DEF Init, LoopsInRange
<1>2. QED
  BY <1>1, NextLoops, SpecInv, PTL DEF Spec

-----------------------------------------------------------------------------
(* Workers that were told to exit                                          *)

Starting == {"none", "wait", "sent"}

\* A worker that was told to exit is not in the queue, and nobody is left who
\* could put it there: no coordinator or recovery uses it and its attach
\* goroutine has been through WorkerReady.
LeavesForGood(w) == w \notin activeQ /\ attach[w] \notin Starting /\ NoUser(w)
ExitInv == \A w \in Worker : proc[w] = "terminating" => LeavesForGood(w)

\* Dangling worker recovery tells workers to exit that are in use.
Told == EnableDanglingWorkerRecovery \/ ExitInv

\* Forking workers tells nobody to exit, and makes no worker that was told to
\* exit a starting one.
LEMMA ForkedRun ==
  ASSUME TypeOK, NotSpawned, ExitInv,
         NEW first \in Int, NEW last \in Int, last >= first - 1, StartWorkers(first, last),
         \A v \in Worker : proc'[v] = "terminating" =>
           proc[v] = "terminating" /\ v \notin spawned + 1 .. spawned'
  PROVE  \A v \in Worker : proc'[v] = "terminating" => attach'[v] \notin Starting
<1>1. \A v \in Worker : v \notin spawned + 1 .. spawned' => attach'[v] = attach[v]
  BY Zenon DEF StartWorkers, TypeOK
<1>2. QED
  BY <1>1, Zenon DEF ExitInv, LeavesForGood

\* A step that leaves the state of the invariant alone keeps it.
LEMMA ExitFrame ==
  ASSUME ExitInv, UNCHANGED <<activeQ, attach, proc, held, pendingRec, rec>> PROVE ExitInv'
BY Zenon DEF ExitInv, LeavesForGood, NoUser

\* So does a coordinator that forgets its worker, with or without a recovery.
LEMMA ExitLetGo ==
  ASSUME ExitInv, held \in [Client -> Worker \cup {None}], NEW c \in Client, NEW t,
         held' = [held EXCEPT ![c] = None], UNCHANGED <<activeQ, attach, proc, rec>>,
         pendingRec' = pendingRec \/ pendingRec' = pendingRec \cup {[w |-> held[c], t |-> t]}
  PROVE  ExitInv'
<1>1. ASSUME NEW w \in Worker, proc[w] = "terminating" PROVE NoUser(w)'
  <2>1. NoUser(w) /\ w # None
    BY <1>1, NoneDistinct, Zenon DEF ExitInv, LeavesForGood
  <2>2. \A d \in Client : held'[d] # w
    BY <2>1, Zenon DEF NoUser
  <2>3. \A r \in pendingRec' : r.w # w
    <3>1. held[c] # w /\ \A r \in pendingRec : r.w # w
      BY <2>1, Zenon DEF NoUser
    <3>2. QED
      BY <3>1
  <2>4. QED
    BY <2>1, <2>2, <2>3, Zenon DEF NoUser
<1>2. QED
  BY <1>1, Zenon DEF ExitInv, LeavesForGood

\* The steps of a coordinator.  The one that ends a session lets go of a worker
\* that nobody else uses, before or while it is told to exit.
LEMMA ClientExitInv ==
  ASSUME TypeOK, UseTypes, PoolInv, ExitInv, NEW c \in Client, ClientStep(c)
  PROVE  ExitInv'
<1>1. CASE BacklogTimeout(c) \/ Answer(c) \/ SignalReturn(c)
  BY <1>1, ExitFrame, Zenon DEF BacklogTimeout, Answer, SignalReturn
<1>4. CASE Write(c)
  <2>1. held \in [Client -> Worker \cup {None}]
    BY Zenon DEF UseTypes
  <2>2. CASE UNCHANGED held
    BY <1>4, <2>2, ExitFrame, Zenon DEF Write
  <2>3. CASE LetGo(c, "idle")
    BY <1>4, <2>1, <2>3, ExitLetGo, Zenon DEF Write, LetGo
  <2>4. QED
    BY <1>4, <2>2, <2>3, Zenon DEF Write
<1>8. CASE WorkerClosed(c) \/ Abandon(c)
  <2>1. held \in [Client -> Worker \cup {None}]
    BY Zenon DEF UseTypes
  <2>2. QED
    BY <1>8, <2>1, ExitLetGo, Zenon DEF WorkerClosed, Abandon, LetGo
<1> USE NoneDistinct DEF UseTypes, NoUser, ExitInv, LeavesForGood, Starting
<1>0. proc \in [Worker -> Proc]
  BY Zenon DEF TypeOK
<1>2. CASE GetWorker(c) \/ Wakeup(c)
  <2>1. UNCHANGED <<proc, attach, pendingRec, rec>>
    BY <1>2, Zenon DEF GetWorker, Wakeup
  <2>2. /\ activeQ' \subseteq activeQ
        /\ held' = held \/ \E w \in activeQ : held' = [held EXCEPT ![c] = w]
    BY <1>2, Zenon DEF GetWorker, Wakeup, Checkout, Poll, Available
  <2>3. \A w \in Worker : proc[w] = "terminating" => NoUser(w) /\ w \notin activeQ
    BY Zenon
  <2>4. \A w \in Worker : proc[w] = "terminating" => \A d \in Client : held'[d] # w
    BY <2>2, <2>3, Zenon
  <2>5. QED
    BY <2>1, <2>2, <2>4, Zenon
<1>6. CASE EndSession(c)
  <2>1. \A w \in Worker : w # held[c] => (proc'[w] = proc[w] /\ (w \in activeQ' => w \in activeQ))
    BY <1>0, <1>6 DEF EndSession, ReturnWorker, Terminate
  <2>2. held[c] \in Worker
    BY <1>6, Zenon DEF EndSession, PoolInv, Holds
  <2>3. proc'[held[c]] = "terminating" => held[c] \notin activeQ'
    BY <1>0, <1>6, <2>2, Zenon DEF EndSession, ReturnWorker, Terminate, PoolInv, Holds, Exclusive, QueueFree
  <2>4. UNCHANGED <<attach, pendingRec, rec>> /\ held' = [held EXCEPT ![c] = None]
    BY <1>6, Zenon DEF EndSession, LetGo
  <2>5. attach[held[c]] \notin Starting
    BY <2>2, Zenon DEF PoolInv, StartingFree
  <2>6. \A w \in Worker : w = held[c] => NoUser(w)'
    BY <2>2, <2>4, Zenon DEF PoolInv, Exclusive
  <2>7. QED
    BY <2>1, <2>2, <2>3, <2>4, <2>5, <2>6
<1>9. QED
  BY ClientStep(c), <1>1, <1>2, <1>4, <1>6, <1>8, Zenon DEF ClientStep

\* The steps of a worker's goroutines, of its process and of the monitor that
\* restarts it.
LEMMA WorkerExitInv ==
  ASSUME TypeOK, UseTypes, PoolInv, ExitInv, NEW w \in Worker, WorkerStep(w)
  PROVE  ExitInv'
<1> USE NoneDistinct DEF UseTypes, NoUser, ExitInv, LeavesForGood, Starting
<1>0. proc \in [Worker -> Proc]
  BY Zenon DEF TypeOK
<1>1. CASE StrayEOR(w)
  BY <1>1, Zenon DEF StrayEOR
<1>2. CASE RecoverFree(w)
  <2>1. /\ rec[w] = "waiting" /\ attach[w] = "reading"
        /\ \E s \in {"exiting", "notify"} : rec' = [rec EXCEPT ![w] = s]
        /\ UNCHANGED <<attach, pendingRec, held>>
    BY <1>2, Zenon DEF RecoverFree
  <2>2. \/ UNCHANGED <<activeQ, proc>>
        \/ UNCHANGED activeQ /\ Terminate({w})
        \/ activeQ' = activeQ \cup {w} /\ proc' = proc
    BY <1>2, Zenon DEF RecoverFree, ReturnWorker
  <2>3. proc[w] # "terminating" /\ w \notin activeQ
    BY <2>1, Zenon DEF PoolInv, QueueFree
  <2>4. NoUser(w)' /\ \A v \in Worker : NoUser(v) => NoUser(v)'
    BY <2>1 DEF PoolInv, Exclusive
  <2>5. QED
    BY <1>0, <2>1, <2>2, <2>3, <2>4 DEF Terminate
<1>3. CASE SignalRecover(w)
  BY <1>3, Zenon DEF SignalRecover, Signal
<1>4. CASE RecoverTimeout(w)
  BY <1>0, <1>4 DEF RecoverTimeout, Terminate, PoolInv, Exclusive, QueueFree, StartingFree
<1>5. CASE RecoverClosed(w)
  BY <1>5, Zenon DEF RecoverClosed
<1>6. CASE RecoverEnd(w)
  BY <1>6, Zenon DEF RecoverEnd
<1>7. CASE ControlMsg(w)
  BY <1>7, Zenon DEF ControlMsg
<1>8. CASE WorkerReady(w)
  BY <1>8, Zenon DEF WorkerReady
<1>9. CASE SignalReady(w)
  BY <1>9, Zenon DEF SignalReady, Signal
<1>10. CASE StartRead(w)
  BY <1>10, Zenon DEF StartRead
<1>11. CASE ReadError(w)
  BY <1>11, Zenon DEF ReadError
<1>12. CASE ProcExit(w)
  <2>1. /\ \A v \in Worker : proc'[v] = "terminating" => proc[v] = "terminating"
        /\ UNCHANGED <<activeQ, attach, held, pendingRec, rec>>
    BY <1>0, <1>12, Zenon DEF ProcExit
  <2>2. QED
    BY <2>1, Zenon
<1>13. CASE RestartWorker(w)
  <2>1. CASE UNCHANGED attach
    BY <1>0, <1>13, <2>1 DEF RestartWorker, Without
  <2>2. CASE StartWorkers(id[w], id[w]) /\ proc' = [proc EXCEPT ![w] = "gone", ![spawned + 1] = "running"]
    <3>1. spawned \in Nat /\ id[w] \in Int /\ id[w] >= id[w] - 1
      BY DEF TypeOK
    <3>2. spawned' = spawned + 1
      BY <2>2, <3>1 DEF StartWorkers
    <3>3. \A v \in Worker : proc'[v] = "terminating" =>
            proc[v] = "terminating" /\ v \notin spawned + 1 .. spawned'
      BY <1>0, <2>2, <3>1, <3>2, ConstantsAssumption DEF Worker
    <3>4. \A v \in Worker : proc'[v] = "terminating" => attach'[v] \notin Starting
      BY <2>2, <3>1, <3>3, ForkedRun, Zenon DEF PoolInv
    <3>5. QED
      BY <1>13, <3>3, <3>4, Zenon DEF RestartWorker, Without
  <2>3. QED
    BY <1>13, <2>1, <2>2, Zenon DEF RestartWorker
<1>14. CASE TimePasses(w)
  BY <1>14, Zenon DEF TimePasses
<1>15. QED
  BY WorkerStep(w), <1>1, <1>2, <1>3, <1>4, <1>5, <1>6, <1>7, <1>8, <1>9, <1>10, <1>11, <1>12, <1>13, <1>14, Zenon DEF WorkerStep

\* Every step keeps the invariant while dangling worker recovery is off.  Resize
\* and checkWorkerLifespan tell only workers in the queue to exit, which are
\* started and used by nobody, and take them out.
LEMMA NextExitInv ==
  TypeOK /\ PoolInv /\ ExitInv /\ ~EnableDanglingWorkerRecovery /\ [Next]_vars => ExitInv'
<1> SUFFICES ASSUME TypeOK, UseTypes, PoolInv, ExitInv, ~EnableDanglingWorkerRecovery, [Next]_vars
             PROVE  ExitInv'
  BY UseTypesOK, Zenon
<1> USE NoneDistinct DEF UseTypes, NoUser, ExitInv, LeavesForGood, Starting
<1>0. proc \in [Worker -> Proc]
  BY Zenon DEF TypeOK
<1>1. ASSUME NEW r \in pendingRec, RecoverBegin(r) PROVE ExitInv'
  BY <1>1, Zenon DEF RecoverBegin
<1>2. ASSUME NEW n \in Sizes, Resize(n) PROVE ExitInv'
  <2>1. CASE Grow(n)
    <3>1. PICK last \in currentSize - 1 .. n - 1 :
            /\ StartWorkers(currentSize, last)
            /\ proc' = [v \in Worker |-> IF v \in spawned + 1 .. spawned' THEN "running" ELSE proc[v]]
      BY <2>1, Zenon DEF Grow
    <3>2. currentSize \in Int /\ n \in Int
      BY ConstantsAssumption DEF TypeOK
    <3>3. last \in Int /\ last >= currentSize - 1
      BY <3>2
    <3>4. \A v \in Worker : proc'[v] = "terminating" => attach'[v] \notin Starting
      BY <3>1, <3>2, <3>3, ForkedRun, Zenon DEF PoolInv
    <3>5. QED
      BY <1>2, <2>1, <3>1, <3>4, Zenon DEF Resize, Grow
  <2>2. CASE Shrink(n)
    BY <1>0, <1>2, <2>2, Zenon DEF Resize, Shrink, Without, Terminate, PoolInv, QueueFree, StartingFree
  <2>3. QED
    BY <1>2, <2>1, <2>2, Zenon DEF Resize
<1>3. CASE StartMonitor
  BY <1>3, Zenon DEF StartMonitor
<1>4. CASE Reap
  BY <1>0, <1>4, Zenon DEF Reap
<1>5. CASE checkWorkerLifespan
  BY <1>0, <1>5 DEF checkWorkerLifespan, Without, Terminate, PoolInv, QueueFree, StartingFree
<1>6. CASE RacMaint
  BY <1>6, Zenon DEF RacMaint
<1>7. CASE Crashed \/ UNCHANGED vars
  BY <1>7, Zenon DEF Crashed, vars
<1>8. QED
  BY ClientExitInv, WorkerExitInv, <1>1, <1>2, <1>3, <1>4, <1>5, <1>6, <1>7, Zenon DEF Next

\* Without dangling worker recovery no worker that was told to exit is in the
\* queue, so GetWorker never hands one out: for any number of changes of size,
\* RAC maintenance requests, lifespans and recoveries (Resize, ReturnWorker,
\* Recover and checkWorkerLifespan, which call Terminate).
THEOREM NotHandedOut == Spec => []NeverIdleWhenTerminated
<1>1. Init => ExitInv
  BY Zenon DEF Init, ExitInv
<1>2. TypeOK /\ ExitInv => NeverIdleWhenTerminated
  BY Zenon DEF ExitInv, LeavesForGood, NeverIdleWhenTerminated, TypeOK
<1>3. Init => Told
  BY <1>1, Zenon DEF Told
<1>4. TypeOK /\ PoolInv /\ Told /\ [Next]_vars => Told'
  BY NextExitInv, Zenon DEF Told
<1>5. TypeOK /\ Told => NeverIdleWhenTerminated
  BY <1>2, Zenon DEF Told, NeverIdleWhenTerminated
<1>6. QED
  BY <1>3, <1>4, <1>5, SpecInv, PTL DEF Spec
=============================================================================
