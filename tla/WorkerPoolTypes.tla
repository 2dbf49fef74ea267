--------------------------- MODULE WorkerPoolTypes ---------------------------
(***************************************************************************)
(* WorkerPool keeps its types: the initial state has them, and every step  *)
(* of a state where sessions have a worker keeps them. The types are enough*)
(* for the steps to keep the loops over the slice in range.                *)
(***************************************************************************)
EXTENDS WorkerPool, TLAPS

\* FreshTicket is a ticket as long as one is free.
LEMMA FreshTicketType ==
  ASSUME Ticket \ TicketsInUse # {}
  PROVE  FreshTicket \in Ticket
BY Zenon DEF FreshTicket

\* None is neither a worker nor a ticket.
LEMMA NoneDistinct == None \notin Worker /\ None \notin Ticket
BY ConstantsAssumption DEF None, Worker, Ticket

\* Assigning one element keeps the type of a function.
LEMMA ExceptType ==
  ASSUME NEW S, NEW T, NEW f \in [S -> T], NEW x, NEW v \in T
  PROVE  [f EXCEPT ![x] = v] \in [S -> T]
BY Zenon

USE DEF sizeVars, ticketVars, recVars, clientVars, waitVars, monVars, timeVars

-----------------------------------------------------------------------------
(* Type correctness                                                        *)

\* The initial state has the types of TypeOK.
LEMMA InitTypeOK == Init => TypeOK
<1> SUFFICES ASSUME Init PROVE TypeOK
  BY Zenon
<1> USE ConstantsAssumption DEF Init, Worker, None, Ticket
<1>1. workers \in [0 .. InitSize - 1 -> Worker \cup {None}]
  BY Zenon
<1>2. InitSize \in {InitSize} \cup Sizes
  BY Zenon
<1>3. id \in [Worker -> Int]
  OBVIOUS
<1>4. SliceOK
  BY <1>1, <1>2, Zenon DEF SliceOK
<1>5. /\ status \in [Worker -> Status] /\ proc \in [Worker -> Proc] /\ attach \in [Worker -> Attach]
      /\ rec \in [Worker -> Rec] /\ pc \in [Client -> ClientPC]
      /\ exitTime \in [Worker -> {"never", "later", "due"}]
  BY Zenon DEF Status, Proc, Attach, Rec, ClientPC
<1>6. /\ checkoutTickets \in [Worker -> Ticket \cup {None}]
      /\ dispatchedWorkers \in [Worker -> Ticket \cup {None}]
      /\ recTicket \in [Worker -> Ticket \cup {None}]
      /\ held \in [Client -> Worker \cup {None}] /\ ticket \in [Client -> Ticket \cup {None}]
  BY Zenon
<1>7. /\ activeQ \subseteq Worker /\ pendingRec \subseteq [w : Worker, t : Ticket]
      /\ currentSize \in Int /\ desiredSize \in {InitSize} \cup Sizes
      /\ backlogCnt \in Nat /\ numHealthyWorkers \in Int /\ spawned \in Nat /\ orphans \in Nat
      /\ racs \in 0 .. MaxRacMaint /\ resizes \in 0 .. MaxResizes /\ faults \in 0 .. MaxFaults
  OBVIOUS
<1>8. monitoring \in BOOLEAN /\ sigchld \in BOOLEAN /\ panicked \in BOOLEAN
  BY Zenon
<1>9. QED
  BY ONLY <1>3, <1>4, <1>5, <1>6, <1>7, <1>8, Zenon DEF TypeOK

\* A coordinator in a session has a worker and a ticket.
Holds ==
  \A c \in Client :
    pc[c] \in {"got", "busy", "free", "session"} => held[c] # None /\ ticket[c] # None

\* Every step keeps the types: one step per action.
LEMMA NextTypeOK == TypeOK /\ Holds /\ [Next]_vars => TypeOK'
<1> SUFFICES ASSUME TypeOK, Holds, [Next]_vars PROVE TypeOK'
  BY Zenon
<1> USE ConstantsAssumption DEF TypeOK
<1>0. ASSUME UNCHANGED workers PROVE SliceOK'
  BY <1>0, Zenon DEF SliceOK
<1>1. ASSUME NEW c \in Client, GetWorker(c) PROVE TypeOK'
  BY <1>1, <1>0, FreshTicketType DEF GetWorker, Checkout, Poll, Available, ClientPC, alreadyDispatched
<1>2. ASSUME NEW c \in Client, Wakeup(c) PROVE TypeOK'
  BY <1>2, <1>0, FreshTicketType DEF Wakeup, Checkout, Poll, Available, ClientPC, alreadyDispatched, decBacklogCnt
<1>3. ASSUME NEW c \in Client, BacklogTimeout(c) PROVE TypeOK'
  BY <1>3, <1>0 DEF BacklogTimeout, ClientPC, decBacklogCnt
<1>4. ASSUME NEW c \in Client, Write(c) PROVE TypeOK'
  <2>1. status' \in [Worker -> Status]
    BY <1>4, "Busy" \in Status, ExceptType, Zenon DEF Write, Status
  <2>2. /\ pc' \in [Client -> ClientPC]
        /\ held' \in [Client -> Worker \cup {None}] /\ ticket' \in [Client -> Ticket \cup {None}]
    BY <1>4, ExceptType, Zenon DEF Write, LetGo, ClientPC
  <2>3. QED
    BY <1>4, <1>0, <2>1, <2>2, Zenon DEF Write
<1>5. ASSUME NEW c \in Client, Answer(c) PROVE TypeOK'
  <2>1. PICK free \in BOOLEAN : /\ status' = [status EXCEPT ![held[c]] = IF free THEN "Fnsh" ELSE "Wait"]
                               /\ pc' = [pc EXCEPT ![c] = IF free THEN "free" ELSE "session"]
    BY <1>5, Zenon DEF Answer
  <2>2. status' \in [Worker -> Status]
    <3>1. (IF free THEN "Fnsh" ELSE "Wait") \in Status
      BY Zenon DEF Status
    <3>2. QED
      BY <2>1, <3>1, ExceptType, Zenon
  <2>3. pc' \in [Client -> ClientPC]
    <3>1. (IF free THEN "free" ELSE "session") \in ClientPC
      BY Zenon DEF ClientPC
    <3>2. QED
      BY <2>1, <3>1, ExceptType, Zenon
  <2>4. QED
    BY <1>5, <1>0, <2>2, <2>3, Zenon DEF Answer
<1>6. ASSUME NEW c \in Client, EndSession(c) PROVE TypeOK'
  <2>1. held[c] \in Worker
    BY <1>6, Zenon DEF EndSession, Holds
  <2>2. QED
    BY <1>6, <1>0, <2>1 DEF EndSession, ReturnWorker, LetGo, Terminate, ClientPC, Status, Proc,
                            None, unregisterDispatchedWorker
<1>7. ASSUME NEW c \in Client, SignalReturn(c) PROVE TypeOK'
  BY <1>7, <1>0 DEF SignalReturn, Signal, ClientPC
<1>8. ASSUME NEW c \in Client, WorkerClosed(c) PROVE TypeOK'
  BY <1>8, <1>0, Zenon DEF WorkerClosed, LetGo, ClientPC
<1>9. ASSUME NEW c \in Client, Abandon(c) PROVE TypeOK'
  BY <1>9, <1>0 DEF Abandon, LetGo, Holds, ClientPC
<1>10. ASSUME NEW w \in Worker, StrayEOR(w) PROVE TypeOK'
  BY <1>10, <1>0, Zenon DEF StrayEOR, Status
<1>11. ASSUME NEW w \in Worker, RecoverFree(w) PROVE TypeOK'
  BY <1>11, <1>0 DEF RecoverFree, ReturnWorker, RightTicket, Terminate, Status, Proc, Rec,
               unregisterDispatchedWorker
<1>12. ASSUME NEW w \in Worker, SignalRecover(w) PROVE TypeOK'
  BY <1>12, <1>0 DEF SignalRecover, Signal, ClientPC, Rec
<1>13. ASSUME NEW w \in Worker, RecoverTimeout(w) PROVE TypeOK'
  BY <1>13, <1>0, Zenon DEF RecoverTimeout, Terminate, Proc, Rec
<1>14. ASSUME NEW w \in Worker, RecoverClosed(w) PROVE TypeOK'
  BY <1>14, <1>0, Zenon DEF RecoverClosed, Rec
<1>15. ASSUME NEW w \in Worker, RecoverEnd(w) PROVE TypeOK'
  BY <1>15, <1>0, Zenon DEF RecoverEnd, Rec, None
<1>16. ASSUME NEW w \in Worker, ControlMsg(w) PROVE TypeOK'
  BY <1>16, <1>0, Zenon DEF ControlMsg, Attach
<1>17. ASSUME NEW w \in Worker, WorkerReady(w) PROVE TypeOK'
  <2>1. SliceOK'
    <3>1. PICK n \in {InitSize} \cup Sizes : workers \in [0 .. n - 1 -> Worker \cup {None}]
      BY Zenon DEF SliceOK
    <3>2. workers' \in [0 .. n - 1 -> Worker \cup {None}]
      BY <1>17, <3>1, Zenon DEF WorkerReady
    <3>3. QED
      BY <3>2, Zenon DEF SliceOK
  <2>2. QED
    BY <1>17, <2>1, Zenon DEF WorkerReady, Attach, Status
<1>18. ASSUME NEW w \in Worker, SignalReady(w) PROVE TypeOK'
  BY <1>18, <1>0 DEF SignalReady, Signal, Attach, ClientPC
<1>19. ASSUME NEW w \in Worker, StartRead(w) PROVE TypeOK'
  BY <1>19, <1>0 DEF StartRead, Attach
<1>20. ASSUME NEW w \in Worker, ReadError(w) PROVE TypeOK'
  BY <1>20, <1>0 DEF ReadError, DecHealthyWorkers, Attach
<1>21. ASSUME NEW w \in Worker, ProcExit(w) PROVE TypeOK'
  BY <1>21, <1>0 DEF ProcExit, Proc
<1>22. ASSUME NEW w \in Worker, RestartWorker(w) PROVE TypeOK'
  <2>1. UNCHANGED workers /\ spawned' \in Nat /\ currentSize' \in Int /\ faults' \in 0 .. MaxFaults
    BY <1>22 DEF RestartWorker, StartWorkers
  <2>2. /\ checkoutTickets' \in [Worker -> Ticket \cup {None}]
        /\ dispatchedWorkers' \in [Worker -> Ticket \cup {None}]
        /\ activeQ' \subseteq Worker
    BY <1>22, Zenon DEF RestartWorker, Without, None, unregisterDispatchedWorker
  <2>3. /\ id' \in [Worker -> Int] /\ status' \in [Worker -> Status]
        /\ attach' \in [Worker -> Attach] /\ proc' \in [Worker -> Proc]
    <3>1. CASE UNCHANGED <<spawned, id, status, attach>>
      BY <1>22, <3>1, Zenon DEF RestartWorker, Proc
    <3>2. CASE StartWorkers(id[w], id[w]) /\ proc' = [proc EXCEPT ![w] = "gone", ![spawned + 1] = "running"]
      <4>1. proc' \in [Worker -> Proc]
        BY <3>2, Zenon DEF Proc
      <4>2. id \in [Worker -> Int] /\ id[w] \in Int /\ spawned \in Nat /\ MaxSpawns \in Nat
        BY Zenon
      <4>3. id' \in [Worker -> Int]
        <5>1. id' = [v \in Worker |-> IF v \in spawned + 1 .. spawned + (id[w] - id[w] + 1)
                                       THEN id[w] + (v - spawned - 1) ELSE id[v]]
          BY ONLY <3>2, Zenon DEF StartWorkers
        <5>2. \A v \in Worker : v \in Int
          BY ONLY <4>2 DEF Worker
        <5>3. QED
          BY ONLY <4>2, <5>1, <5>2
      <4>4. status' \in [Worker -> Status] /\ attach' \in [Worker -> Attach]
        BY <3>2, Zenon DEF StartWorkers, Attach, Status
      <4>5. QED
        BY <4>1, <4>3, <4>4, Zenon
    <3>3. \/ UNCHANGED <<spawned, id, status, attach>>
          \/ StartWorkers(id[w], id[w]) /\ proc' = [proc EXCEPT ![w] = "gone", ![spawned + 1] = "running"]
      BY <1>22, Zenon DEF RestartWorker
    <3>4. QED
      BY <3>1, <3>2, <3>3, Zenon
  <2>4. QED
    BY <1>22, <1>0, <2>1, <2>2, <2>3, Zenon DEF RestartWorker
<1>23. ASSUME NEW w \in Worker, TimePasses(w) PROVE TypeOK'
  BY <1>23, <1>0, Zenon DEF TimePasses
<1>24. ASSUME NEW n \in Sizes, Resize(n) PROVE TypeOK'
  <2>1. CASE Grow(n)
    <3>1. workers' \in [0 .. n - 1 -> Worker \cup {None}]
      <4>1. PICK k \in {InitSize} \cup Sizes : workers \in [0 .. k - 1 -> Worker \cup {None}]
        BY Zenon DEF SliceOK
      <4>2. QED
        BY <2>1, <4>1, Zenon DEF Grow, GrownSlice
    <3>2. SliceOK'
      BY <3>1, Zenon DEF SliceOK
    <3>3. PICK last \in currentSize - 1 .. n - 1 :
            /\ StartWorkers(currentSize, last)
            /\ proc' = [w \in Worker |-> IF w \in spawned + 1 .. spawned' THEN "running" ELSE proc[w]]
            /\ \/ last = n - 1 /\ currentSize' = n /\ UNCHANGED faults
               \/ last < n - 1 /\ faults < MaxFaults /\ faults' = faults + 1 /\ UNCHANGED currentSize
      BY <2>1, Zenon DEF Grow
    <3>4. /\ spawned' \in Nat /\ currentSize' \in Int /\ faults' \in 0 .. MaxFaults
          /\ proc' \in [Worker -> Proc]
      BY <3>3 DEF StartWorkers, Proc
    <3>5. /\ id' \in [Worker -> Int] /\ status' \in [Worker -> Status]
          /\ attach' \in [Worker -> Attach]
      BY <3>3 DEF StartWorkers, Worker, Attach, Status
    <3>6. QED
      BY <1>24, <2>1, <3>2, <3>4, <3>5 DEF Resize, Grow
  <2>2. CASE Shrink(n)
    BY <1>24, <1>0, <2>2 DEF Resize, Shrink, Terminate, Without, Proc
  <2>3. QED
    BY <1>24, <2>1, <2>2, Zenon DEF Resize
<1>25. CASE StartMonitor
  BY <1>25, <1>0, Zenon DEF StartMonitor
<1>26. CASE Reap
  BY <1>26, <1>0, Zenon DEF Reap, Proc
<1>27. CASE checkWorkerLifespan
  BY <1>27, <1>0 DEF checkWorkerLifespan, Terminate, Without, Proc
<1>28. CASE RacMaint
  BY <1>28, <1>0 DEF RacMaint
<1>30. ASSUME NEW r \in pendingRec, RecoverBegin(r) PROVE TypeOK'
  BY <1>30, <1>0 DEF RecoverBegin, Rec, Status
<1>31. CASE Crashed \/ UNCHANGED vars
  BY <1>31, <1>0, Zenon DEF Crashed, vars
<1>40. QED
  BY <1>1, <1>2, <1>3, <1>4, <1>5, <1>6, <1>7, <1>8, <1>9, <1>10, <1>11, <1>12, <1>13, <1>14,
     <1>15, <1>16, <1>17, <1>18, <1>19, <1>20, <1>21, <1>22, <1>23, <1>24, <1>25, <1>26, <1>27,
     <1>28, <1>30, <1>31, Zenon DEF Next, ClientStep, WorkerStep

-----------------------------------------------------------------------------
(* The loops over the workers slice                                        *)

\* Only Resize, RestartWorker and WorkerReady change the slice or the size.
LEMMA SizeFrame ==
  ASSUME Next, \A w \in Worker : ~WorkerReady(w) /\ ~RestartWorker(w), \A n \in Sizes : ~Resize(n)
  PROVE  UNCHANGED <<workers, currentSize>>
<1>1. ASSUME NEW c \in Client, ClientStep(c) PROVE UNCHANGED sizeVars
  BY <1>1, Zenon
  DEF ClientStep, GetWorker, Wakeup, BacklogTimeout, Write, Answer, EndSession, SignalReturn,
      WorkerClosed, Abandon
<1>2. ASSUME NEW w \in Worker, WorkerStep(w) PROVE UNCHANGED sizeVars
  BY <1>2, Zenon
  DEF WorkerStep, StrayEOR, RecoverFree, RecoverTimeout, RecoverClosed, SignalRecover, RecoverEnd,
      ControlMsg, SignalReady, StartRead, ReadError, ProcExit, TimePasses
<1>3. ASSUME NEW r \in pendingRec, RecoverBegin(r) PROVE UNCHANGED sizeVars
  BY <1>3, Zenon DEF RecoverBegin
<1>4. CASE StartMonitor \/ Reap \/ checkWorkerLifespan \/ RacMaint \/ Crashed
  BY <1>4, Zenon DEF StartMonitor, Reap, checkWorkerLifespan, RacMaint, Crashed, vars
<1>5. QED
  BY <1>1, <1>2, <1>3, <1>4, Zenon DEF Next

\* Every step keeps the size within the slice.
LEMMA NextLoops == TypeOK /\ LoopsInRange /\ [Next]_vars => LoopsInRange'
<1> SUFFICES ASSUME TypeOK, LoopsInRange, [Next]_vars PROVE LoopsInRange'
  BY Zenon
<1> USE DEF LoopsInRange
<1>1. currentSize \in Int
  BY Zenon DEF TypeOK
<1>2. CASE UNCHANGED <<workers, currentSize>>
  BY <1>2, Zenon
<1>3. ASSUME NEW w \in Worker, WorkerReady(w) PROVE LoopsInRange'
  BY <1>3, Zenon DEF WorkerReady
<1>4. ASSUME NEW w \in Worker, RestartWorker(w) PROVE LoopsInRange'
  <2>1. workers' = workers /\ (currentSize' = currentSize \/ currentSize' = currentSize - 1)
    BY <1>4, Zenon DEF RestartWorker
  <2>2. 0 .. currentSize' - 1 \subseteq 0 .. currentSize - 1
    BY <1>1, <2>1
  <2>3. QED
    BY <2>1, <2>2, Zenon
<1>5. ASSUME NEW n \in Sizes, Resize(n) PROVE LoopsInRange'
  <2>1. CASE Grow(n)
    <3>1. /\ n \in Int /\ n > currentSize /\ workers' = GrownSlice(n)
          /\ currentSize' = currentSize \/ currentSize' = n
      BY <2>1, ConstantsAssumption DEF Grow
    <3>2. 0 .. currentSize' - 1 \subseteq 0 .. n - 1
      BY <1>1, <3>1
    <3>3. DOMAIN workers' = 0 .. n - 1
      BY <3>1, Zenon DEF GrownSlice
    <3>4. QED
      BY <3>2, <3>3, Zenon
  <2>2. CASE Shrink(n)
    BY <2>2, Zenon DEF Shrink
  <2>3. QED
    BY <1>5, <2>1, <2>2, Zenon DEF Resize
<1>6. QED
  BY <1>2, <1>3, <1>4, <1>5, SizeFrame, Zenon DEF vars
==============================================================================
