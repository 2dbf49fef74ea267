----------------------------- MODULE WorkerPool -----------------------------
(***************************************************************************)
(* One pool of database workers of the multiplexer (lib/workerpool.go)     *)
(* with the goroutines that act on it:                                     *)
(*   - the coordinators (Client), which check a worker out, use it and     *)
(*     return or abandon it, or queue in the backlog;                      *)
(*   - one attach goroutine per worker (lib/workerclient.go), which waits  *)
(*     for the control message and then reads the worker's socket;         *)
(*   - one recovery goroutine per abandoned worker;                        *)
(*   - the monitor goroutine (lib/workerbroker.go), which reaps exited     *)
(*     processes and resizes the pool;                                     *)
(*   - the lifespan goroutine, and the RAC maintenance goroutine.          *)
(*                                                                         *)
(* Every section the code runs under poolCond.L is one step.  The order of *)
(* activeQ (LIFO or FIFO, module RingQueue) is left open: activeQ is the   *)
(* set of idle workers.  A worker is one *WorkerClient object, numbered in *)
(* the order of creation; a restarted worker is a new object.              *)
(***************************************************************************)
EXTENDS Integers, FiniteSets

CONSTANTS
  Client,      \* coordinators that ask for a worker
  InitSize,    \* size of the pool at startup
  Sizes,       \* sizes the configuration may ask for at run time
  MaxSpawns,   \* bound: worker objects ever created
  MaxTickets,  \* bound: tickets in use at the same time
  MaxOrphans,  \* bound: helper goroutines left waiting by a timed-out caller
  MaxRacMaint, \* bound: RAC maintenance requests
  MaxResizes,  \* bound: changes of the configured size
  MaxFaults,   \* bound: workers that exit by themselves, failed starts
  HasLifespan, \* max_lifespan_per_child is set
  EnableDanglingWorkerRecovery

ASSUME ConstantsAssumption ==
  /\ InitSize \in Nat /\ MaxSpawns \in Nat /\ InitSize <= MaxSpawns
  /\ Sizes \subseteq Nat /\ MaxTickets \in Nat /\ MaxOrphans \in Nat
  /\ MaxRacMaint \in Nat /\ MaxResizes \in Nat /\ MaxFaults \in Nat
  /\ HasLifespan \in BOOLEAN /\ EnableDanglingWorkerRecovery \in BOOLEAN
  /\ IsFiniteSet(Client)

Worker == 1 .. MaxSpawns
None == 0                       \* no worker, and the empty ticket
Ticket == 1 .. MaxTickets

Status == {"Unset", "Init", "Acpt", "Wait", "Busy", "Fnsh", "Quce"}

\* The operating system process of a worker: not started, running, told to
\* exit by Terminate, exited and not waited for, waited for by the monitor,
\* and handled by RestartWorker.
Proc == {"none", "running", "terminating", "exited", "defunct", "gone"}

\* Where the attach goroutine of a worker is: not started, waiting for the
\* control message, control message in the socket, worker in the pool, pool
\* signalled, reading the socket, finished (the out channel is closed).
Attach == {"none", "wait", "sent", "ready", "signalled", "reading", "done"}

\* Where a coordinator is: no worker, in the backlog, woken up in the
\* backlog, worker checked out, request sent, answered with EOR free,
\* answered with another EOR (the session goes on), worker returned and
\* poolCond.Signal still to be called.
ClientPC == {"idle", "wait", "woken", "got", "busy", "free", "session", "notify"}

\* Where the recovery goroutine of a worker is: none, waiting for an EOR,
\* worker returned and poolCond.Signal still to be called, returning.
Rec == {"none", "waiting", "notify", "exiting"}

VARIABLES
  activeQ, workers, currentSize, desiredSize,
  checkoutTickets,      \* WorkerPool.checkoutTickets
  dispatchedWorkers,    \* adaptiveQueueManager.dispatchedWorkers
  backlogCnt, numHealthyWorkers,
  spawned,              \* worker objects created so far
  id, status, exitTime, proc, attach,
  rec, recTicket,       \* the recovery goroutine of a worker (isUnderRecovery)
  pendingRec,           \* recoveries started with go and not yet begun
  pc, held, ticket,     \* a coordinator, its worker and its ticket
  orphans,              \* helpers in cond.Wait whose caller timed out
  racs,                 \* RAC maintenance requests so far
  resizes, faults,      \* changes of size and faults so far
  monitoring, sigchld,  \* signal.Notify done; a SIGCHLD in the channel
  panicked              \* the multiplexer died on a run-time error

sizeVars == <<workers, currentSize, desiredSize, spawned, id>>
ticketVars == <<checkoutTickets, dispatchedWorkers>>
recVars == <<rec, recTicket, pendingRec>>
clientVars == <<pc, held, ticket>>
waitVars == <<backlogCnt, orphans>>
monVars == <<monitoring, sigchld, resizes, faults>>
timeVars == <<exitTime, racs>>
vars == <<activeQ, sizeVars, ticketVars, backlogCnt, numHealthyWorkers,
          status, timeVars, proc, attach, recVars, clientVars, orphans,
          monVars, panicked>>

-----------------------------------------------------------------------------
(* Init: the state WorkerPool.Init leaves, all workers just forked.  The   *)
(* monitor goroutine has not called signal.Notify yet.                     *)

Init ==
  /\ activeQ = {}
  /\ workers = [i \in 0 .. InitSize - 1 |-> None]
  /\ currentSize = InitSize
  /\ desiredSize = InitSize
  /\ checkoutTickets = [w \in Worker |-> None]
  /\ dispatchedWorkers = [w \in Worker |-> None]
  /\ backlogCnt = 0
  /\ numHealthyWorkers = 0
  /\ spawned = InitSize
  /\ id = [w \in Worker |-> IF w <= InitSize THEN w - 1 ELSE 0]
  /\ status = [w \in Worker |-> IF w <= InitSize THEN "Init" ELSE "Unset"]
  /\ exitTime = [w \in Worker |-> IF HasLifespan THEN "later" ELSE "never"]
  /\ racs = 0
  /\ proc = [w \in Worker |-> IF w <= InitSize THEN "running" ELSE "none"]
  /\ attach = [w \in Worker |-> IF w <= InitSize THEN "wait" ELSE "none"]
  /\ rec = [w \in Worker |-> "none"]
  /\ recTicket = [w \in Worker |-> None]
  /\ pendingRec = {}
  /\ pc = [c \in Client |-> "idle"]
  /\ held = [c \in Client |-> None]
  /\ ticket = [c \in Client |-> None]
  /\ orphans = 0
  /\ monitoring = FALSE
  /\ sigchld = FALSE
  /\ resizes = 0
  /\ faults = 0
  /\ panicked = FALSE

-----------------------------------------------------------------------------
(* Operators shared by the steps                                           *)

\* activeQ.Remove, and ForEachRemove in Resize.
KeepQueued(W) == activeQ                                          \* mutant
Without(W) == activeQ \ W

\* Terminate: SIGTERM, then SIGKILL; nothing for a process that is gone.
NeverSent(W) == proc' = proc                                      \* mutant
Terminate(W) ==
  proc' = [w \in Worker |->
             IF w \in W /\ proc[w] = "running" THEN "terminating" ELSE proc[w]]

\* The worker objects StartWorker forks, one for each ID in first .. last,
\* and their attach goroutines.
StartWorkers(first, last) ==
  LET new == spawned + 1 .. spawned + (last - first + 1)
  IN  /\ spawned + (last - first + 1) <= MaxSpawns
      /\ spawned' = spawned + (last - first + 1)
      /\ id' = [w \in Worker |-> IF w \in new THEN first + (w - spawned - 1) ELSE id[w]]
      /\ status' = [w \in Worker |-> IF w \in new THEN "Init" ELSE status[w]]
      /\ attach' = [w \in Worker |-> IF w \in new THEN "wait" ELSE attach[w]]

\* getActiveWorker: an idle worker whose Status is past wsInit is polled.
Available == {w \in activeQ : status[w] \notin {"Unset", "Init"}}
PeekOnly(w) == activeQ                                            \* mutant
Poll(w) == activeQ \ {w}

LastNotCounted == IF backlogCnt > 1 THEN backlogCnt - 1 ELSE backlogCnt  \* mutant
decBacklogCnt == IF backlogCnt > 0 THEN backlogCnt - 1 ELSE 0

\* The end of GetWorker: draw a ticket and register the polled worker.  The
\* rand.Uint64 ticket is modelled as one that nobody holds any more.
TicketsInUse ==
  {checkoutTickets[w] : w \in Worker} \cup {dispatchedWorkers[w] : w \in Worker}
    \cup {recTicket[w] : w \in Worker} \cup {ticket[c] : c \in Client}
    \cup {r.t : r \in pendingRec}

EmptyTicket == None                                               \* mutant
FreshTicket == CHOOSE t \in Ticket : t \notin TicketsInUse

alreadyDispatched(w) == dispatchedWorkers[w] # None
StaysDispatched(w) == dispatchedWorkers                           \* mutant
unregisterDispatchedWorker(w) == [dispatchedWorkers EXCEPT ![w] = None]

Checkout(c, w) ==
  /\ activeQ' = Poll(w)
  /\ \/ /\ alreadyDispatched(w)          \* "double_dispatch"
        /\ pc' = [pc EXCEPT ![c] = "idle"]
        /\ UNCHANGED <<ticketVars, held, ticket>>
     \/ /\ ~alreadyDispatched(w)
        /\ Ticket \ TicketsInUse # {}
        /\ checkoutTickets' = [checkoutTickets EXCEPT ![w] = FreshTicket]
        /\ dispatchedWorkers' = [dispatchedWorkers EXCEPT ![w] = FreshTicket]
        /\ pc' = [pc EXCEPT ![c] = "got"]
        /\ held' = [held EXCEPT ![c] = w]
        /\ ticket' = [ticket EXCEPT ![c] = FreshTicket]

\* A worker is returned with the ticket it was checked out with.
AnyTicket(w, t) == TRUE                                           \* mutant
RightTicket(w, t) == t # None /\ checkoutTickets[w] = t

\* ReturnWorker, called for w with ticket t when the Status of w is st.
ReturnWorker(w, t, st) ==
  \/ /\ st = "Quce" \/ ~RightTicket(w, t)
     /\ status' = [status EXCEPT ![w] = st]
     /\ UNCHANGED <<activeQ, checkoutTickets, dispatchedWorkers, exitTime, proc>>
  \/ /\ st # "Quce" /\ RightTicket(w, t)
     /\ checkoutTickets' = [checkoutTickets EXCEPT ![w] = None]
     /\ dispatchedWorkers' = unregisterDispatchedWorker(w)
     /\ status' = [status EXCEPT ![w] = "Acpt"]
     /\ LET oversize == desiredSize < currentSize /\ id[w] >= desiredSize
            expired == exitTime[w] = "due"
        IN  \/ /\ oversize
               /\ Terminate({w})
               /\ UNCHANGED <<activeQ, exitTime>>
            \/ /\ ~oversize /\ expired
               /\ exitTime' = [exitTime EXCEPT ![w] = "never"]
               /\ Terminate({w})
               /\ UNCHANGED activeQ
            \/ /\ ~oversize /\ ~expired          \* reqCount >= maxReqCount
               /\ Terminate({w})
               /\ UNCHANGED <<activeQ, exitTime>>
            \/ /\ ~oversize /\ ~expired
               /\ activeQ' = activeQ \cup {w}
               /\ UNCHANGED <<exitTime, proc>>

-----------------------------------------------------------------------------
(* Coordinators: GetWorker and the backlog                                 *)

\* GetWorker up to its first return or to the select on the timer.  The
\* server accepts clients once the pools and the monitor are started.
GetWorker(c) ==
  /\ monitoring
  /\ pc[c] = "idle"
  /\ \/ \E w \in Available :
          Checkout(c, w) /\ UNCHANGED backlogCnt
     \/ /\ Available = {} /\ numHealthyWorkers # 0
        /\ backlogCnt' = backlogCnt + 1
        /\ pc' = [pc EXCEPT ![c] = "wait"]
        /\ UNCHANGED <<activeQ, ticketVars, held, ticket>>
     \/ /\ Available = {}      \* ErrRejectDbDown, no backlog, soft eviction
        /\ UNCHANGED <<activeQ, ticketVars, clientVars, backlogCnt>>
  /\ UNCHANGED <<sizeVars, numHealthyWorkers, status, timeVars, proc, attach,
                 recVars, orphans, monVars, panicked>>

\* poolCond.Signal, called after the lock is released by a goroutine that
\* leaves the coordinators at p: one of the helper goroutines in cond.Wait
\* wakes up, possibly one nobody listens to.
Signal(p) ==
  \/ /\ \E c \in Client : p[c] = "wait" /\ pc' = [p EXCEPT ![c] = "woken"]
     /\ UNCHANGED orphans
  \/ /\ orphans > 0
     /\ orphans' = orphans - 1
     /\ pc' = p
  \/ /\ orphans = 0 /\ \A c \in Client : p[c] # "wait"
     /\ pc' = p
     /\ UNCHANGED orphans

\* The wakeupchann branch: the caller retries, and without a worker goes
\* round the loop, back into the backlog or out with an error.
Wakeup(c) ==
  /\ pc[c] = "woken"
  /\ \/ /\ \E w \in Available : Checkout(c, w)
        /\ backlogCnt' = decBacklogCnt
     \/ /\ Available = {} /\ numHealthyWorkers # 0
        /\ backlogCnt' = decBacklogCnt + 1
        /\ pc' = [pc EXCEPT ![c] = "wait"]
        /\ UNCHANGED <<activeQ, ticketVars, held, ticket>>
     \/ /\ Available = {}
        /\ backlogCnt' = decBacklogCnt
        /\ pc' = [pc EXCEPT ![c] = "idle"]
        /\ UNCHANGED <<activeQ, ticketVars, held, ticket>>
  /\ UNCHANGED <<sizeVars, numHealthyWorkers, status, timeVars, proc, attach,
                 recVars, orphans, monVars, panicked>>

\* The time.After branch: the helper stays in cond.Wait, or has been woken
\* up in vain when both branches were ready.
BacklogTimeout(c) ==
  /\ pc[c] \in {"wait", "woken"}
  /\ pc[c] = "wait" => orphans < MaxOrphans
  /\ orphans' = IF pc[c] = "wait" THEN orphans + 1 ELSE orphans
  /\ backlogCnt' = decBacklogCnt
  /\ pc' = [pc EXCEPT ![c] = "idle"]
  /\ UNCHANGED <<activeQ, sizeVars, ticketVars, numHealthyWorkers, status, timeVars,
                 proc, attach, recVars, held, ticket, monVars, panicked>>

-----------------------------------------------------------------------------
(* Coordinators: a session with the worker checked out                     *)

LetGo(c, at) ==
  /\ pc' = [pc EXCEPT ![c] = at]
  /\ held' = [held EXCEPT ![c] = None]
  /\ ticket' = [ticket EXCEPT ![c] = None]

\* WorkerClient.Write, from doRequest: the Status is set first; writing to
\* a closed socket fails with ErrWorkerFail and the worker is let go.
Write(c) ==
  LET w == held[c]
  IN  /\ pc[c] \in {"got", "session"}
      /\ status' = [status EXCEPT ![w] = "Busy"]
      /\ \/ /\ proc[w] \in {"running", "terminating"}
            /\ pc' = [pc EXCEPT ![c] = "busy"]
            /\ UNCHANGED <<held, ticket>>
         \/ /\ proc[w] \notin {"running", "terminating"}
            /\ LetGo(c, "idle")
      /\ UNCHANGED <<activeQ, sizeVars, ticketVars, waitVars, numHealthyWorkers,
                     timeVars, proc, attach, recVars, monVars, panicked>>

\* doRead gets an EOR and passes it to doRequest.
Answer(c) ==
  /\ pc[c] = "busy"
  /\ attach[held[c]] = "reading"
  /\ \E free \in BOOLEAN :
       /\ status' = [status EXCEPT ![held[c]] = IF free THEN "Fnsh" ELSE "Wait"]
       /\ pc' = [pc EXCEPT ![c] = IF free THEN "free" ELSE "session"]
  /\ UNCHANGED <<activeQ, sizeVars, ticketVars, waitVars, numHealthyWorkers, timeVars,
                 proc, attach, recVars, held, ticket, monVars, panicked>>

\* EOR free ends the session: ReturnWorker and resetWorkerInfo.
EndSession(c) ==
  /\ pc[c] = "free"
  /\ ReturnWorker(held[c], ticket[c], status[held[c]])
  /\ LetGo(c, IF activeQ' = activeQ THEN "idle" ELSE "notify")
  /\ UNCHANGED <<sizeVars, racs, waitVars, numHealthyWorkers, attach, recVars, monVars,
                 panicked>>

SignalReturn(c) ==
  /\ pc[c] = "notify"
  /\ Signal([pc EXCEPT ![c] = "idle"])
  /\ UNCHANGED <<activeQ, sizeVars, ticketVars, backlogCnt, numHealthyWorkers, status,
                 timeVars, proc, attach, recVars, held, ticket, monVars, panicked>>

\* The worker's channel is closed: ErrWorkerFail, nothing is recovered.
WorkerClosed(c) ==
  /\ pc[c] \in {"busy", "session"}
  /\ attach[held[c]] = "done"
  /\ LetGo(c, "idle")
  /\ UNCHANGED <<activeQ, sizeVars, ticketVars, waitVars, numHealthyWorkers, status,
                 timeVars, proc, attach, recVars, monVars, panicked>>

\* Client gone, idle timeout, saturation kill or a switch of worker: the
\* coordinator starts go worker.Recover(pool, ticket) and forgets the worker.
Abandon(c) ==
  /\ pc[c] \in {"busy", "session"}
  /\ pendingRec' = pendingRec \cup {[w |-> held[c], t |-> ticket[c]]}
  /\ LetGo(c, "idle")
  /\ UNCHANGED <<activeQ, sizeVars, ticketVars, waitVars, numHealthyWorkers, status,
                 timeVars, proc, attach, rec, recTicket, monVars, panicked>>

-----------------------------------------------------------------------------
(* The recovery goroutine (WorkerClient.Recover)                           *)

\* Up to the signal to the worker: the compare-and-swap of isUnderRecovery,
\* the test of an idle worker, and the change to wsQuce.
RecoverBegin(r) ==
  /\ r \in pendingRec
  /\ pendingRec' = pendingRec \ {r}
  /\ \/ /\ rec[r.w] # "none" \/ status[r.w] = "Acpt"
        /\ UNCHANGED <<rec, recTicket, status>>
     \/ /\ rec[r.w] = "none" /\ status[r.w] # "Acpt"
        /\ rec' = [rec EXCEPT ![r.w] = "waiting"]
        /\ recTicket' = [recTicket EXCEPT ![r.w] = r.t]
        /\ status' = [status EXCEPT ![r.w] = "Quce"]
  /\ UNCHANGED <<activeQ, sizeVars, ticketVars, waitVars, numHealthyWorkers, timeVars,
                 proc, attach, clientVars, monVars, panicked>>

\* doRead gets an EOR that nobody acts on: Recover skips it (not free, or
\* another request's), or it is the second one an interrupted worker sends.
\* setState replaces wsQuce all the same.
StrayEOR(w) ==
  /\ rec[w] # "none" /\ attach[w] = "reading"
  /\ \E st \in {"Wait", "Fnsh"} : status' = [status EXCEPT ![w] = st]
  /\ UNCHANGED <<activeQ, sizeVars, ticketVars, waitVars, numHealthyWorkers, timeVars,
                 proc, attach, recVars, clientVars, monVars, panicked>>

\* The EOR free of the interrupted request: wsFnsh, then ReturnWorker.
RecoverFree(w) ==
  /\ rec[w] = "waiting" /\ attach[w] = "reading"
  /\ ReturnWorker(w, recTicket[w], "Fnsh")
  /\ rec' = [rec EXCEPT ![w] = IF activeQ' = activeQ THEN "exiting" ELSE "notify"]
  /\ UNCHANGED <<sizeVars, racs, waitVars, numHealthyWorkers, attach, recTicket, pendingRec,
                 clientVars, monVars, panicked>>

SignalRecover(w) ==
  /\ rec[w] = "notify"
  /\ rec' = [rec EXCEPT ![w] = "exiting"]
  /\ Signal(pc)
  /\ UNCHANGED <<activeQ, sizeVars, ticketVars, backlogCnt, numHealthyWorkers, status,
                 timeVars, proc, attach, recTicket, pendingRec, held, ticket, monVars, panicked>>

\* StrandedWorkerTimeoutMs passed: Terminate.
RecoverTimeout(w) ==
  /\ rec[w] = "waiting"
  /\ Terminate({w})
  /\ rec' = [rec EXCEPT ![w] = "exiting"]
  /\ UNCHANGED <<activeQ, sizeVars, ticketVars, waitVars, numHealthyWorkers, status,
                 timeVars, attach, recTicket, pendingRec, clientVars, monVars, panicked>>

\* The worker's channel is closed: RestartWorker does the rest.
RecoverClosed(w) ==
  /\ rec[w] = "waiting" /\ attach[w] = "done"
  /\ rec' = [rec EXCEPT ![w] = "exiting"]
  /\ UNCHANGED <<activeQ, sizeVars, ticketVars, waitVars, numHealthyWorkers, status, timeVars,
                 proc, attach, recTicket, pendingRec, clientVars, monVars, panicked>>

\* The deferred reset of isUnderRecovery.
RecoverEnd(w) ==
  /\ rec[w] = "exiting"
  /\ rec' = [rec EXCEPT ![w] = "none"]
  /\ recTicket' = [recTicket EXCEPT ![w] = None]
  /\ UNCHANGED <<activeQ, sizeVars, ticketVars, waitVars, numHealthyWorkers, status, timeVars,
                 proc, attach, pendingRec, clientVars, monVars, panicked>>

-----------------------------------------------------------------------------
(* The worker process and its attach goroutine                             *)

\* The worker has connected to the database and sends the control message.
ControlMsg(w) ==
  /\ attach[w] = "wait" /\ proc[w] \in {"running", "terminating"}
  /\ attach' = [attach EXCEPT ![w] = "sent"]
  /\ UNCHANGED <<activeQ, sizeVars, ticketVars, waitVars, numHealthyWorkers, status, timeVars,
                 proc, recVars, clientVars, monVars, panicked>>

\* attachToWorker reads it: wsAcpt and WorkerReady.  pool.workers[ID] is a
\* slice access: out of range it is a run-time panic.
WorkerReady(w) ==
  /\ attach[w] = "sent"
  /\ attach' = [attach EXCEPT ![w] = "ready"]
  /\ status' = [status EXCEPT ![w] = "Acpt"]
  /\ activeQ' = activeQ \cup {w}
  /\ \/ /\ id[w] \in DOMAIN workers
        /\ workers' = [workers EXCEPT ![id[w]] = w]
        /\ UNCHANGED panicked
     \/ /\ id[w] \notin DOMAIN workers
        /\ panicked' = TRUE
        /\ UNCHANGED workers
  /\ UNCHANGED <<currentSize, desiredSize, spawned, id, ticketVars, waitVars, numHealthyWorkers,
                 timeVars, proc, recVars, clientVars, monVars>>

SignalReady(w) ==
  /\ attach[w] = "ready"
  /\ attach' = [attach EXCEPT ![w] = "signalled"]
  /\ Signal(pc)
  /\ UNCHANGED <<activeQ, sizeVars, ticketVars, backlogCnt, numHealthyWorkers, status,
                 timeVars, proc, recVars, held, ticket, monVars, panicked>>

\* IncHealthyWorkers, and doRead makes the out channel.
StartRead(w) ==
  /\ attach[w] = "signalled"
  /\ attach' = [attach EXCEPT ![w] = "reading"]
  /\ numHealthyWorkers' = numHealthyWorkers + 1
  /\ UNCHANGED <<activeQ, sizeVars, ticketVars, waitVars, status, timeVars, proc, recVars,
                 clientVars, monVars, panicked>>

\* DecHealthyWorkers, called only after doRead.
DecOnAnyFailure(w) == numHealthyWorkers - 1                       \* mutant
DecHealthyWorkers(w) ==
  IF attach[w] = "reading" THEN numHealthyWorkers - 1 ELSE numHealthyWorkers

\* The socket is closed: doRead returns and closes the out channel, or
\* attachToWorker fails before the control message.
ReadError(w) ==
  /\ attach[w] \in {"wait", "reading"}
  /\ proc[w] \notin {"running", "terminating"}
  /\ attach' = [attach EXCEPT ![w] = "done"]
  /\ numHealthyWorkers' = DecHealthyWorkers(w)
  /\ UNCHANGED <<activeQ, sizeVars, ticketVars, waitVars, status, timeVars, proc, recVars,
                 clientVars, monVars, panicked>>

\* The process ends: told to, or by its own decision.
ProcExit(w) ==
  /\ \/ proc[w] = "terminating" /\ UNCHANGED faults
     \/ proc[w] = "running" /\ faults < MaxFaults /\ faults' = faults + 1
  /\ proc' = [proc EXCEPT ![w] = "exited"]
  /\ sigchld' = (sigchld \/ monitoring)
  /\ UNCHANGED <<activeQ, sizeVars, ticketVars, waitVars, numHealthyWorkers, status, timeVars,
                 attach, recVars, clientVars, monitoring, resizes, panicked>>

-----------------------------------------------------------------------------
(* The monitor goroutine (startWorkerMonitor): one thread for the signals  *)
(* and for the configuration, so Resize and RestartWorker never overlap    *)

Defunct == {w \in Worker : proc[w] = "defunct"}

StartMonitor ==
  /\ ~monitoring
  /\ monitoring' = TRUE
  /\ UNCHANGED <<activeQ, sizeVars, ticketVars, waitVars, numHealthyWorkers, status, timeVars,
                 proc, attach, recVars, clientVars, sigchld, resizes, faults, panicked>>

\* SIGCHLD: ReapDefunctPids waits for every exited process.
Reap ==
  /\ monitoring /\ sigchld /\ Defunct = {}
  /\ sigchld' = FALSE
  /\ proc' = [w \in Worker |-> IF proc[w] = "exited" THEN "defunct" ELSE proc[w]]
  /\ UNCHANGED <<activeQ, sizeVars, ticketVars, waitVars, numHealthyWorkers, status, timeVars,
                 attach, recVars, clientVars, monitoring, resizes, faults, panicked>>

\* RestartWorker: forget the worker, then count it out of a pool that
\* shrinks, or start another one with its ID; a failed start counts it out.
RestartWorker(w) ==
  /\ proc[w] = "defunct"
  /\ checkoutTickets' = [checkoutTickets EXCEPT ![w] = None]
  /\ dispatchedWorkers' = unregisterDispatchedWorker(w)
  /\ activeQ' = Without({w})
  /\ \/ /\ \/ id[w] >= desiredSize /\ UNCHANGED faults
           \/ id[w] < desiredSize /\ faults < MaxFaults /\ faults' = faults + 1
           \/ id[w] < desiredSize /\ spawned = MaxSpawns /\ UNCHANGED faults
        /\ currentSize' = currentSize - 1
        /\ proc' = [proc EXCEPT ![w] = "gone"]
        /\ UNCHANGED <<spawned, id, status, attach>>
     \/ /\ id[w] < desiredSize
        /\ StartWorkers(id[w], id[w])
        /\ proc' = [proc EXCEPT ![w] = "gone", ![spawned + 1] = "running"]
        /\ UNCHANGED <<currentSize, faults>>
  /\ UNCHANGED <<workers, desiredSize, waitVars, numHealthyWorkers, timeVars, recVars,
                 clientVars, monitoring, sigchld, resizes, panicked>>

ShortSlice(n) ==                                                  \* mutant
  [i \in 0 .. n - 2 |-> IF i \in DOMAIN workers THEN workers[i] ELSE None]
GrownSlice(n) == [i \in 0 .. n - 1 |-> IF i \in DOMAIN workers THEN workers[i] ELSE None]

\* Resize: grow by starting the IDs from currentSize up (a failed start
\* returns at once), or shrink by terminating the idle workers beyond the size.
Grow(n) ==
  /\ n > currentSize
  /\ workers' = GrownSlice(n)
  /\ \E last \in currentSize - 1 .. n - 1 :
       /\ StartWorkers(currentSize, last)
       /\ proc' = [w \in Worker |-> IF w \in spawned + 1 .. spawned' THEN "running" ELSE proc[w]]
       /\ \/ last = n - 1 /\ currentSize' = n /\ UNCHANGED faults
          \/ last < n - 1 /\ faults < MaxFaults /\ faults' = faults + 1 /\ UNCHANGED currentSize
  /\ UNCHANGED activeQ

Shrink(n) ==
  /\ n <= currentSize
  /\ LET surplus == {w \in activeQ : id[w] >= n}
     IN  activeQ' = Without(surplus) /\ Terminate(surplus)
  /\ UNCHANGED <<workers, currentSize, spawned, id, status, attach, faults>>

Resize(n) ==
  /\ monitoring /\ Defunct = {}
  /\ n # desiredSize
  /\ resizes < MaxResizes /\ resizes' = resizes + 1
  /\ desiredSize' = n
  /\ Grow(n) \/ Shrink(n)
  /\ UNCHANGED <<ticketVars, waitVars, numHealthyWorkers, timeVars, recVars, clientVars,
                 monitoring, sigchld, panicked>>

-----------------------------------------------------------------------------
(* Lifespan and RAC maintenance                                            *)

\* The workers a loop over i < currentSize visits.
Listed == {workers[i] : i \in {j \in DOMAIN workers : j < currentSize}} \ {None}

\* exitTime comes.
TimePasses(w) ==
  /\ exitTime[w] = "later" /\ proc[w] \in {"running", "terminating"}
  /\ exitTime' = [exitTime EXCEPT ![w] = "due"]
  /\ UNCHANGED <<racs, activeQ, sizeVars, ticketVars, waitVars, numHealthyWorkers, status, proc,
                 attach, recVars, clientVars, monVars, panicked>>

\* One round of checkWorkerLifespan: idle workers whose time has come leave
\* the queue and are terminated; workers that run one SQL for too long are
\* terminated when dangling worker recovery is on.
checkWorkerLifespan ==
  LET due == {w \in Listed : exitTime[w] = "due"}
  IN  \E dangling \in SUBSET (IF EnableDanglingWorkerRecovery THEN due \ activeQ ELSE {}) :
        LET W == (due \cap activeQ) \cup dangling
        IN  /\ activeQ' = Without(W)
            /\ exitTime' = [w \in Worker |-> IF w \in W THEN "never" ELSE exitTime[w]]
            /\ Terminate(W)
            /\ UNCHANGED <<sizeVars, ticketVars, waitVars, numHealthyWorkers, status, attach,
                           racs, recVars, clientVars, monVars, panicked>>

\* RacMaint: the listed workers connected to the instance, started before
\* the request, get an exit time, now or later.
RacMaint ==
  /\ racs < MaxRacMaint
  /\ racs' = racs + 1
  /\ \E W \in SUBSET Listed : \E when \in {"later", "due"} :
       /\ W # {}
       /\ exitTime' = [w \in Worker |-> IF w \in W THEN when ELSE exitTime[w]]
  /\ UNCHANGED <<activeQ, sizeVars, ticketVars, waitVars, numHealthyWorkers, status, proc,
                 attach, recVars, clientVars, monVars, panicked>>

-----------------------------------------------------------------------------
(* Specification                                                           *)

\* A run-time panic ends the process.
Crashed == panicked /\ UNCHANGED vars

ClientStep(c) ==
  \/ GetWorker(c) \/ Wakeup(c) \/ BacklogTimeout(c) \/ Write(c) \/ Answer(c)
  \/ EndSession(c) \/ SignalReturn(c) \/ WorkerClosed(c) \/ Abandon(c)

WorkerStep(w) ==
  \/ StrayEOR(w) \/ RecoverFree(w) \/ RecoverTimeout(w) \/ RecoverClosed(w)
  \/ SignalRecover(w) \/ RecoverEnd(w) \/ ControlMsg(w) \/ WorkerReady(w)
  \/ SignalReady(w) \/ StartRead(w)
  \/ ReadError(w) \/ ProcExit(w) \/ RestartWorker(w) \/ TimePasses(w)

Next ==
  \/ /\ ~panicked
     /\ \/ \E c \in Client : ClientStep(c)
        \/ \E w \in Worker : WorkerStep(w)
        \/ \E r \in pendingRec : RecoverBegin(r)
        \/ \E n \in Sizes : Resize(n)
        \/ StartMonitor \/ Reap \/ checkWorkerLifespan \/ RacMaint
  \/ Crashed

Spec == Init /\ [][Next]_vars

\* What the Go scheduler, the timers and the operating system see to: every
\* goroutine that can go on does, a process told to exit does (SIGKILL follows
\* SIGTERM), and a timer fires.  Nothing is assumed of the clients, of the
\* time a worker takes to connect or to answer, and of faults.
Fairness ==
  /\ \A c \in Client :
       /\ WF_vars(~panicked /\ (Wakeup(c) \/ EndSession(c) \/ SignalReturn(c)))
       /\ WF_vars(~panicked /\ pc[c] = "wait" /\ BacklogTimeout(c))
       /\ WF_vars(~panicked /\ (Write(c) \/ WorkerClosed(c)))
  /\ \A w \in Worker :
       /\ WF_vars(~panicked /\ (RecoverTimeout(w) \/ RecoverClosed(w)))
       /\ WF_vars(~panicked /\ (SignalRecover(w) \/ RecoverEnd(w)))
       /\ WF_vars(~panicked /\ (WorkerReady(w) \/ SignalReady(w) \/ StartRead(w) \/ ReadError(w)))
       /\ WF_vars(~panicked /\ proc[w] = "terminating" /\ ProcExit(w))
       /\ WF_vars(~panicked /\ RestartWorker(w))
       /\ WF_vars(~panicked /\ \E r \in pendingRec : r.w = w /\ RecoverBegin(r))
  /\ WF_vars(~panicked /\ StartMonitor)
  /\ WF_vars(~panicked /\ Reap)

FairSpec == Spec /\ Fairness

-----------------------------------------------------------------------------
(* Properties                                                              *)

\* The workers slice has as many slots as one of the sizes asked for.
SliceOK ==
  \E n \in {InitSize} \cup Sizes : workers \in [0 .. n - 1 -> Worker \cup {None}]

\* Every variable of the pool has its type: queue, tickets, counters and the
\* states of the goroutines that act on it.
TypeOK ==
  /\ activeQ \subseteq Worker
  /\ SliceOK
  /\ currentSize \in Int /\ desiredSize \in {InitSize} \cup Sizes
  /\ checkoutTickets \in [Worker -> Ticket \cup {None}]
  /\ dispatchedWorkers \in [Worker -> Ticket \cup {None}]
  /\ backlogCnt \in Nat /\ numHealthyWorkers \in Int
  /\ spawned \in Nat
  /\ id \in [Worker -> Int] /\ status \in [Worker -> Status]
  /\ exitTime \in [Worker -> {"never", "later", "due"}] /\ racs \in 0 .. MaxRacMaint
  /\ resizes \in 0 .. MaxResizes /\ faults \in 0 .. MaxFaults
  /\ proc \in [Worker -> Proc] /\ attach \in [Worker -> Attach]
  /\ rec \in [Worker -> Rec]
  /\ recTicket \in [Worker -> Ticket \cup {None}]
  /\ pendingRec \subseteq [w : Worker, t : Ticket]
  /\ pc \in [Client -> ClientPC]
  /\ held \in [Client -> Worker \cup {None}]
  /\ ticket \in [Client -> Ticket \cup {None}]
  /\ orphans \in Nat
  /\ monitoring \in BOOLEAN /\ sigchld \in BOOLEAN /\ panicked \in BOOLEAN

\* Who may write to a worker or return it: the coordinators that hold it,
\* the recoveries about to begin and the recovery that waits for its EOR.
Users(w) ==
  {<<"client", c>> : c \in {d \in Client : held[d] = w}}
    \cup {<<"pending", r.t>> : r \in {q \in pendingRec : q.w = w}}
    \cup (IF rec[w] = "waiting" THEN {<<"recovery", recTicket[w]>>} ELSE {})

\* A worker is used by at most one coordinator or recovery at a time, and by
\* none while it is idle in activeQ: GetWorker, ReturnWorker, Recover,
\* WorkerReady and RestartWorker together never hand one worker to two
\* sessions, however they interleave.
NoSharedWorker ==
  \A w \in Worker :
    /\ \A u, v \in Users(w) : u = v
    /\ w \in activeQ => Users(w) = {}

\* The "double_dispatch" exit of GetWorker is never taken, so no worker is
\* polled from activeQ and dropped: an idle worker has no ticket in either map.
NoDoubleDispatch == \A w \in activeQ : ~alreadyDispatched(w) /\ checkoutTickets[w] = None

\* backlogCnt, read without the lock by the bouncer, the state log and
\* shouldRecover, is the number of callers in the backlog: the decrement of
\* a wake-up that lost the race is always paid back, and decBacklogCnt never
\* meets a zero ("negative bcklgCnt").
BacklogExact ==
  backlogCnt = Cardinality({c \in Client : pc[c] \in {"wait", "woken"}})

\* numHealthyWorkers counts the attach goroutines inside doRead: no worker
\* exit, restart or failed attach counts twice or is forgotten.
HealthyExact ==
  numHealthyWorkers = Cardinality({w \in Worker : attach[w] = "reading"})

\* The loops of RacMaint and checkWorkerLifespan over i < currentSize stay
\* inside the workers slice, whatever Resize, RestartWorker and failed
\* starts did to the size.
LoopsInRange == \A i \in 0 .. currentSize - 1 : i \in DOMAIN workers

\* A checked-out worker goes back to the queue only from the session that
\* holds its ticket: a worker that enters activeQ was just made ready, or its
\* ticket was given up in that step (ReturnWorker's ticket test).
EntersQueueOnce ==
  [][\A w \in activeQ' \ activeQ :
       attach[w] = "sent" \/ (checkoutTickets[w] # None /\ checkoutTickets'[w] = None)]_vars

\* Without dangling worker recovery, a worker that was told to exit is not
\* handed out any more: every Terminate of Resize, ReturnWorker and
\* checkWorkerLifespan is paired with a worker that is out of activeQ, and
\* nothing puts it back.
NeverIdleWhenTerminated ==
  EnableDanglingWorkerRecovery \/ \A w \in activeQ : proc[w] # "terminating"

\* A recovery that waits for its worker ends with the ticket given up: the
\* worker returns to the pool, or it is terminated and the monitor's
\* RestartWorker forgets it (Recover, Terminate, SIGCHLD, RestartWorker).
RecoveryReleases ==
  \A w \in Worker : rec[w] = "waiting" ~> checkoutTickets[w] = None
=============================================================================
