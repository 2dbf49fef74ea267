------------------------------- MODULE Server -------------------------------
(***************************************************************************)
(* The life of a client connection: the accept loop and its bouncer         *)
(* (lib/server.go), the connection handler (lib/connectionhandler.go), the   *)
(* coordinator (lib/coordinator.go) with the steps of the pool that report   *)
(* to the state log (lib/workerpool.go, lib/workerclient.go), and the log.   *)
(*                                                                          *)
(* One shard, no TAF, MySQL clients: what the configuration code allows.     *)
(* Queue order, tickets, sizes and timings of a pool are WorkerPool's; here  *)
(* a pool is its idle workers, the lock that is held while some events are   *)
(* sent, and the connections in its backlog.                                 *)
(***************************************************************************)
EXTENDS StateLog

CONSTANTS Conn,         \* client connections
          None,         \* nil
          PoolOf,       \* the pool of each worker
          ChanCap,      \* capacity of clientchannel (1)
          Redial,       \* bound: the connections whose place is used again
          MaxFds,       \* connections above which Accept is put off (65536)
          ConnAllowed,  \* connection limit of maxConnReached (1500 per worker)
          BacklogLimit, \* GetBacklogLimit
          Configs       \* the settings to begin with, records of
                        \*   bouncer    BouncerEnabled
                        \*   requests   bound: requests of a client on one connection
                        \*   faults     bound: idle timeouts, aborts and worker exits
                        \*   unguarded  TRUE: statements that dereference the nil of a
                        \*              closed channel or connection panic, as they do
                        \*              in the code; FALSE: they are guarded, for what
                        \*              lies behind them

ASSUME ServerAssumption ==
    /\ None \notin Worker /\ MainPool \in Pool /\ PoolOf \in [Worker -> Pool]
    /\ IsFiniteSet(Conn)

VARIABLES
    client, sent, sock, conn,                  \* a client, its socket, conn open here
    handler, ch, chClosed, canceled, done,     \* its handler and the channels
    crd, worker, gone, target, timer,          \* its coordinator and its worker
    lock, activeQ, wk, todo, faults,           \* pools, workers and their goroutines
    isUnderRecovery,                           \* the workers with this flag set
    up, activated, checkCnt, checked,          \* the bouncer
    refused,                                   \* for a property: checks without capacity, up
                                               \* to 3, since the last one that found some
    config, panicked                           \* who panicked: no process any more

clientvars == <<client, sent, sock>>
chanvars == <<ch, chClosed, canceled, done>>
crdvars == <<crd, worker, gone, target, timer>>
poolvars == <<lock, activeQ, wk, todo, faults, isUnderRecovery>>
bouncervars == <<up, activated, checkCnt, checked, refused>>
vars == <<logvars, clientvars, conn, handler, chanvars, crdvars, poolvars, bouncervars, config, panicked>>

Init ==
    /\ StateLogInit
    /\ client = [c \in Conn |-> "off"]
    /\ sent = [c \in Conn |-> 0] /\ sock = [c \in Conn |-> 0]
    /\ conn = [c \in Conn |-> FALSE]
    /\ handler = [c \in Conn |-> "off"]
    /\ ch = [c \in Conn |-> 0] /\ chClosed = [c \in Conn |-> FALSE]
    /\ canceled = [c \in Conn |-> FALSE] /\ done = [c \in Conn |-> 0]
    /\ crd = [c \in Conn |-> "off"]
    /\ worker = [c \in Conn |-> None] /\ gone = [c \in Conn |-> FALSE]
    /\ target = [c \in Conn |-> MainPool]
    /\ timer = [c \in Conn |-> TRUE]
    /\ lock = [p \in Pool |-> None]
    /\ activeQ = {}
    /\ wk = [w \in Worker |-> "start"] /\ todo = [w \in Worker |-> 0] /\ faults = 0
    /\ isUnderRecovery = {}
    /\ up = FALSE /\ activated = FALSE /\ checkCnt = 0 /\ checked = "never" /\ refused = 0
    /\ config \in Configs /\ panicked = "nobody"

Set(f, x, v) == f' = [f EXCEPT ![x] = v]

-----------------------------------------------------------------------------
(* The client *)

\* A connection that is over leaves its place to the next one.
Dial(c) ==
    /\ client[c] = "off" \/ (c \in Redial /\ client[c] \in {"quit", "closed"})
    /\ handler[c] \in {"off", "over"} /\ crd[c] \in {"off", "exit"}
    /\ Set(client, c, "dial") /\ Set(sent, c, 0) /\ Set(sock, c, 0)
    /\ UNCHANGED <<logvars, conn, handler, chanvars, crdvars, poolvars, bouncervars, panicked>>

Send(c) ==
    /\ client[c] = "open" /\ sent[c] < config.requests
    /\ Set(sent, c, sent[c] + 1) /\ Set(sock, c, sock[c] + 1)
    /\ UNCHANGED <<logvars, client, conn, handler, chanvars, crdvars, poolvars, bouncervars, panicked>>

\* COM_QUIT after the requests sent, or an abrupt close.
Leave(c) ==
    /\ \/ client[c] = "open" /\ Set(client, c, "quit")
       \/ client[c] = "open" /\ Set(client, c, "closed")
    /\ UNCHANGED <<logvars, sent, sock, conn, handler, chanvars, crdvars, poolvars, bouncervars,
                   panicked>>

-----------------------------------------------------------------------------
(* The accept loop *)

\* numHealthyWorkers of a pool: attached and read by doRead.
Healthy(p) == {w \in Worker : PoolOf[w] = p /\ wk[w] \notin {"exited", "start", "attach", "ready"}}
HasActiveWorker == \E p \in Pool : Healthy(p) # {}

maxConnReached == GetTotalConnections >= ConnAllowed

canAccept == HasActiveWorker /\ ~maxConnReached /\ ProxyHasCapacity(BacklogLimit)

\* The onset of a wave, a confirmation, and the one that activates the bouncer.
Onset == checkCnt' = 1 /\ checked' = "recent" /\ UNCHANGED activated
Confirm == checkCnt' = checkCnt + 1 /\ checked' = "recent" /\ UNCHANGED activated
Activate == activated' = TRUE /\ checkCnt' = 0 /\ checked' = "never"

\* bounceRequired returns answer.  A check that finds capacity leaves the count
\* and the time of the last refusal as they are.
bounceRequired(answer) ==
    /\ UNCHANGED up
    /\ \/ /\ ~up \/ checked = "recent"
          /\ ~answer /\ UNCHANGED bouncervars
       \/ /\ up /\ checked # "recent" /\ ~canAccept /\ ~activated
          /\ \/ checked = "never" /\ ~answer /\ Onset
             \/ checked = "old" /\ checkCnt < 3 /\ ~answer /\ Confirm
             \/ checked = "old" /\ checkCnt = 3 /\ answer /\ Activate
          /\ refused' = IF refused < 3 THEN refused + 1 ELSE 3
       \/ /\ up /\ checked # "recent" /\ (canAccept \/ activated)
          /\ activated' = ~canAccept /\ answer = ~canAccept
          /\ refused' = IF canAccept THEN 0 ELSE refused
          /\ UNCHANGED <<checkCnt, checked>>

bounce(c) == Set(client, c, "off") /\ UNCHANGED <<conn, handler, crd, chanvars>>
authAndHandle(c) ==
    /\ Set(client, c, "open") /\ Set(conn, c, TRUE) /\ Set(handler, c, "init") /\ Set(crd, c, "off")
    /\ Set(ch, c, 0) /\ Set(chClosed, c, FALSE) /\ Set(canceled, c, FALSE) /\ Set(done, c, 0)

Accept(c) ==
    /\ client[c] = "dial"
    /\ GetTotalConnections <= MaxFds
    /\ \/ bounceRequired(FALSE) /\ authAndHandle(c)
       \/ bounceRequired(TRUE) /\ bounce(c)
    /\ UNCHANGED <<logvars, sent, sock, worker, gone, target, timer, poolvars, panicked>>

\* Time: the startup delay of the bouncer is over, or a poll interval.
BouncerTime ==
    /\ config.bouncer
    /\ \/ ~up /\ up' = TRUE /\ UNCHANGED checked
       \/ checked = "recent" /\ checked' = "old" /\ UNCHANGED up
    /\ UNCHANGED <<logvars, clientvars, conn, handler, chanvars, crdvars, poolvars,
                   activated, checkCnt, refused, panicked>>

-----------------------------------------------------------------------------
(* The connection handler *)

HandlerUnchanged == UNCHANGED <<worker, gone, target, poolvars, bouncervars>>
Panic(who) == config.unguarded /\ panicked' = who /\ UNCHANGED <<conn, handler, chanvars, crd>>
Guarded == UNCHANGED panicked

\* The proxy just took a new connection.
HandlerEnter(c) ==
    /\ handler[c] = "init" /\ Set(handler, c, "hands")
    /\ PublishStateEvent(ConnEvt(MainPool, "Close", "Idle"))
    /\ UNCHANGED <<clientvars, conn, chanvars, crd, timer>> /\ Guarded

\* sendHandshake, readHandshakeResponse, go crd.Run().  A client that leaves
\* instead of answering leaves an empty packet to take apart.
HandlerHandshake(c) ==
    /\ handler[c] = "hands"
    /\ \/ /\ client[c] # "closed" \/ ~config.unguarded
          /\ Set(handler, c, "read") /\ Set(crd, c, "run") /\ Set(timer, c, TRUE)
          /\ UNCHANGED <<conn, chanvars>> /\ Guarded
       \/ client[c] = "closed" /\ Panic("handler") /\ UNCHANGED timer
    /\ UNCHANGED <<logvars, clientvars>>

\* Nothing more can be read: the client has gone, or conn was closed here.
ReadFails(c) == client[c] = "closed" \/ ~conn[c]

\* The select of the loop: a packet, COM_QUIT, a read error, crd.Done().
HandlerRead(c) ==
    /\ handler[c] = "read"
    /\ \/ /\ sock[c] > 0 /\ conn[c]
          /\ Set(sock, c, sock[c] - 1) /\ Set(handler, c, "put")
          /\ UNCHANGED <<conn, chanvars, crd>> /\ Guarded
       \/ /\ client[c] = "quit" /\ sock[c] = 0 /\ conn[c]
          /\ Set(handler, c, "exit") /\ UNCHANGED <<sock, conn, chanvars, crd>> /\ Guarded
       \/ /\ ReadFails(c) /\ ~config.unguarded
          /\ Set(handler, c, "exit") /\ UNCHANGED <<sock, conn, chanvars, crd>> /\ Guarded
       \/ ReadFails(c) /\ Panic("handler") /\ UNCHANGED sock
       \/ /\ done[c] > 0
          /\ Set(done, c, done[c] - 1) /\ Set(conn, c, FALSE) /\ Set(handler, c, "exit")
          /\ UNCHANGED <<sock, ch, chClosed, canceled, crd>> /\ Guarded
    /\ UNCHANGED <<logvars, client, sent, timer>>

\* The send on clientchannel blocks while its buffer is full.
HandlerPut(c) ==
    /\ handler[c] = "put" /\ ch[c] < ChanCap
    /\ Set(ch, c, ch[c] + 1) /\ Set(handler, c, "read")
    /\ UNCHANGED <<logvars, clientvars, conn, chClosed, canceled, done, crd, timer>> /\ Guarded

\* conn.Close(), cancel(), and the deferred close(clientchannel).
HandlerExit(c) ==
    /\ handler[c] = "exit"
    /\ Set(handler, c, "bye") /\ Set(sock, c, 0) /\ Set(conn, c, FALSE) /\ Set(canceled, c, TRUE) /\ Set(chClosed, c, TRUE)
    /\ UNCHANGED <<logvars, client, sent, ch, done, crd, timer>> /\ Guarded

HandlerBye(c) ==
    /\ handler[c] = "bye" /\ Set(handler, c, "over")
    /\ PublishStateEvent(ConnEvt(MainPool, "Idle", "Close"))
    /\ UNCHANGED <<clientvars, conn, chanvars, crd, timer>> /\ Guarded

HandleConnection(c) ==
    /\ \/ HandlerEnter(c) \/ HandlerHandshake(c) \/ HandlerRead(c)
       \/ HandlerPut(c) \/ HandlerExit(c) \/ HandlerBye(c)
    /\ HandlerUnchanged

-----------------------------------------------------------------------------
(* The coordinator: GetWorker *)

\* poolCond.Signal wakes one connection of the backlog, or the helper
\* goroutine of one that has timed out, or nobody.
Signal(p, f) == {f} \cup {[f EXCEPT ![c] = "wake"] : c \in {d \in Conn : f[d] = "wait" /\ target[d] = p}}

Idle(p) == {w \in activeQ : PoolOf[w] = p}
CanLock(p) == lock[p] = None
Take(c, w) ==
    /\ activeQ' = activeQ \ {w} /\ Set(worker, c, w) /\ Set(gone, c, FALSE)
    /\ wk' = [wk EXCEPT ![w] = IF @ = "idle" THEN "used" ELSE @]
TakeNone == UNCHANGED <<activeQ, worker, gone, wk>>

\* Without an idle worker: REJECT_DB_DOWN or a soft eviction, or the backlog.
Wait(c, p) ==
    \/ Set(crd, c, "fail") /\ Set(lock, p, None)
    \/ Healthy(p) # {} /\ Set(crd, c, "blg") /\ Set(lock, p, c)

GetWorker(c) ==
    /\ crd[c] = "get" /\ CanLock(target[c])
    /\ \/ \E w \in Idle(target[c]) : Take(c, w) /\ Set(crd, c, "asgn") /\ UNCHANGED lock
       \/ Idle(target[c]) = {} /\ TakeNone /\ Wait(c, target[c])
    /\ UNCHANGED <<logvars, conn, chanvars, todo>>

\* The event is sent with the lock held; the helper's cond.Wait releases it.
ToBacklog(c) ==
    /\ crd[c] = "blg" /\ Set(crd, c, "wait") /\ Set(lock, target[c], None)
    /\ PublishStateEvent(ConnEvt(target[c], "Idle", "Backlog"))
    /\ TakeNone /\ UNCHANGED <<conn, chanvars, todo>>

Wakeup(c) ==
    /\ crd[c] = "wake" /\ CanLock(target[c])
    /\ Set(lock, target[c], c) /\ Set(crd, c, "woken")
    /\ \/ \E w \in Idle(target[c]) : Take(c, w)
       \/ Idle(target[c]) = {} /\ TakeNone
    /\ UNCHANGED <<logvars, conn, chanvars, todo>>

\* Again with the lock held; without a worker it is back to the backlog.
Woken(c) ==
    /\ crd[c] = "woken"
    /\ PublishStateEvent(ConnEvt(target[c], "Backlog", "Idle"))
    /\ \/ worker[c] # None /\ Set(crd, c, "asgn") /\ Set(lock, target[c], None)
       \/ worker[c] = None /\ Wait(c, target[c])
    /\ TakeNone /\ UNCHANGED <<conn, chanvars, todo>>

\* The timer of the backlog may win over a wake-up.
NoBacklogTimeout(c) == FALSE                                             \* mutant
BacklogTimeout(c) ==
    /\ crd[c] \in {"wait", "wake"} /\ CanLock(target[c]) /\ Set(crd, c, "tout")
    /\ TakeNone /\ UNCHANGED <<logvars, conn, chanvars, lock, todo>>

TimedOutSilently(c) ==
    /\ crd[c] = "tout" /\ Set(crd, c, "fail")
    /\ TakeNone /\ UNCHANGED <<logvars, conn, chanvars, lock, todo>>
TimedOut(c) ==
    /\ crd[c] = "tout" /\ Set(crd, c, "fail")
    /\ PublishStateEvent(ConnEvt(target[c], "Backlog", "Idle"))
    /\ TakeNone /\ UNCHANGED <<conn, chanvars, lock, todo>>

Assigned(c) ==
    /\ crd[c] = "asgn" /\ Set(crd, c, "write")
    /\ PublishStateEvent(ConnEvt(target[c], "Idle", "Assign"))
    /\ TakeNone /\ UNCHANGED <<conn, chanvars, lock, todo>>

-----------------------------------------------------------------------------
(* The coordinator: Run, dispatchRequest, doRequest *)

\* The process of the worker it holds has exited.
Gone(c) == gone[c] \/ wk[worker[c]] = "exited"
Exit(c) == Set(crd, c, "exit") /\ Set(conn, c, FALSE)

\* Reads may go to a read-only pool.
ChoosePool(c) == \E p \in Pool : Set(target, c, p)

\* A request: dispatched to a pool, or to the worker of the transaction, or
\* forwarded while another one is executed.
TakeRequest(c) ==
    /\ crd[c] \in {"run", "req"} /\ ch[c] > 0 /\ Set(ch, c, ch[c] - 1)
    /\ \/ worker[c] = None /\ Set(crd, c, "get") /\ ChoosePool(c)
       \/ worker[c] # None /\ Set(crd, c, "write") /\ UNCHANGED target
    /\ TakeNone /\ UNCHANGED <<logvars, conn, chClosed, canceled, done, lock, todo>>

\* worker.Write: wsBusy is reported (again, if it was), then the socket is
\* written, which may fail once the process has exited.
Write(c) ==
    /\ crd[c] = "write" /\ PublishStateEvent(WorkerEvt(worker[c], "busy"))
    /\ \/ Gone(c) /\ Set(crd, c, "lost") /\ UNCHANGED todo
       \/ /\ Set(crd, c, "req")
          /\ todo' = [todo EXCEPT ![worker[c]] = IF Gone(c) THEN @ ELSE @ + 1]
    /\ TakeNone /\ UNCHANGED <<conn, chanvars, lock>>

\* A message of the worker, for doRequest or after it for Run.
Answer(c) ==
    /\ crd[c] \in {"run", "req"} /\ worker[c] # None /\ ~gone[c] /\ wk[worker[c]] \in {"eor", "free"}
    /\ \/ conn[c] /\ Set(crd, c, IF wk[worker[c]] = "free" THEN "free" ELSE "run")
       \/ ReadFails(c) /\ Set(crd, c, "strand")
    /\ Set(wk, worker[c], "used")
    /\ UNCHANGED <<logvars, conn, chanvars, activeQ, worker, gone, lock, todo>>

\* clientchannel closed (Run and doRequest), or ctx canceled (doRequest).
ClientGone(c) ==
    /\ \/ crd[c] \in {"run", "req"} /\ ch[c] = 0 /\ chClosed[c] /\ ~config.unguarded
       \/ crd[c] = "req" /\ canceled[c]
    /\ \/ worker[c] # None /\ Set(crd, c, "strand") /\ UNCHANGED conn
       \/ worker[c] = None /\ Exit(c)
    /\ TakeNone /\ UNCHANGED <<logvars, chanvars, lock, todo>>

WorkerClosed(c) ==
    /\ crd[c] \in {"run", "req"} /\ worker[c] # None /\ Gone(c) /\ ~config.unguarded
    /\ Set(crd, c, "lost") /\ TakeNone /\ UNCHANGED <<logvars, conn, chanvars, lock, todo>>

\* The log statement ahead of the test of ok, for either channel.
NilMessage(c) ==
    /\ crd[c] \in {"run", "req"}
    /\ (ch[c] = 0 /\ chClosed[c]) \/ (worker[c] # None /\ Gone(c))
    /\ Panic("coordinator") /\ TakeNone /\ UNCHANGED <<logvars, lock, todo>>

\* A worker to recover, or one that has exited and is restarted by the
\* broker.  Recover of the latter only reports its slot as quiesced, or not even
\* that if the flag of an earlier recovery is still set.
NotRecovering(c) == wk
Recovering(c) == IF Gone(c) THEN wk ELSE [wk EXCEPT ![worker[c]] = "strand"]
GiveUp(c) ==
    /\ crd[c] \in {"strand", "lost"}
    /\ PublishStateEvent(ConnEvt(PoolOf[worker[c]], "Assign", "Idle"))
    /\ \/ crd[c] = "lost" /\ Exit(c) /\ Set(worker, c, None) /\ UNCHANGED wk
       \/ /\ crd[c] = "strand" /\ wk' = Recovering(c)
          /\ \/ Gone(c) /\ Set(crd, c, "stale") /\ UNCHANGED <<worker, conn>>
             \/ ~Gone(c) /\ Exit(c) /\ Set(worker, c, None)
    /\ UNCHANGED <<chanvars, activeQ, gone, lock, todo>>
RecoverGone(c) ==
    /\ crd[c] = "stale"
    /\ PublishStateEvent(WorkerEvt(worker[c], "quce")) \/ UNCHANGED logvars
    /\ Exit(c) /\ Set(worker, c, None) /\ UNCHANGED <<chanvars, activeQ, gone, wk, lock, todo>>

\* processError answers the client, and Run returns.
Fail(c) == crd[c] = "fail" /\ Exit(c) /\ TakeNone /\ UNCHANGED <<logvars, chanvars, lock, todo>>

-----------------------------------------------------------------------------
(* The coordinator: ReturnWorker *)

FreeEvent(c) ==
    /\ crd[c] = "free" /\ Set(crd, c, "rtn")
    /\ PublishStateEvent(ConnEvt(PoolOf[worker[c]], "Assign", "Idle"))
    /\ TakeNone /\ UNCHANGED <<conn, chanvars, lock, todo>>

\* The ticket of a worker that was restarted is gone.
ReturnWorker(c) ==
    /\ crd[c] = "rtn" /\ CanLock(PoolOf[worker[c]])
    /\ \/ gone[c] /\ Set(crd, c, "run") /\ Set(worker, c, None) /\ UNCHANGED lock
       \/ ~gone[c] /\ Set(crd, c, "acpt") /\ Set(lock, PoolOf[worker[c]], c) /\ UNCHANGED worker
    /\ UNCHANGED <<logvars, conn, chanvars, activeQ, gone, wk, todo>>

\* wsAcpt is reported with the lock held, then the worker is pushed and the
\* pool signalled.
Returned(c) ==
    LET w == worker[c]
    IN  /\ crd[c] = "acpt" /\ PublishStateEvent(WorkerEvt(w, "acpt"))
        /\ Set(lock, PoolOf[w], None) /\ activeQ' = activeQ \cup {w}
        /\ wk' = [wk EXCEPT ![w] = IF @ = "exited" THEN @ ELSE "idle"] /\ Set(todo, w, 0)
        /\ crd' \in Signal(PoolOf[w], [crd EXCEPT ![c] = "run"]) /\ Set(worker, c, None)
        /\ UNCHANGED <<conn, chanvars, gone>>

Coordinator(c) ==
    /\ \/ TakeRequest(c)
       \/ /\ \/ GetWorker(c) \/ ToBacklog(c) \/ Wakeup(c) \/ Woken(c) \/ BacklogTimeout(c)
             \/ TimedOut(c) \/ Assigned(c) \/ Write(c) \/ Answer(c) \/ ClientGone(c)
             \/ WorkerClosed(c) \/ GiveUp(c) \/ RecoverGone(c) \/ Fail(c)
             \/ FreeEvent(c) \/ ReturnWorker(c) \/ Returned(c)
          /\ UNCHANGED target
    /\ UNCHANGED <<clientvars, handler, timer, faults, isUnderRecovery, bouncervars, panicked>>

CoordinatorPanics(c) ==
    NilMessage(c) /\ UNCHANGED <<clientvars, target, timer, faults, isUnderRecovery, bouncervars>>

Fault == faults < config.faults /\ faults' = faults + 1

\* The idle timers, minutes long: by then the handler is back in its select
\* and has taken what was sent on done.  The one of doRequest ends the
\* request, the one of Run fires once.
Quiet(c) == ch[c] = 0 /\ handler[c] = "read" /\ done[c] = 0
IdleTimeout(c) ==
    /\ Fault /\ Quiet(c) /\ Set(done, c, 1)
    /\ \/ crd[c] = "run" /\ timer[c] /\ Set(timer, c, FALSE) /\ UNCHANGED crd
       \/ crd[c] = "req" /\ sock[c] = 0 /\ Set(crd, c, "strand") /\ UNCHANGED timer
    /\ UNCHANGED <<logvars, clientvars, conn, handler, ch, chClosed, canceled,
                   worker, gone, target, lock, activeQ, wk, todo, isUnderRecovery, bouncervars,
                   panicked>>

\* The saturation recovery of the pool aborts the request of a worker.
Abort(c) ==
    /\ Fault /\ crd[c] \in {"run", "req"} /\ worker[c] # None /\ Set(crd, c, "strand")
    /\ UNCHANGED <<logvars, clientvars, conn, handler, chanvars, worker, gone, target, timer,
                   lock, activeQ, wk, todo, isUnderRecovery, bouncervars, panicked>>

-----------------------------------------------------------------------------
(* The goroutines of a worker *)

ToWorker(w, from, to) == wk[w] = from /\ Set(wk, w, to)
Report(w, from, s, to) ==
    ToWorker(w, from, to) /\ PublishStateEvent(WorkerEvt(w, s)) /\ UNCHANGED <<lock, activeQ, todo, crd, gone>>

\* Into the queue and Signal.
Push(w) ==
    /\ activeQ' = activeQ \cup {w} /\ crd' \in Signal(PoolOf[w], crd)
    /\ Set(todo, w, 0) /\ UNCHANGED gone

StartWorker(w) == Report(w, "start", "init", "attach")
AttachToWorker(w) == Report(w, "attach", "acpt", "ready")
WorkerReady(w) ==
    ToWorker(w, "ready", "idle") /\ CanLock(PoolOf[w]) /\ Push(w) /\ UNCHANGED <<logvars, lock>>

\* doRead: the EOR of a request, the worker kept or free.  Nobody waits for it
\* once the coordinator has given the worker up.
DoRead(w) ==
    /\ todo[w] > 0 /\ Set(todo, w, todo[w] - 1)
    /\ \E s \in {"wait", "fnsh"} :
          /\ PublishStateEvent(WorkerEvt(w, s))
          /\ \/ ToWorker(w, "used", IF s = "wait" THEN "eor" ELSE "free")
             \/ wk[w] \in {"strand", "recover", "dropped"} /\ UNCHANGED wk
    /\ UNCHANGED <<lock, activeQ, crd, gone>>

\* Recover: SIGHUP, then the EOR free of the worker, or SIGTERM.  It returns at
\* once if the flag of an earlier recovery, reset after that has returned the
\* worker, is still set: the worker then stays checked out.
RecoverBegin(w) ==
    /\ w \notin isUnderRecovery /\ isUnderRecovery' = isUnderRecovery \cup {w}
    /\ Report(w, "strand", "quce", "recover")
RecoverGivesUp(w) ==
    /\ w \in isUnderRecovery /\ ToWorker(w, "strand", "dropped")
    /\ UNCHANGED <<logvars, lock, activeQ, todo, crd, gone, isUnderRecovery>>
RecoverDone(w) ==
    /\ w \in isUnderRecovery /\ wk[w] \notin {"recover", "rrtn", "racpt"}
    /\ isUnderRecovery' = isUnderRecovery \ {w}
    /\ UNCHANGED <<logvars, lock, activeQ, wk, todo, crd, gone>>
RecoverFree(w) == Report(w, "recover", "fnsh", "rrtn")
RecoverTimeout(w) ==
    ToWorker(w, "recover", "exited") /\ UNCHANGED <<logvars, lock, activeQ, todo, crd, gone>>
RecoverReturn(w) ==
    /\ ToWorker(w, "rrtn", "racpt") /\ CanLock(PoolOf[w]) /\ Set(lock, PoolOf[w], w)
    /\ UNCHANGED <<logvars, activeQ, todo, crd, gone>>
RecoverReturned(w) ==
    /\ ToWorker(w, "racpt", "idle") /\ PublishStateEvent(WorkerEvt(w, "acpt"))
    /\ Set(lock, PoolOf[w], None) /\ Push(w)

\* The broker learns of the exit and has the pool restart the worker.
RestartWorker(w) ==
    /\ ToWorker(w, "exited", "start") /\ CanLock(PoolOf[w])
    /\ activeQ' = activeQ \ {w} /\ Set(todo, w, 0)
    /\ gone' = [c \in Conn |-> gone[c] \/ worker[c] = w]
    /\ isUnderRecovery' = isUnderRecovery \ {w}
    /\ UNCHANGED <<logvars, lock, crd>>

WorkerGoroutines(w) ==
    /\ \/ /\ \/ StartWorker(w) \/ AttachToWorker(w) \/ WorkerReady(w) \/ DoRead(w)
             \/ RecoverFree(w) \/ RecoverTimeout(w) \/ RecoverReturn(w) \/ RecoverReturned(w)
          /\ UNCHANGED isUnderRecovery
       \/ RecoverBegin(w) \/ RecoverGivesUp(w) \/ RecoverDone(w) \/ RestartWorker(w)
    /\ UNCHANGED <<clientvars, conn, handler, chanvars, worker, target, timer, faults,
                   bouncervars, panicked>>

WorkerExit(w) ==
    /\ Fault
    /\ wk[w] \in {"idle", "used", "recover", "dropped"} /\ Set(wk, w, "exited")
    /\ UNCHANGED <<logvars, clientvars, conn, handler, chanvars, crdvars, lock, activeQ, todo,
                   isUnderRecovery, bouncervars, panicked>>

LogGoroutine ==
    /\ ApplyEvent
    /\ UNCHANGED <<clientvars, conn, handler, chanvars, crdvars, poolvars, bouncervars, panicked>>

Running == panicked = "nobody" /\ UNCHANGED config

Next ==
    /\ Running
    /\ \/ \E c \in Conn : \/ Dial(c) \/ Send(c) \/ Leave(c) \/ Accept(c) \/ HandleConnection(c)
                          \/ Coordinator(c) \/ CoordinatorPanics(c) \/ IdleTimeout(c) \/ Abort(c)
       \/ \E w \in Worker : WorkerGoroutines(w) \/ WorkerExit(w)
       \/ LogGoroutine \/ BouncerTime

\* Go's mutexes and channels serve their waiters in order, so a goroutine
\* whose lock or channel is free again and again gets it.  Clients, idle
\* timers, aborts and exits owe nothing.
Fairness ==
    /\ WF_vars(Running /\ LogGoroutine)
    /\ \A c \in Conn : /\ SF_vars(Running /\ HandleConnection(c))
                       /\ SF_vars(Running /\ Coordinator(c))
    /\ \A w \in Worker : SF_vars(Running /\ WorkerGoroutines(w))

Spec == Init /\ [][Next]_vars /\ Fairness

-----------------------------------------------------------------------------
(* Properties *)

\* Where the connections are, whatever the log says.
Opened == {c \in Conn : handler[c] \in {"hands", "read", "put", "exit", "bye"}}
InBacklog(p) == {c \in Conn : target[c] = p /\ crd[c] \in {"wait", "wake", "woken", "tout"}}
WithWorker == {c \in Conn : \/ crd[c] \in {"write", "req", "strand", "lost", "free"}
                            \/ crd[c] = "run" /\ worker[c] # None}
Waiting == UNION {InBacklog(p) : p \in Pool}

\* The counters once the events still in the channel are applied.
Entering(p, s) == {i \in DOMAIN mEventChann : /\ mEventChann[i].eType = "conn" /\ mEventChann[i].new = s
                                              /\ Counts(mEventChann[i], p, s)}
Leaving(p, s) == {i \in DOMAIN mEventChann : /\ mEventChann[i].eType = "conn" /\ mEventChann[i].old = s
                                             /\ Counts(mEventChann[i], p, s)}
Announced(p, s) == perStateCnt[p][s] + Cardinality(Entering(p, s)) - Cardinality(Leaving(p, s))

\* The accounting of the log is waterproof (comment in genReport): whatever
\* order the handlers, coordinators and pools report in, and however a
\* connection ends, the counters and the events on their way add up to where
\* the connections are, so they return to zero when the connections do.
CountsExact ==
    \A p \in Pool :
        /\ Announced(p, "Backlog") = Cardinality(InBacklog(p))
        /\ Announced(p, "Assign") = Cardinality(WithWorker)
        /\ Announced(p, "Idle") = Cardinality(Opened) - Cardinality(Waiting) - Cardinality(WithWorker)
    /\ Announced(MainPool, "Close") = -Cardinality(Opened)

\* No way out of a session (client gone, worker gone, timeout, abort, answer)
\* forgets a worker: one that is checked out belongs to a coordinator that will
\* return or recover it, or it is being recovered, restarted or returned.  The
\* one way to lose a worker is the give-up of Recover (state "dropped").
NoOrphan ==
    \A w \in Worker : wk[w] \in {"used", "eor", "free"} =>
        \E c \in Conn : worker[c] = w /\ ~gone[c] /\ crd[c] # "exit"

\* A coordinator is never blocked for good, neither on the lock of the pool nor
\* on the full event channel, which is written to with the lock held, nor in the
\* backlog, whose wake-ups may be lost: from wherever it is on its way it comes
\* back to the select of Run or doRequest, or exits (or the process has ended).
Unblocked ==
    \A c \in Conn :
        crd[c] \notin {"off", "run", "req", "exit"} ~>
            crd[c] \in {"run", "req", "exit"} \/ panicked # "nobody"

\* "bouncing conditional has to be reconfirmed 4 times before bouncer really
\* kicks in" (server.go:204); "even when server cannot accept, we do not start
\* bouncing right away", and a count of 1 is the "beginning of a new wave of
\* bouncing conditions" (server.go:232, :239): when the bouncer is activated, the
\* three checks before this one have found no capacity either.
Reconfirmed == [][~activated /\ activated' => refused = 3]_vars

\* "closing of clientchannel will notify the coordinator to exit"
\* (connectionhandler.go:264): it does not bring the coordinator, and with it the
\* process, down.
NoPanic == panicked # "coordinator"

=============================================================================
