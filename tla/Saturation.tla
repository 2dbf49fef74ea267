----------------------------- MODULE Saturation -----------------------------
(***************************************************************************)
(* Saturation recovery (lib/adaptivequemgr.go): when the backlog of a pool   *)
(* is long, a goroutine picks the dispatched worker with the longest running *)
(* request and sends an abort into its control channel.  Nobody may be       *)
(* listening: the request may just have ended, or the worker be under         *)
(* recovery.  The abort then waits in the channel for the next client.        *)
(*                                                                          *)
(* The clock is the uint32 of the code, of ClockSize values instead of 2^32; *)
(* its unit is the time the goroutine sleeps.  Soft eviction of the victim's *)
(* statement is left out: WorkerPool lets GetWorker reject any request.       *)
(***************************************************************************)
EXTENDS Integers, FiniteSets

CONSTANTS
    Worker,
    ClockSize,         \* the clock counts modulo this
    Threshold,         \* GetSatRecoverThresholdMs
    ThrottleCnt,       \* GetSatRecoverThrottleCnt; the rate is not 0
    BacklogLimit, MaxBacklog,   \* GetBacklogLimit; bound on the clients that wait
    CtrlCap            \* capacity of ctrlCh

ASSUME ClockAssumption == ClockSize \in Nat \ {0} /\ Threshold \in Nat

VARIABLES
    now,
    mgr,               \* the goroutine: "sleep", "awake", "decided"
    backlogCnt,
    phase,             \* what becomes of a worker, below
    sqlStartTimeMs,
    ctrlCh,            \* the number of aborts in the channel
    dispatchedWorkers,
    age,               \* for the properties: time since the request was sent, up to ClockSize
    aborts             \* for the properties: aborts since the request was sent, up to 2

pool == <<phase, sqlStartTimeMs, ctrlCh, dispatchedWorkers, age, aborts>>
satVars == <<now, mgr, backlogCnt, pool>>

Set(f, w, v) == f' = [f EXCEPT ![w] = v]

SatInit ==
    /\ now \in 0 .. ClockSize - 1 /\ mgr = "sleep" /\ backlogCnt = 0
    /\ phase = [w \in Worker |-> "idle"]
    /\ sqlStartTimeMs = [w \in Worker |-> 0] /\ ctrlCh = [w \in Worker |-> 0]
    /\ dispatchedWorkers = {}
    /\ age = [w \in Worker |-> 0] /\ aborts = [w \in Worker |-> 0]

-----------------------------------------------------------------------------
(* The goroutine *)

Stranded == {w \in Worker : phase[w] = "recover"}

shouldRecover ==
    /\ backlogCnt # 0
    /\ Cardinality(Stranded) <= ThrottleCnt
    /\ backlogCnt >= BacklogLimit + Cardinality(Stranded)

Apart(w) ==                                                              \* mutant
    LET stime == sqlStartTimeMs[w]
    IN  IF now < stime THEN stime - now ELSE now - stime
Runtime(w) ==
    LET stime == sqlStartTimeMs[w]
    IN  IF now < stime THEN (ClockSize - 1) - (stime - now) + 1 ELSE now - stime

Candidates == {w \in dispatchedWorkers : sqlStartTimeMs[w] # 0 /\ Runtime(w) > Threshold}
Victims == {w \in Candidates : \A v \in Candidates : Runtime(v) <= Runtime(w)}

\* The decision is made without the lock ...
Decide ==
    /\ mgr = "awake"
    /\ mgr' = IF shouldRecover THEN "decided" ELSE "sleep"
    /\ UNCHANGED <<now, backlogCnt, pool>>

\* ... and not made again under it.  The start time is reset; the abort is
\* dropped if the channel is full.
Publish(n) == IF n < CtrlCap THEN n + 1 ELSE n

SelectOnly(w) == UNCHANGED sqlStartTimeMs                                \* mutant
ResetStart(w) == Set(sqlStartTimeMs, w, 0)

Kill(w) ==
    /\ mgr = "decided" /\ w \in Victims
    /\ ResetStart(w)
    /\ Set(ctrlCh, w, Publish(ctrlCh[w]))
    /\ Set(aborts, w, IF aborts[w] < 2 THEN aborts[w] + 1 ELSE 2)
    /\ mgr' = "sleep"
    /\ UNCHANGED <<now, backlogCnt, phase, dispatchedWorkers, age>>
Bypass ==
    /\ mgr = "decided" /\ Candidates = {}
    /\ mgr' = "sleep"
    /\ UNCHANGED <<now, backlogCnt, pool>>

\* The goroutine sleeps for a unit of time, whatever goes on in the pool.
Tick ==
    /\ mgr = "sleep" /\ mgr' = "awake"
    /\ now' = (now + 1) % ClockSize
    /\ age' = [w \in Worker |-> IF sqlStartTimeMs[w] = 0 THEN 0
                                ELSE IF age[w] < ClockSize THEN age[w] + 1 ELSE ClockSize]
    /\ UNCHANGED <<backlogCnt, phase, sqlStartTimeMs, ctrlCh, dispatchedWorkers, aborts>>

-----------------------------------------------------------------------------
(* Coordinators, one for every worker that is not idle:                      *)
(*   "taken"    GetWorker returned it    "running"  doRequest is in its loop *)
(*   "held"     in a transaction, the client is asked by Run                 *)
(*   "freed"    EOR free came            "recover"  Recover is at work       *)

Backlog ==
    /\ \/ backlogCnt < MaxBacklog /\ backlogCnt' = backlogCnt + 1
       \/ backlogCnt > 0 /\ backlogCnt' = backlogCnt - 1
    /\ UNCHANGED <<now, mgr, pool>>

\* The control channel is drained only if the response channel holds something.
Drain(w) == \/ Set(ctrlCh, w, 0)
            \/ UNCHANGED ctrlCh

GetWorker(w) ==
    /\ phase[w] = "idle"
    /\ Set(phase, w, "taken") /\ dispatchedWorkers' = dispatchedWorkers \cup {w}
    /\ Drain(w)
    /\ UNCHANGED <<now, mgr, backlogCnt, sqlStartTimeMs, age, aborts>>

\* doRequest has sent the request, and stores its start.
Start(w) ==
    /\ phase[w] \in {"taken", "held"}
    /\ Set(phase, w, "running") /\ Set(sqlStartTimeMs, w, now)
    /\ Set(age, w, 0) /\ Set(aborts, w, 0)
    /\ UNCHANGED <<now, mgr, backlogCnt, ctrlCh, dispatchedWorkers>>

\* EOR in a transaction leaves the start time.
Stays(w) ==
    /\ phase[w] = "running"
    /\ Set(phase, w, "held")
    /\ UNCHANGED <<now, mgr, backlogCnt, sqlStartTimeMs, ctrlCh, dispatchedWorkers, age, aborts>>

Free(w) ==
    /\ phase[w] \in {"running", "held"}
    /\ Set(phase, w, "freed") /\ Set(sqlStartTimeMs, w, 0)
    /\ UNCHANGED <<now, mgr, backlogCnt, ctrlCh, dispatchedWorkers, age, aborts>>

StaysRegistered(w) == UNCHANGED dispatchedWorkers                        \* mutant
unregisterDispatchedWorker(w) == dispatchedWorkers' = dispatchedWorkers \ {w}

\* After EOR free, or after a recovery, which leaves the start time too.
ReturnWorker(w) ==
    /\ phase[w] \in {"freed", "recover"}
    /\ Set(phase, w, "idle") /\ unregisterDispatchedWorker(w)
    /\ Drain(w)
    /\ UNCHANGED <<now, mgr, backlogCnt, sqlStartTimeMs, age, aborts>>

\* doRequest and Run take the abort.
OnlyRun(w) ==                                                            \* mutant
    /\ phase[w] = "held" /\ ctrlCh[w] > 0
    /\ Set(phase, w, "recover") /\ Set(sqlStartTimeMs, w, 0) /\ Set(ctrlCh, w, ctrlCh[w] - 1)
    /\ UNCHANGED <<now, mgr, backlogCnt, dispatchedWorkers, age, aborts>>
Abort(w) ==
    /\ phase[w] \in {"running", "held"} /\ ctrlCh[w] > 0
    /\ Set(phase, w, "recover") /\ Set(sqlStartTimeMs, w, 0) /\ Set(ctrlCh, w, ctrlCh[w] - 1)
    /\ UNCHANGED <<now, mgr, backlogCnt, dispatchedWorkers, age, aborts>>

\* The client leaves, or a timer fires.
Strand(w) ==
    /\ phase[w] \in {"running", "held"}
    /\ Set(phase, w, "recover")
    /\ UNCHANGED <<now, mgr, backlogCnt, sqlStartTimeMs, ctrlCh, dispatchedWorkers, age, aborts>>

\* The process exits; another WorkerClient takes its place.
RestartWorker(w) ==
    /\ Set(phase, w, "idle") /\ unregisterDispatchedWorker(w)
    /\ Set(sqlStartTimeMs, w, 0) /\ Set(ctrlCh, w, 0)
    /\ Set(age, w, 0) /\ Set(aborts, w, 0)
    /\ UNCHANGED <<now, mgr, backlogCnt>>

Recovery == Decide \/ Bypass \/ \E w \in Worker : Kill(w)

SatNext ==
    \/ Recovery \/ Tick \/ Backlog
    \/ \E w \in Worker :
          GetWorker(w) \/ Start(w) \/ Stays(w) \/ Free(w) \/ ReturnWorker(w)
          \/ Abort(w) \/ Strand(w) \/ RestartWorker(w)

\* The goroutine and time go on; a coordinator takes an abort that is there.  No
\* request and no recovery need ever end by itself.
SatSpec ==
    /\ SatInit /\ [][SatNext]_satVars
    /\ WF_satVars(Recovery) /\ WF_satVars(Tick)
    /\ \A w \in Worker : WF_satVars(Abort(w))

-----------------------------------------------------------------------------
(* Properties *)

Chosen(w) == aborts'[w] > aborts[w]
Timed == {w \in dispatchedWorkers : sqlStartTimeMs[w] # 0}

\* "find the oldest tenant in dispatchedworkers": whatever the clock has wrapped
\* to, the victim's last request was sent longer ago than the threshold, and than
\* that of any dispatched worker with a start time (while none is older than a
\* turn of the clock).
OldestTenant ==
    [][\A w \in Worker :
          Chosen(w) /\ (\A v \in Timed : age[v] < ClockSize) =>
              age[w] > Threshold /\ \A v \in Timed : age[v] <= age[w]]_satVars

\* "reset sqlstarttime to 0 to prevent recover again": a request is chosen once,
\* also if its coordinator is slow to take the abort, or never does.
OncePerRequest == \A w \in Worker : aborts[w] <= 1

\* "the returned worker should already be removed from our dispatchedWorkers
\* map": an abort is never sent to a worker that waits in the pool.
NotIdle == [][\A w \in Worker : Chosen(w) => phase[w] # "idle"]_satVars

\* If from some time on the goroutine finds, whenever it looks, the backlog long
\* and no more workers under recovery than the throttle allows, no request runs
\* forever, though aborts get lost on workers whose request has ended: all but
\* one whose start falls on the zero of the clock.
LongEnds ==
    <>[](mgr = "awake" => shouldRecover) =>
        \A w \in Worker : (phase[w] = "running" /\ sqlStartTimeMs[w] # 0) ~> phase[w] # "running"
=============================================================================
