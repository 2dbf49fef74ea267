------------------------------ MODULE StateLog ------------------------------
(***************************************************************************)
(* The state log (lib/statelog.go): every part of the multiplexer tells it  *)
(* of the changes of state of workers and connections by events on one      *)
(* bounded channel, one goroutine applies them to its counters, and the     *)
(* bouncer reads the counters without a lock.                               *)
(***************************************************************************)
EXTENDS Integers, Sequences, FiniteSets

CONSTANTS Pool,      \* the worker pools: shards, types and instances
          MainPool,  \* the RW pool of shard 0, under which handlers report
          Worker,    \* the slots of the worker tables
          EvCap      \* capacity of mEventChann (3000)

VARIABLES mEventChann, \* events sent and not yet applied
          perStateCnt, \* connections by pool and state
          state        \* worker states, by slot

logvars == <<mEventChann, perStateCnt, state>>

\* Stranded is never published.
ConnState == {"Assign", "Idle", "Backlog", "Close"}

WorkerState == {"init", "acpt", "busy", "wait", "fnsh", "quce"}

ConnEvt(p, old, new) == [eType |-> "conn", pool |-> p, old |-> old, new |-> new]
WorkerEvt(w, new) == [eType |-> "worker", worker |-> w, new |-> new]

StateLogInit ==
    /\ mEventChann = << >>
    /\ perStateCnt = [p \in Pool |-> [s \in ConnState |-> 0]]
    /\ state = [w \in Worker |-> "init"]

\* The send blocks while the channel is full.
PublishStateEvent(evt) ==
    /\ Len(mEventChann) < EvCap
    /\ mEventChann' = Append(mEventChann, evt)
    /\ UNCHANGED <<perStateCnt, state>>

\* Idle and Assign are shared by all pools, the others belong to the event's.
Counts(evt, p, s) == s \in {"Idle", "Assign"} \/ p = evt.pool
Change(evt, p, s) ==
    (IF s = evt.new /\ Counts(evt, p, s) THEN 1 ELSE 0)
      - (IF s = evt.old /\ Counts(evt, p, s) THEN 1 ELSE 0)
updateConnectionState(evt) ==
    perStateCnt' = [p \in Pool |-> [s \in ConnState |-> perStateCnt[p][s] + Change(evt, p, s)]]

setWorkerState(evt) == state' = [state EXCEPT ![evt.worker] = evt.new]

\* The goroutine of the log takes no lock of a pool.
ApplyEvent ==
    /\ mEventChann # << >>
    /\ mEventChann' = Tail(mEventChann)
    /\ LET evt == Head(mEventChann)
       IN  \/ evt.eType = "conn" /\ updateConnectionState(evt) /\ UNCHANGED state
           \/ evt.eType = "worker" /\ setWorkerState(evt) /\ UNCHANGED perStateCnt

-----------------------------------------------------------------------------
(* What the bouncer reads (one shard) *)

\* Assign and Idle of the RW pool, and what waits at any pool.
GetTotalConnections ==
    LET waiting[P \in SUBSET Pool] ==
            IF P = {} THEN 0
            ELSE LET p == CHOOSE q \in P : TRUE
                 IN  perStateCnt[p]["Backlog"] + waiting[P \ {p}]
    IN  perStateCnt[MainPool]["Assign"] + perStateCnt[MainPool]["Idle"] + waiting[Pool]

hasFreeWorker == \E w \in Worker : state[w] = "acpt"

ProxyHasCapacity(limit) ==
    hasFreeWorker \/ \A p \in Pool : perStateCnt[p]["Backlog"] <= limit

=============================================================================
