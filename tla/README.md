# Hera: a TLA+ model of the database connection multiplexer

Hera puts many client connections on few database connections. A multiplexer
process (`lib/`) accepts clients; each client has a *handler* and a *coordinator*
goroutine. The multiplexer forks *worker* processes (`worker/`), each with one
database connection, and keeps them in pools. A coordinator checks a worker out of
a pool for a session (a request, or a transaction), relays packets, and gives the
worker back. When a client leaves in the middle, the worker is *recovered*:
interrupted, rolled back and returned, or killed and replaced.

This directory holds TLA+ modules for the parts of the system where interleavings,
wrap-around and formats matter, TLC configurations that check them, and proofs
checked by TLAPS.

## Parts of the system

| Part | Source | State | Operations | Module |
|---|---|---|---|---|
| Worker pool | `lib/workerpool.go` | free queue, tickets, backlog count, sizes, slice of workers, healthy count | GetWorker, ReturnWorker, WorkerReady, RestartWorker, Resize, RacMaint, checkWorkerLifespan | `WorkerPool` |
| Worker client | `lib/workerclient.go` | status, recovery flag, channels, rqId | StartWorker, attach, doRead, Write, Recover, Terminate, drain | `WorkerPool`, `WorkerSession` |
| Adaptive queue manager | `lib/adaptivequemgr.go` | dispatched workers, start times, aborts | register, shouldRecover, getWorkerToRecover, abort | `Saturation`, `WorkerPool` |
| Broker and monitor | `lib/workerbroker.go` | pools, pid map | SIGCHLD handling, lookup by shard | `WorkerPool`, `Sharding` |
| Ring queue | `lib/queue.go` | ring, head, tail, set of members | Push, PushFront, Poll, Remove, ForEachRemove | `RingQueue`, `Deque` |
| Coordinator | `lib/coordinator.go` | worker, pool, ticket, flags of the session | Run, dispatchRequest, doRequest | `WorkerPool`, `WorkerSession`, `Server`, `Sharding` |
| Worker service, command processor | `worker/shared/` | command channel, signals, statement, transaction, rqId | command loop, recover, EOR | `WorkerSession` |
| TAF statistic | `lib/taf.go` | pct, deltaPct | UsePrimary, NotifyOK, NotifyError | `Taf` |
| TAF dispatch | `lib/coordinatortaf.go`, `tafqueries.go`, `lock_timeout.go` | two pools, response filter, records of slow statements | DispatchTAFSession, Preprocess, IsNormallySlow, RecordTimeout | `TafDispatch` |
| Sharding | `lib/coordinatorsharding.go`, `shardingcfg.go` | shard of the session, shard map, whitelist | PreprocessSharding, processSetShardID, loadMap, loadWhitelist | `Sharding` |
| Server and bouncer | `lib/server.go` | check counter and time, connections | Run, bounceRequired, canAccept | `Server` |
| Connection handler | `lib/connectionhandler.go` | clientchannel, context | HandleConnection | `Server` |
| State log | `lib/statelog.go` | event channel, counters per state | PublishStateEvent, the reading goroutine, GetTotalConnections, ProxyHasCapacity | `StateLog` |
| Netstrings, MySQL packets | `utility/encoding/` | byte formats | building, reading, embedding, cutting | `Netstring`, `MySQLPackets` |
| RAC maintenance | `lib/racmaint.go` | last rows seen | racMaint | its effect on the pool, in `WorkerPool` |

### How they interact, and what is hard about it

- Every critical section of the pool's lock (`poolCond.L`) is atomic; everything
  between two of them interleaves: the helper goroutine that waits on the
  condition, the signal after unlocking, termination, recovery, and the monitor.
- A worker is referred to by the queue, the ticket map, the dispatched map, the
  slice of workers, the pid map, a coordinator and a recovery. They are updated in
  different steps.
- Worker processes exit at any time; the monitor learns of it by a coalescing
  signal, the reader goroutine by the end of the stream, in either order.
- The worker's EOR messages, the recover signal and the client's next packet
  travel on different channels and overtake each other.
- Everybody reports to the state log on one bounded channel, some while they hold
  a pool's lock; the bouncer reads its counters without a lock.
- Saturation recovery decides outside the lock, chooses under it, and its abort
  travels on a channel that the session may already have left.
- A request with failover may have shown part of an answer when its primary
  worker times out; a session with a worker of one shard may need a second one.

## Modules

**`WorkerPool`** is one pool with its clients, workers and monitor. A client's
program counter follows `GetWorker` (checking out, waiting in the backlog, woken,
timed out), its session, and its end (returned, abandoned). A worker has a process
state, an attach goroutine (waiting for the control message, ready, reading) and
possibly a recovery (`rec`). `activeQ` is a set here: its order is the subject of
`RingQueue`. `StartWorkers` stands for `spawnWorker`; `Grow` and `Shrink` are the
two branches of `Resize`; `panicked` is set when the code would index a slice out
of its range. A helper goroutine whose client has timed out remains as an orphan
that can swallow a signal.

**`Saturation`** is the goroutine of the adaptive queue manager with the workers it
watches: a 32-bit clock that wraps (here modulo `ClockSize`), the start time of
each worker's last request as the coordinator stores it and as it is left behind
when a client leaves, the bounded `ctrlCh`, and the draining of it at the places
where the pool drains. `age` and `aborts` only observe.

**`WorkerSession`** is one worker process and the multiplexer's end of its socket
pair. `Dispatch`, `Forward` and `Receive` are the coordinator; `Abandon`,
`RecoverReceive` and `RecoverEnd` the recovery, which gives up when an earlier one
has not reset its flag; `doRead` the reading goroutine, which loses the EORs that its
buffer takes beyond the first; `ReadNext`, `Take`, `TakeSignal` and `ProcessCmd` the
worker's goroutines. The pool is reduced to its effect: a worker given back goes to
the next client. Every exit of the process is `Recycle`: the session ends and a new
process starts. Clients speak MySQL, the protocol that `HandleConnection` fixes and
the worker's reader starts with, pipelined or not; a packet is its command, an EOR its
code and count.

**`StateLog`** is the log's channel, goroutine and counters; **`Server`** extends it
with the accept loop and bouncer, the connection handlers, the coordinators with
their idle timer, and the steps of pool and workers that report to the log. A lock
is held in the model over the sends that the code makes while holding it. Each
behaviour has a setting from `Configs`: with a bouncer or without, how many requests
and faults there are, and whether the statements that dereference the nil packet of
a closed channel bring the process down (`unguarded`), as they do in the code, or are
guarded, so that what lies behind them can be checked too. A worker whose recovery
gives up is `dropped`.

**`Sharding`** has the map and whitelist that are reloaded, and sessions that find
the shard of each request (the shard keys, the checks in their order,
`HERA_SET_SHARD_ID`), keep it and `prevShard`, and take a worker, or a second one for
a read from another shard. Its settings (`Config`) are with a map, with a whitelist,
without a map (then there is one shard), and what `handleMux` gets of a composite
request: the first netstring, as the code stands (`~whole`), or, for what lies behind
`SubNetstrings`, the whole of it. Murmur3 is any function; pools are counts of idle
workers.

**`TafDispatch`** is `DispatchTAFSession` for requests that run on the primary, on
the fallback, or on neither, with every outcome of `doRequest` at every point, the
filter that holds back errors (`tafResponsePreproc`), and the statistic of normally
slow statements under a lock that does not wait. **`Taf`** has the statistic that
chooses the database, with a step for every atomic load and store.

**`RingQueue`** is `lib/queue.go` with arrays, wrapping indices and doubling;
**`Deque`** is what it promises: a sequence without duplicates. `IsDeque` is the
refinement, with the ring read from head to tail. **`Netstring`** and
**`MySQLPackets`** are the wire formats as functions on sequences of bytes; a write
beyond the buffer, fatal in the code, is the value `Fatal`. `Base` is the number of
values of a byte, so that the widths of integers are reached with small numbers.

`MC…` modules give the constants for TLC; `MCData` drives the ring and draws samples
for the two formats; in `MCTaf` a behaviour is one of `Taf` or one of `TafDispatch`. The theorems are in `WorkerPoolTypes`, `WorkerPoolProofs` and
`WorkerPoolCounters` (the pool), `SessionProofs` (`WorkerSession` and `Saturation`),
`TafQueueProofs` (`Taf`, `TafDispatch` and `RingQueue`), `ShardingProofs`,
`ServerProofs` and `ServerCounts`. Modules that share a proof module keep their names apart:
`TafSpec`, `SatSpec` and `RingSpec` are the specifications of `Taf`, `Saturation` and
`RingQueue`.

## Runs

| Run | Bounds | Shows |
|---|---|---|
| `pool_session` | two clients, one slot, one exit by itself and the restart, two tickets, one orphaned helper | `TypeOK`; `NoSharedWorker`: no worker in two hands; `NoDoubleDispatch`: a queued worker has no ticket; `BacklogExact`: the count is the number of waiting clients; `EntersQueueOnce`: a worker is queued only when ready or by the holder of its ticket |
| `pool_resize` | three workers, two resizes to one or two, one failed start, four starts | `LoopsInRange`: loops over `currentSize` stay in the slice; `HealthyExact`: the count is the number of reading goroutines; `NeverIdleWhenTerminated`: no worker told to exit is idle in the queue |
| `pool_recovery` | one client, one slot, two starts, one maintenance request that ends lifespans, recovery of dangling workers switched on | `RecoveryReleases`: each recovery that waits ends with the ticket given up |
| `session_ok` | three clients, five packets, channel of two, counter modulo 8 that starts at 6 | `RqIdExact`: the two counters differ by what is untaken; `EqualIdMeansAllTaken`: an EOR with the multiplexer's count means that all is taken; `RecoveredClean`: a recovered worker does nothing for the client that left |
| `saturation` | two workers, clock modulo 4, threshold 1, channel of two aborts, a throttle that one recovery uses up | `OldestTenant`: the victim is the oldest request and beyond the threshold, however the clock wrapped; `OncePerRequest`: chosen once; `NotIdle`: never a worker in the pool; `LongEnds`: while the goroutine keeps finding a long backlog and room under the throttle, no request with a start time runs for ever |
| `server` | one connection place used again and again, up to two requests each, one worker, one idle timeout, abort or exit, an event channel of one; as the code is and with guards, with sessions or with a bouncer | `CountsExact`: counters and events on their way add up to where the connections are; `NoOrphan`: no way out of a session drops a worker, but the give-up of `Recover`; `Unblocked`: a coordinator that waits for a lock, the event channel or a worker gets on |
| `conn_panic` | one connection, two requests | `NoPanic` fails: see *Findings* |
| `bouncer_wave` | five clients that connect one after the other | `Reconfirmed` fails: see *Findings* |
| `sharding` | two sessions, two shards with one worker each, three buckets of which one is not configured, one reload that moves a bucket, marks it down for reads and gives another an impossible shard; with a map, a whitelist, no map, and with the first netstring only | `InRange`: no statement whose shard was looked up goes to a shard that does not exist; `Responds`: sessions that hold one worker each and want the other's do not wait for ever |
| `taf` | two coordinators; pct 1 to 5; one worker in each pool, one statement, every second slow one let through | `PctInRange`, `DeltaInRange`: racing stores stay in the ranges; `FailsOver`, `Recovers`: a lasting failure, or recovery, of the primary moves the percentage to its end; `OneSource`: no answer mixes the databases; `FailoverHidden`: an error that calls for failover is not shown; `SlowSpaced`: slow queries are spaced; `ComeBack`: workers come back, but for one case; `Ends`: requests end |
| `data` | ring of four elements, capacity three and six; lengths on both sides of every threshold; payloads up to three packets and one byte; pairs of netstrings, with the comma of either arriving late | `IdmapExact`: the map holds the members of the ring; `IsDeque`: the ring implements the sequence; `OKRoundTrip`, `StringRoundTrip`, `SplitReassembles`: MySQL packets read back; `InitStreamExact`: requests back to back are read as they were sent, or not at all after a late comma; `EmbeddedExact`: a composite carries its packets, and the first comes out |
| `data_split` | as `data` | `SplitsAll` fails: see *Findings* |

Why the bounds are enough. One slot and two clients make every race for a returned
worker; a second start shows a replaced worker beside references to the old one.
Two resizes let a slice shrink below the ID of a starting worker and grow again.
Capacity three lets the ring wrap, fill, and double with the head in the middle. The
TAF constants keep the code's proportions (steps and a largest delta that overshoot
the ends of the range). In `session_ok` the worker has served 6 packets when the
model starts, so that the counter wraps at once; three clients can leave three
recover signals behind, one more than the worker's channels hold. Five packets are
fewer than the modulus, and `SessionAssumption` says so: with a whole cycle of packets
unread (65536 in the code) an old EOR does carry the current count. An event channel
of one is full at every turn. Three refusals, one check with capacity and a fourth
refusal are what the bouncer's count can get wrong: five clients. A clock of four
values wraps during every request that lasts, and a throttle of 0 with two workers
holds the goroutine back while one of them recovers. One worker for each shard makes
two sessions wait for each other.

Clients are symmetric in `pool_session`, elements in `data`; neither run that uses
symmetry checks liveness. Deadlock is not checked in `session_ok`, `sharding` and the
runs of `Server`, where the bounds on packets and requests, or a panic, end the
behaviour. `HasLifespan` is never true in a run: RAC maintenance gives exit times too,
so `TimePasses` and `checkWorkerLifespan` are taken, and the theorems hold for both.

### Fairness

`pool_recovery` assumes weak fairness of goroutines that are ready to run, of
expired timers, of the exit of a terminated process (SIGKILL follows SIGTERM) and
of the monitor. It does not assume that a worker ever answers, that clients come,
or that a process exits by itself. `taf` assumes that each coordinator goes on
(requests keep coming; at least one in a hundred goes to the primary, so that
`UsePrimary` is true again and again) and nothing about the database.

`server` assumes weak fairness of the log's goroutine and strong fairness of the
goroutines of connections and workers: they wait for a mutex or for room in a
channel, which are free again and again, and Go hands both to waiters in turn.
Clients, idle timers, aborts and exits owe nothing. `saturation` assumes that the
goroutine runs, that time passes and that a coordinator that waits takes an abort that
is there; neither the database nor a recovery need ever end, and time does not wait
for either. What a recovery that lasts can do, hold the goroutine back by the throttle,
is therefore a condition of `LongEnds`. The dispatch in `taf` assumes that coordinators
and recoveries go on and that `doRequest` ends, by its answer, its timer or an error.
`sharding` assumes only that who waits for a worker gets one or times out.

## Findings

**coordinator.go:128** (`conn_panic`). The coordinator logs `ns.Serialized` before it
looks at `ok`: when the client sends COM_QUIT the handler closes `clientchannel`, the
coordinator, waiting at the select of `Run`, receives nil, and the process panics, for
all clients. The same pattern is at lines 200, 821, 893 and 965. The comments at
`connectionhandler.go:264` ("closing of clientchannel will notify the coordinator to
exit") and `:296` say otherwise. A related panic, not counted by `NoPanic`: a client
that closes without COM_QUIT, or in the handshake, brings the handler down
(`connectionhandler.go:65`, `:199`). What `server` shows it shows of the code as it is
up to such a panic, and of the code with those statements guarded.

**server.go:271** (`bouncer_wave`). When a check finds capacity, `capacityCheckCnt` and
`capacityCheckTime` stay as the refusals before it left them. After three refusals and
a check with capacity the next refusal, the first of its wave, bounces the connection,
against `server.go:203` ("bouncing conditional has to be reconfirmed 4 times before
bouncer really kicks in"), `:232` and `:239`.

**netstring.go:112** (`data_split`). Every netstring is read through a buffered reader
of its own, so what it reads ahead is lost: of a composite only the first packet is
split off. `netstring.go:239` says "SubNetstrings parses the embedded Netstrings", and
`netstring_test.go:119-123` and `:202-205` expect all of them.

## Observations

Behaviours of the models that no run asks about, worth knowing:

- `workerpool.go:207`: a worker that was starting while the pool shrank and grew to
  a smaller size indexes the slice out of range (`panicked` in `WorkerPool`).
- `workerpool.go:203`: `WorkerReady` does not see that the process has exited and
  been handled; the dead worker is queued.
- `workerclient.go:529`: `Recover` returns the worker before its deferred reset of
  `isUnderRecovery`; the next client's recovery in between fails its compare-and-swap,
  gives up, and the worker stays checked out (`dropped` in `Server`, `lost` in
  `WorkerSession`). `NoOrphan` says that a worker is lost in no other way.
- `coordinator.go:927`: an EOR free with another `rqId` than the multiplexer's is
  logged and accepted: with requests pipelined, the worker goes back to the pool with
  packets of the client unread.
- `cmdprocessor.go`: a COM_STMT_PREPARE stores into the map `stmtParams`, which nobody
  makes, and the worker dies of it; a failing COM_QUERY dereferences the nil
  `calExecTxn`. Both are `Recycle`.
- `cmdprocessor.go:751`, a netstring command, not modelled: when the first DML fails,
  the worker answers free with its transaction open.
- `netstring.go:79`: the loop that reads a payload asks for the comma too but is content
  without it, so that a comma that arrives late stays in the socket, and the next
  request on the connection is refused. The comment at `:39`, "exactly as many bytes as
  necessary", is not kept. `InitStreamExact` says what is left of it: no request is ever
  made up.
- `workerclient.go`, `doRead`: for the same reason as in the third finding EORs that
  arrive together get lost; `session_ok` has it.
- `adaptivequemgr.go:256`: a start time of 0 means none, so a request sent when the
  clock is at 0 is never a victim (the exception in `LongEnds`); a recovery that does
  not end uses up the throttle, and then no request is aborted; and start times
  outlive their requests when a client leaves or a transaction stays open, so that an
  abort may hit the next client of the worker, as the comment at line 150 expects.
- `coordinatortaf.go:333`: a fallback worker left in a transaction is recovered with
  the pool and ticket of the primary and stays away until its process exits (the
  exception in `ComeBack`).
- `coordinatorsharding.go:78`: the loop that takes the bytes of a number shifts `key`
  where it reads `keyNum`, so that only the lowest byte is hashed, eight times over;
  with the MOD algorithm the bucket is always 0. `docs/configuration.md:100` says "the
  scuttle ID is the remainder of dividing the FNV hash of the key by the number of
  scuttles". The model has the code's `Hash`, and no property says that a statement
  runs on the shard its key should name.
- `coordinator.go:339`: of a composite request `handleMux` gets the first netstring (third
  finding), the prepare: the shard keys in binds or in a ShardKey command are not seen.
- `coordinatorsharding.go:467`: a statement rejected without a hang-up leaves its
  shard behind in the session, and `HERA_SET_SHARD_ID` -1 followed by a prepare sent
  by itself dispatches to shard -1 (the exceptions in `InRange`).
- `coordinator.go:664`, `coordinatorsharding.go:307`: `prevShard`, restored after a read
  from another shard, may bring a stale shard back after the worker was returned. The
  session then prefers it to the shard that `HERA_SET_SHARD_ID` has set, until the shard
  is set again, against `coordinatorsharding.go:94` ("The shard ID remains set until is
  reset"); on the way the alert at `coordinator.go:641`, "Expected to be in
  transaction", is reached.
- `coordinator.go:630` and `:680`: when a read across shards finds no worker or fails,
  the session ends and the worker it held for its transaction stays behind.
- `connectionhandler.go:334`: a handler may wait for ever on a channel that its failed
  coordinator no longer reads: its buffer of one is there "to avoid blocking" for "a last
  pending message" (`:328`), and a client that pipelines can have two.
- `workerservice.go:289`: a SIGTERM behind an unhandled SIGHUP is dropped; the worker
  stays until SIGKILL.
- `tafqueries.go:53`: the first callers race for the creation of the records.
- `racmaint.go:154`: 16 entries are indexed with an instance number counted from 1.

## Proofs

All theorems hold for every value of the constants: any number of clients, workers,
starts, resizes, coordinators, any clock, any width of counters, any capacity of the
ring.

| Theorem | Module | States |
|---|---|---|
| `TypeCorrect` | `WorkerPoolProofs` | `TypeOK` |
| `ExclusiveUse` | `WorkerPoolProofs` | `NoSharedWorker` |
| `NeverDispatchedTwice` | `WorkerPoolProofs` | `NoDoubleDispatch` |
| `TicketRule` | `WorkerPoolProofs` | `EntersQueueOnce`, an action property |
| `BacklogCounts`, `HealthyCounts` | `WorkerPoolCounters` | `BacklogExact`, `HealthyExact` |
| `NotHandedOut`, `LoopsStayInRange` | `WorkerPoolProofs` | `NeverIdleWhenTerminated`, `LoopsInRange` |
| `CountersAgree`, `EqualIdSound`, `RecoversClean` | `SessionProofs` | `RqIdExact`, `EqualIdMeansAllTaken`, and `RecoveredClean`, an action property |
| `PctStaysInRange`, `DeltaStaysInRange` | `TafQueueProofs` | `PctInRange`, `DeltaInRange` |
| `AbortedOnce`, `IdleSpared`, `VictimIsOldest` | `SessionProofs` | `OncePerRequest`, `NotIdle`, `OldestTenant` |
| `AnswerOfOneSource`, `FailoverErrorHidden`, `SlowApart` | `TafQueueProofs` | `OneSource`, `FailoverHidden`, `SlowSpaced` |
| `IdmapIsExact` | `TafQueueProofs` | `IdmapExact` |
| `RingImplementsDeque` | `TafQueueProofs` | `IsDeque`, the refinement of `Deque` by `RingQueue` |
| `DispatchedInRange` | `ShardingProofs` | `InRange` |
| `NoWorkerDropped` | `ServerProofs` | `NoOrphan` |
| `CountersExact` | `ServerCounts` | `CountsExact` |

**The pool.** `WorkerPoolTypes` proves that every action preserves the types.
`NoSharedWorker` is not inductive: it does not say why a recovery or a coordinator
cannot return a worker that someone else holds. `PoolInv` adds that a client in a
session holds a worker (`Holds`), that at most one of the clients, the recoveries
about to start and the recovery that waits uses a worker (`Exclusive`), that queued
and starting workers have neither user nor ticket (`QueueFree`, `StartingFree`),
that workers not yet started have no goroutine (`NotSpawned`), and that the two
maps of tickets agree. The counters equal cardinalities of sets that each action
changes by at most one element. For `NotHandedOut` it is not enough that a worker
told to exit is out of the queue: `ExitInv` adds that nobody is left who could put it
back (no client and no recovery uses it, and its attach goroutine is past
`WorkerReady`), and rests on `PoolInv`. With dangling worker recovery on, workers in
use are told to exit, and the property says nothing. `LoopsInRange` is inductive
with the types.

**Saturation.** `SatInv` says that the clock has moved by the age of a request since
its start time, once around or not (`AgeIsRuntime`): so the wrapped difference of
`getWorkerToRecover` is the age (`RuntimeIsAge`), and the largest difference the
oldest request. That a chosen request has no start time gives `OncePerRequest`, that
a worker in the pool is not registered gives `NotIdle`.

**TAF.** The shared values of `Taf` are stores of values computed from old loads, so
`RangeInv` extends the ranges to the loaded values and keeps the test on `deltaPct`
true until the store. In `TafDispatch`, `SentInv` ties what the client has seen to
`dataSent`, `ok` and the place of the coordinator: data of the primary is on record
until the decision to retry. `SlowInv` bounds the code's counter of fast queries by
the true number since the last slow one, which updates skipped by the try-lock can
only make smaller.

**The ring.** `RingInv` says of a ring that its fields have the shape of the struct,
that no two of the slots from head to tail hold the same element, and that `idmap` is
the set of those elements. What it rests on is arithmetic: `Slots` and `Way` number the
slots from the head, without remainders, and `LengthShifts` says when moving head or
tail by a slot changes the length by one, which it does not in a ring with all slots
but one in use (`MakeRoom` keeps that away). Each operation is then described by what
it does to the numbered elements: one more at a position (`OneMoreInv`), one less
(`OneLessInv`), or the same ones in a larger slice (`DoubledRing`).

`ForEachRemove` is a loop, modelled by a recursive function. Its invariant `WalkInv`
says that after `n` turns, `d` elements were kept and `cnt` removed with `d + cnt = n`,
or the walk is over, that no kept element satisfies the condition, and that the ring
is one that satisfies `RingInv` with elements of the old one in their old order
(`Keeps`). `TurnInv` is one turn. That the recursion has a solution (`WalkTurns`) and
that every turn satisfies the invariant (`WalkEnd`) take an induction on `n`. The
library states it with an operator as parameter; it is replaced by the least number
(`Least`) for which the claim fails, which comes from the theorem that the naturals are
well-founded. `Listed` then reads the ring as a sequence, and each method is shown to be
a step of `Deque` with the same result.

**The session.** `CountInv` says without division that the multiplexer's counter is
ahead of the worker's by what is on its way, once around or not, and that this is
less than a cycle, which `SessionAssumption` grants. `EqualIdMeansAllTaken` looks at
EORs that were sent long ago, so `EorInv` carries for every EOR on its way a distance
`d` (`Lag`): the multiplexer's counter is `d` ahead of the count in the EOR, and `d` is
at least what the worker has not taken plus the command it is on. An equal count means
`d` = 0, and so nothing untaken and nothing running: that is `RecoveredClean`.

**Sharding.** The operators that compute a shard are taken one by one (`Loaded`,
`FoundFacts`, `Verified`, ...): a record that passes the checks names a shard that
exists, whatever the tables hold. `ShardInv` ties the session to its worker: idle with
a worker its shard is the worker's, during a read from another shard `prevShard` is,
and a session that was told its shard has that one (`Settled`). It says so only of
sessions not led astray (`strayed`), see *Observations*.

**The server.** `NoOrphan` needs to know which places of a coordinator hold a worker,
that a connection place is used again only when nothing of the last connection is left,
and who knows that its worker is gone (`ConnInv`). For the counters every step of a
connection is shown to report exactly the change it makes (`Account`: no change, one
move between idle and a state, opening, closing), by cases over all the steps of
handlers, coordinators and workers. `ServerCounts` then counts: the events in the
channel and the counters (`Announced`) change by what is reported, taking an event from
the channel changes nothing, and the numbers of connections change by the same.

Assumptions on constants: `ConstantsAssumption` (sizes and bounds are natural
numbers, the first workers fit the bound on starts, the clients are finitely many),
`TafAssumption` (the bounds leave room for one step, the largest delta is a power of
two), `ClockAssumption`, `SlowAssumption` (a coordinator is not the value of a free
lock), `SessionAssumption`, `RingAssumption`, `ShardingAssumption` (there is a shard
and a bucket, the hash is a natural number and defined on every key, the tables hold
records with any number as their shard) and `ServerAssumption` (workers belong to
pools, one pool is the main one, the connections are finitely many).

Only model-checked, and why:

- `RecoveryReleases`, `LongEnds`, `Unblocked`, `Responds`, `ComeBack`, `Ends`,
  `FailsOver`, `Recovers`: liveness under fairness is out of the prover's reach.
- `OKRoundTrip`, `StringRoundTrip`, `SplitReassembles`, `InitStreamExact`,
  `EmbeddedExact`: the readers of the formats recurse over the data, and what they
  compute for every input takes an induction over it.

## Not modelled

- Logging, CAL events and the report of the state log: output only.
- Configuration files: parsed once; what matters of them are the CONSTANTS. TAF and
  sharding are switched off by the configuration code of this version
  (`lib/config.go:254` and `:297`); their code is complete and is modelled for the
  builds that enable it.
- TLS, sockets and the contents of the MySQL handshake: I/O. The shutdown of the server: nothing
  reaches its branch.
- The Oracle and MySQL adapters: driver calls, whose outcomes are choices in
  `WorkerSession`; bind values, column and row formats and length-encoded strings, and
  the regular expressions of the SQL parser: data.
- The netstring commands of the worker: its clients speak MySQL, and it starts with the
  reader of MySQL packets (`workerservice.go:238`). The branch for netstrings, which
  makes a buffered reader for each and so loses what it reads ahead, and the commands
  behind it are left out.
- The distribution of a new maximum over the pools (`changeMaxWorkers`), the
  eviction statistics and the tables of backlog timeouts of the adaptive queue
  manager, the polling of the maintenance table: their effects are taken at any time
  and with any value.
- The client libraries (Go, Java): sequential, and they speak netstrings. The clients
  of `WorkerSession` and `Server` send any MySQL packets, pipelined or not, and leave at
  any point; those of `Sharding` wait for each answer.
- Clocks other than that of `Saturation` and the bouncer's poll interval: timers may
  expire at any time.
