---------------------------- MODULE TafDispatch -----------------------------
(***************************************************************************)
(* Failover of reads between a primary and a fallback database              *)
(* (lib/coordinatortaf.go): where a request runs, which answers pass to the  *)
(* client, and what becomes of the workers; and the statistic of normally    *)
(* slow queries with its lock (lib/tafqueries.go, lib/lock_timeout.go).      *)
(*                                                                          *)
(* The statistic of the primary's health is module Taf's, and the number of   *)
(* workers WorkerPool's: here UsePrimary, the test of GetPct and Healthy of    *)
(* the two pools may answer anything.                                        *)
(***************************************************************************)
EXTENDS Integers, Sequences

CONSTANTS
    Caller,            \* coordinators
    Worker, PoolOf,    \* workers, and whether their pool is the "primary" or the "fallback"
    Sql,               \* hashes of statements
    None,
    BinDuration,       \* TAFBinDuration
    NormallySlowCount, AllowSlowEveryX

ASSUME SlowAssumption == AllowSlowEveryX \in Nat /\ None \notin Caller

VARIABLES
    at, sql,           \* where a coordinator is; the statement
    worker,            \* the worker it uses
    slow,              \* the query is normally slow, and its timer an hour
    ok, dataSent,      \* of tafResponsePreproc
    shown,             \* what the client was sent: the first message of each source
    wk,                \* workers: "idle", "taken", "recover", "stray"
    lock, records, countFast, \* TafQueries; a record has the age of its bin
    fastSince          \* for a property: fast queries since the last slow one

stat == <<lock, records, countFast, fastSince>>
filter == <<ok, dataSent, shown>>
vars == <<at, sql, worker, slow, filter, wk, stat>>

Set(f, x, v) == f' = [f EXCEPT ![x] = v]

Init ==
    /\ at = [c \in Caller |-> "idle"]
    /\ sql = [c \in Caller |-> None] /\ worker = [c \in Caller |-> None]
    /\ slow = [c \in Caller |-> FALSE]
    /\ ok = [c \in Caller |-> TRUE] /\ dataSent = [c \in Caller |-> FALSE]
    /\ shown = [c \in Caller |-> <<>>]
    /\ wk = [w \in Worker |-> "idle"]
    /\ lock = None /\ records = [q \in Sql |-> None] /\ countFast = 0
    /\ fastSince = 0

-----------------------------------------------------------------------------
(* Normally slow queries *)

\* TryLock; who does not get the lock goes on without the statistic.
TryLock(c, then, else) ==
    \/ lock = None /\ lock' = c /\ Set(at, c, then)
    \/ lock # None /\ Set(at, c, else) /\ UNCHANGED lock

NewBin == [age |-> 0, cnt |-> 0]
Current(r) == IF r.age > BinDuration THEN NewBin ELSE r

NeverReset(n, is) == IF is THEN n ELSE n + 1                             \* mutant
CountFast(n, is) == IF is THEN 0 ELSE n + 1
Enough(n) == IF n > AllowSlowEveryX THEN AllowSlowEveryX ELSE n \* all the code tells apart

Ask(c) ==
    /\ at[c] = "idle"
    /\ \E q \in Sql : Set(sql, c, q)
    /\ TryLock(c, "isSlow", "choose")
    /\ UNCHANGED <<worker, slow, filter, wk, records, countFast, fastSince>>

\* A slow query is let through as slow only after enough fast ones.
IsNormallySlow(c) ==
    /\ at[c] = "isSlow"
    /\ LET q == sql[c]
           r == IF records[q] = None THEN None ELSE Current(records[q])
           is == r # None /\ r.cnt >= NormallySlowCount
           granted == is /\ countFast >= AllowSlowEveryX
       IN  /\ Set(records, q, r)
           /\ countFast' = IF r = None THEN countFast ELSE Enough(CountFast(countFast, is))
           /\ Set(slow, c, granted)
           /\ fastSince' = IF granted THEN 0
                           ELSE IF r # None /\ ~is THEN Enough(fastSince + 1) ELSE fastSince
    /\ lock' = None /\ Set(at, c, "choose")
    /\ UNCHANGED <<sql, worker, filter, wk>>

RecordTimeout(c) ==
    /\ at[c] = "record"
    /\ LET q == sql[c]
           r == IF records[q] = None THEN NewBin ELSE Current(records[q])
       IN  Set(records, q, [r EXCEPT !.cnt = IF @ < NormallySlowCount THEN @ + 1 ELSE @])
    /\ lock' = None /\ Set(at, c, "timedOut")
    /\ UNCHANGED <<sql, worker, slow, filter, wk, countFast, fastSince>>

-----------------------------------------------------------------------------
(* Workers *)

Idle(p) == {w \in Worker : PoolOf[w] = p /\ wk[w] = "idle"}

Take(c, p) == \E w \in Idle(p) : Set(worker, c, w) /\ Set(wk, w, "taken")

\* ReturnWorker, and Recover with the pool and ticket of the worker.
Return(c) == Set(worker, c, None) /\ Set(wk, worker[c], "idle")
Recover(c) == Set(worker, c, None) /\ Set(wk, worker[c], "recover")

\* Recover with the pool of the primary: ReturnWorker finds no such ticket.
RecoverAstray(c) == Set(worker, c, None) /\ Set(wk, worker[c], "stray")

\* A recovery ends: the worker is free, or it was killed and started again.
\* A stray worker is only started again if its process ends.
Recovered(w) ==
    /\ wk[w] = "recover"
    /\ Set(wk, w, "idle")
    /\ UNCHANGED <<at, sql, worker, slow, filter, stat>>
Restarted(w) ==
    /\ wk[w] = "stray"
    /\ Set(wk, w, "idle")
    /\ UNCHANGED <<at, sql, worker, slow, filter, stat>>

\* Time passes; an expired bin need not get older.
Tick ==
    /\ records' = [q \in Sql |-> IF records[q] = None \/ records[q].age > BinDuration THEN records[q]
                                 ELSE [records[q] EXCEPT !.age = @ + 1]]
    /\ UNCHANGED <<at, sql, worker, slow, filter, wk, lock, countFast, fastSince>>

-----------------------------------------------------------------------------
(* DispatchTAFSession *)

\* The request is over, answered or not; another one follows, of this client
\* or of the next one.
End(c) ==
    /\ Set(at, c, "idle") /\ Set(sql, c, None) /\ Set(slow, c, FALSE)
    /\ Set(ok, c, TRUE) /\ Set(dataSent, c, FALSE) /\ Set(shown, c, <<>>)

\* Without a healthy fallback there is no failover.  The primary is tried if
\* UsePrimary says so and a worker is idle.
Choose(c) ==
    /\ at[c] = "choose"
    /\ \/ Set(at, c, "plainWait") /\ UNCHANGED <<worker, wk>>
       \/ Set(at, c, "primary") /\ Take(c, "primary")
       \/ Set(at, c, "fbWait") /\ UNCHANGED <<worker, wk>>
    /\ UNCHANGED <<sql, slow, ok, dataSent, shown, stat>>

Show(c, source, kind) ==
    IF shown[c] # <<>> /\ shown[c][Len(shown[c])].source = source THEN shown[c]
    ELSE Append(shown[c], [source |-> source, kind |-> kind])

\* tafResponsePreproc.Write: an error on the list ("ora") is held back, with
\* what follows it, unless something was sent before.
ForwardsAll(c, kind) == ok[c]                                            \* mutant
Filter(c, kind) ==
    IF dataSent[c] \/ kind = "data" THEN ok[c] ELSE kind = "error"

\* A message of the primary's worker: rows, an error on the list or another one.
PrimarySends(c, kind) ==
    /\ at[c] = "primary"
    /\ Set(ok, c, Filter(c, kind))
    /\ Set(dataSent, c, dataSent[c] \/ ok'[c])
    /\ Set(shown, c, IF ok'[c] THEN Show(c, "primary", kind) ELSE shown[c])
    /\ UNCHANGED <<at, sql, worker, slow, wk, stat>>

\* EOR free: NotifyOK, or NotifyError and the fallback.
PrimaryEnds(c) ==
    /\ at[c] = "primary"
    /\ Return(c)
    /\ IF ok[c] THEN End(c) ELSE Set(at, c, "fbWait") /\ UNCHANGED <<sql, slow, filter>>
    /\ UNCHANGED stat

\* EOR in transaction or cursor: ErrDML.
LostTicket(c) ==                                                         \* mutant
    /\ at[c] = "primary"
    /\ RecoverAstray(c) /\ End(c)
    /\ UNCHANGED stat
PrimaryStays(c) ==
    /\ at[c] = "primary"
    /\ Recover(c) /\ End(c)
    /\ UNCHANGED stat

\* The timer of the request, before any answer, or later the idle timer, whose
\* message to the handler is module Server's.  The timeout is recorded when the
\* primary is well and the lock free.
Timeout(c) ==
    /\ at[c] = "primary"
    /\ \/ TryLock(c, "record", "timedOut")
       \/ Set(at, c, "timedOut") /\ UNCHANGED lock
    /\ UNCHANGED <<sql, worker, slow, filter, wk, records, countFast, fastSince>>

\* The worker is recovered and the fallback tried if nothing was sent yet.
AnyData(c) ==                                                            \* mutant
    /\ at[c] = "timedOut"
    /\ Recover(c)
    /\ Set(at, c, "fbWait") /\ UNCHANGED <<sql, slow, filter>>
    /\ UNCHANGED stat
TimedOut(c) ==
    /\ at[c] = "timedOut"
    /\ Recover(c)
    /\ IF dataSent[c] THEN End(c) ELSE Set(at, c, "fbWait") /\ UNCHANGED <<sql, slow, filter>>
    /\ UNCHANGED stat

\* The worker exits; it comes back as another process.  After an error on the
\* list that is a reason for the fallback.
PrimaryFails(c) ==
    /\ at[c] = "primary"
    /\ Recover(c)
    /\ IF dataSent[c] \/ ok[c] THEN End(c) ELSE Set(at, c, "fbWait") /\ UNCHANGED <<sql, slow, filter>>
    /\ UNCHANGED stat

\* The client leaves, the request is canceled or the worker is aborted.
PrimaryAborts(c) ==
    /\ at[c] = "primary"
    /\ Recover(c) /\ End(c)
    /\ UNCHANGED stat

\* GetWorker with the backlog, of the fallback or without failover.
GetWorker(c) ==
    /\ \/ at[c] = "fbWait" /\ Take(c, "fallback") /\ Set(at, c, "fallback")
       \/ at[c] = "plainWait" /\ Take(c, "primary") /\ Set(at, c, "plain")
    /\ UNCHANGED <<sql, slow, filter, stat>>
Waits(c) == FALSE                                                        \* mutant
BacklogTimeout(c) ==
    /\ \/ at[c] = "fbWait" /\ Idle("fallback") = {}
       \/ at[c] = "plainWait" /\ Idle("primary") = {}
    /\ End(c)
    /\ UNCHANGED <<worker, wk, stat>>

\* What the last worker sends goes to the client as it is.
LastSends(c) ==
    /\ at[c] \in {"fallback", "plain"}
    /\ Set(shown, c, Show(c, at[c], "any"))
    /\ UNCHANGED <<at, sql, worker, slow, ok, dataSent, wk, stat>>

LastEnds(c) ==
    /\ at[c] \in {"fallback", "plain"}
    /\ Return(c) /\ End(c)
    /\ UNCHANGED stat

\* EOR in transaction or cursor: the fallback's worker is recovered as if it
\* belonged to the primary's pool.
FallbackStays(c) ==
    /\ at[c] = "fallback"
    /\ RecoverAstray(c) /\ End(c)
    /\ UNCHANGED stat

\* Without failover the session holds the worker: dispatch sends its requests
\* there until the worker is free or the session ends.
PlainStays(c) ==
    /\ at[c] = "plain"
    /\ Set(at, c, "held") /\ Set(shown, c, <<>>)
    /\ UNCHANGED <<sql, worker, slow, ok, dataSent, wk, stat>>
AskHeld(c) ==
    /\ at[c] = "held"
    /\ Set(at, c, "plain")
    /\ UNCHANGED <<sql, worker, slow, filter, wk, stat>>

LastFails(c) ==
    /\ at[c] \in {"fallback", "plain", "held"}
    /\ Recover(c) /\ End(c)
    /\ UNCHANGED stat

Kind == {"data", "ora", "error"}

Locked(c) == IsNormallySlow(c) \/ RecordTimeout(c)
Step(c) ==
    \/ Choose(c) \/ TimedOut(c) \/ GetWorker(c) \/ BacklogTimeout(c)
    \/ PrimaryEnds(c) \/ PrimaryStays(c) \/ Timeout(c)
    \/ PrimaryFails(c) \/ PrimaryAborts(c)
    \/ LastEnds(c) \/ FallbackStays(c) \/ PlainStays(c) \/ LastFails(c)
Sends(c) == LastSends(c) \/ \E k \in Kind : PrimarySends(c, k)

Next ==
    \/ \E c \in Caller : Ask(c) \/ AskHeld(c) \/ Locked(c) \/ Step(c) \/ Sends(c)
    \/ \E w \in Worker : Recovered(w) \/ Restarted(w)
    \/ Tick

\* Who has the lock goes on.  A request ends, be it by the idle timer (clients
\* that keep it from firing by sending more are left out); so do the wait in a
\* backlog, a recovery, and a session left idle.  No process need ever exit.
Spec ==
    /\ Init /\ [][Next]_vars
    /\ \A c \in Caller : WF_vars(Locked(c)) /\ WF_vars(Step(c))
    /\ \A w \in Worker : WF_vars(Recovered(w))

-----------------------------------------------------------------------------
(* Properties *)

\* The answer to a request comes from one database: what the primary sent
\* before it failed or timed out is never followed by rows of the fallback.
OneSource == \A c \in Caller : Len(shown[c]) <= 1

\* While the fallback is there, an error that calls for failover reaches the
\* client from the primary only behind other data.
FailoverHidden ==
    \A c \in Caller : shown[c] # <<>> => Head(shown[c]) # [source |-> "primary", kind |-> "ora"]

\* Two queries that are let through as slow have the configured number of fast
\* ones between them, whoever runs them: the comment in IsNormallySlow, "we don't
\* want lots of slow queries".
SlowSpaced ==
    [][\A c \in Caller : slow'[c] /\ ~slow[c] => fastSince >= AllowSlowEveryX]_vars

Held(w) == \E c \in Caller : worker[c] = w /\ at[c] = "held"

\* Whatever happens to a request, DispatchTAFSession gives the primary's worker
\* back to its pool; only a transaction of a session without failover keeps it.
\* (One of the fallback that is left in a transaction is lost.)
ComeBack ==
    \A w \in Worker :
        wk[w] = "taken" ~> wk[w] = "idle" \/ Held(w) \/ (wk[w] = "stray" /\ PoolOf[w] = "fallback")

\* Every request comes to an end, on the primary, the fallback or neither, also
\* when all the fallback's workers are lost.
Ends == \A c \in Caller : at[c] = "choose" ~> at[c] \in {"idle", "held"}
=============================================================================
