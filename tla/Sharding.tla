------------------------------ MODULE Sharding ------------------------------
(***************************************************************************)
(* Sharding: the shard map and whitelist that a goroutine reloads           *)
(* (lib/shardingcfg.go), and the sessions that find the shard of each        *)
(* statement from its shard keys or from HERA_SET_SHARD_ID                   *)
(* (lib/coordinatorsharding.go) and run it on a worker of that shard or on   *)
(* the worker they hold (lib/coordinator.go).                                *)
(*                                                                          *)
(* A client sends its next request after the answer to the last one.  A pool *)
(* is the number of its idle workers; read-only pools are not told apart.    *)
(*                                                                          *)
(* Only netstrings carry shard keys, and of a composite request handleMux    *)
(* gets the first netstring and no more (SubNetstrings, module Netstring).   *)
(* The sessions are modelled with that (~cfg.whole) and, for what lies       *)
(* behind it, with the whole request.                                        *)
(***************************************************************************)
EXTENDS Integers, Sequences, FiniteSets

CONSTANTS
    Session,
    NumOfShards, MaxScuttleBuckets,
    Value,             \* shard key values, numbers
    Null,              \* the empty shard key value
    None,
    Murmur3,           \* the hash, on bytes and on key texts
    Byte,              \* values of a byte (256)
    Config,            \* the configurations: records of
                       \*   hash, string   ShardingAlgoHash, ShardKeyValueTypeIsString
                       \*   whitelist      EnableWhitelistTest
                       \*   useMap         UseShardMap
                       \*   crossKeysErr   ShardingCrossKeysErr
                       \*   whole          handleMux gets all of a composite request
    Statement,         \* the statements each client may send
    Composite,         \* bound: the sessions that send nothing else
    Table, WLTable,    \* contents of the shard map and whitelist tables
    Workers,           \* workers of a shard
    MaxRequests, MaxLoads \* bounds, the first for each session

Shard == 0 .. NumOfShards - 1
Bucket == 0 .. MaxScuttleBuckets - 1
Key == Value \cup {Null}

ShardMapRecord == [logical : Int, bad : BOOLEAN, readN : BOOLEAN, writeN : BOOLEAN]

\* A statement comes with the values bound to the shard key, and a ShardKey
\* command: none, one for another key name or one for the shard key, with its
\* values.
Request == [read : BOOLEAN, binds : Seq(Key), key : {"none", "other", "right"}, vals : Seq(Key)]

\* The tables hold records with any shard.
ASSUME ShardingAssumption ==
    /\ NumOfShards \in Nat \ {0} /\ MaxScuttleBuckets \in Nat \ {0} /\ Byte \in Nat \ {0}
    /\ Value \subseteq Nat
    /\ Value \cup 0 .. Byte - 1 \subseteq DOMAIN Murmur3 /\ \A n \in DOMAIN Murmur3 : Murmur3[n] \in Nat
    /\ Table \subseteq [Bucket -> ShardMapRecord \cup {None}]
    /\ WLTable \subseteq [Key -> ShardMapRecord \cup {None}]
    /\ \A s \in Session : Statement[s] \subseteq Request

VARIABLES
    cfg,                       \* the configuration
    records, wl, loads,        \* GetShardingCfg, GetWLCfg
    at, shard, prev, isRead,   \* a coordinator, its shard and prevShard
    worker, inTxn,             \* shard of the worker it holds; in transaction
    got, xread,                \* shard of the worker that runs the statement
    free, recovering,          \* workers of each shard
    reqs,
    named, strayed             \* for a property: the shard looked up for a statement,
                               \* and whether a request moved the shard under a worker

mapvars == <<records, wl, loads>>
infovars == <<shard, prev>>
vars == <<cfg, mapvars, at, infovars, isRead, worker, inTxn, got, xread,
          free, recovering, reqs, named, strayed>>

Set(f, x, v) == f' = [f EXCEPT ![x] = v]
Plus(f, x) == f' = [f EXCEPT ![x] = @ + 1]

-----------------------------------------------------------------------------
(* The shard map *)

Rec(logical) == [logical |-> logical, bad |-> FALSE, readN |-> FALSE, writeN |-> FALSE]
Bad == [Rec(-1) EXCEPT !.bad = TRUE]

\* One row of the table, whose bucket is valid and not set yet.
Load(row) == IF row = None THEN Bad
             ELSE IF row.logical \in Shard THEN row
             ELSE [row EXCEPT !.bad = TRUE, !.logical = -1]

\* A map with buckets not configured is stored too; the load is then tried on
\* the next shard's database.
loadMap ==
    /\ cfg.useMap
    /\ loads < MaxLoads /\ loads' = loads + 1
    /\ \E t \in Table : records' = [b \in Bucket |-> Load(t[b])]
    /\ UNCHANGED <<cfg, wl, at, infovars, isRead, worker, inTxn, got, xread, free, recovering,
                   reqs, named, strayed>>

loadWhitelist ==
    /\ cfg.useMap /\ cfg.whitelist
    /\ loads < MaxLoads /\ loads' = loads + 1
    /\ wl' \in WLTable
    /\ UNCHANGED <<cfg, records, at, infovars, isRead, worker, inTxn, got, xread, free, recovering,
                   reqs, named, strayed>>

NoInfo == [values |-> << >>, session |-> -1, id |-> 0]

\* InitShardingCfg: no client before a map is loaded, or made with shard 0 in all
\* buckets.  NewCoordinator.
Init ==
    /\ cfg \in Config
    /\ IF cfg.useMap THEN \E t \in Table : records = [b \in Bucket |-> Load(t[b])]
       ELSE records = [b \in Bucket |-> Rec(0)]
    /\ IF cfg.useMap /\ cfg.whitelist THEN wl \in WLTable ELSE wl = [k \in Key |-> None]
    /\ loads = 0
    /\ at = [s \in Session |-> "idle"]
    /\ shard = [s \in Session |-> NoInfo] /\ prev = shard
    /\ isRead = [s \in Session |-> FALSE]
    /\ worker = [s \in Session |-> None] /\ inTxn = [s \in Session |-> FALSE]
    /\ got = [s \in Session |-> None] /\ xread = [s \in Session |-> FALSE]
    /\ free = [i \in Shard |-> Workers] /\ recovering = [i \in Shard |-> 0]
    /\ reqs = [s \in Session |-> 0]
    /\ named = [s \in Session |-> None] /\ strayed = [s \in Session |-> FALSE]

\* atoui of an empty text is 0.  The loop that takes the bytes of a number
\* shifts another variable, so that all of them are the lowest byte.  Without a
\* hash the key is left 0.
Number(k) == IF k = Null THEN 0 ELSE k
Hash(k) == IF ~cfg.hash THEN 0
           ELSE IF cfg.string THEN Murmur3[Number(k)]
           ELSE Murmur3[Number(k) % Byte]

getShardRec(k) == records[Hash(k) % MaxScuttleBuckets]

-----------------------------------------------------------------------------
(* PreprocessSharding: what it leaves in shard and prevShard, the records of *)
(* the statement, and the outcome: "ok", "reject" or "hangup"                *)

\* The whitelist is looked at, and shard 0 is the default.
Lenient == cfg.whitelist \/ ~cfg.useMap

Whitelisted(k) ==
    IF wl[k] # None /\ wl[k].logical \in Shard THEN wl[k] ELSE getShardRec(k)
FirstRecord(k) ==
    IF ~Lenient THEN getShardRec(k)
    ELSE IF cfg.whitelist /\ k = Null THEN Rec(0)
    ELSE Whitelisted(k)

\* Lenient, the keys after the first are dropped, unless a null key ends the loop.
computeLogicalShards(i) ==
    LET v == i.values
        recs == IF v = << >> THEN << >>
                ELSE IF Lenient THEN <<FirstRecord(v[1])>>
                ELSE [n \in DOMAIN v |-> getShardRec(v[n])]
        dropped == Lenient /\ Len(v) > 1 /\ ~(cfg.whitelist /\ Null \in {v[1], v[2]})
    IN  [info |-> IF v = << >> THEN i
                  ELSE [i EXCEPT !.id = recs[1].logical,
                                 !.values = IF dropped THEN <<v[1]>> ELSE v],
         recs |-> recs]

Result(i, recs, outcome) == [info |-> i, recs |-> recs, outcome |-> outcome]

OutOfRangeOnly(i, recs) == i.values # << >> /\ recs[1].logical >= NumOfShards  \* mutant
BadMapping(i, recs) == i.values # << >> /\ (recs[1].bad \/ recs[1].logical >= NumOfShards)
NotOneKey(i, recs) ==
    \/ Len(i.values) > 1
    \/ i.values = << >> /\ i.session = -1 /\ recs = << >>
Hangup(i, recs) == IF i.values # << >> /\ recs[1].bad THEN "hangup" ELSE "reject"
MarkedDown(recs, read) ==
    recs # << >> /\ (IF read THEN recs[1].readN ELSE recs[1].writeN)

verifyValidShard(i0, recs0, read) ==
    LET default == BadMapping(i0, recs0) /\ cfg.whitelist
        i == IF default THEN [i0 EXCEPT !.id = 0] ELSE i0
        recs == IF default THEN [recs0 EXCEPT ![1] = Rec(0)] ELSE recs0
    IN  Result(i, recs, IF BadMapping(i, recs) \/ NotOneKey(i, recs) THEN Hangup(i, recs)
                        ELSE IF MarkedDown(recs, read) THEN "hangup"
                        ELSE "ok")

verifyXShard(old, i, recs, read) ==
    IF /\ ~read
       /\ \/ /\ old.values # << >> /\ i.values # << >> /\ old.values[1] # i.values[1]
             /\ cfg.crossKeysErr
          \/ recs # << >> /\ old.id # recs[1].logical
    THEN "hangup" ELSE "ok"

\* The shard information before the keys of the statement are looked at.
copyShardInfo(s) == IF inTxn[s] THEN shard[s] ELSE [prev[s] EXCEPT !.session = shard[s].session]

\* Binds of the shard key replace the information; a ShardKey that follows
\* replaces its values.
Discovered(s, st) ==
    IF st.binds = << >> THEN [shard[s] EXCEPT !.values = << >>]
    ELSE [values |-> st.binds, session |-> shard[s].session, id |-> 0]

PreprocessSharding(s, st) ==
    LET i0 == Discovered(s, st)
        i1 == IF st.key = "right" THEN [i0 EXCEPT !.values = st.vals] ELSE i0
        c == IF st.key # "none" \/ st.binds # << >> THEN computeLogicalShards(i1)
             ELSE [info |-> i1, recs |-> << >>]
        recs == IF c.info.values = << >> /\ c.info.session = -1 /\ Lenient
                THEN <<Rec(0)>> ELSE c.recs
        v == verifyValidShard(c.info, recs, st.read)
    IN  IF shard[s].session # -1 /\ (st.binds # << >> \/ st.key # "none")
        THEN Result([shard[s] EXCEPT !.values = << >>], << >>, "hangup")
        ELSE IF st.key = "other" /\ ~Lenient THEN Result(i0, << >>, "reject")
        ELSE IF v.outcome = "ok" /\ inTxn[s]
        THEN [v EXCEPT !.outcome = verifyXShard(copyShardInfo(s), v.info, v.recs, st.read)]
        ELSE v

-----------------------------------------------------------------------------
(* Sessions *)

\* Recover: the worker comes back to its pool later.  A worker that fails is
\* replaced in the same way.
Recover(i) == IF i = None THEN UNCHANGED recovering ELSE Plus(recovering, i)
Recovered(i) ==
    /\ recovering[i] > 0
    /\ Set(recovering, i, recovering[i] - 1) /\ Plus(free, i)
    /\ UNCHANGED <<cfg, mapvars, at, infovars, isRead, worker, inTxn, got, xread, reqs, named, strayed>>

\* dispatchRequest up to doRequest, with shard info i and worker w: a session
\* without a worker, or that reads from another shard, waits for one.
dispatchRequest(s, i, w, read) ==
    LET x == w # None /\ read /\ i.id # w
    IN  /\ Set(xread, s, x)
        /\ IF w = None \/ x
           THEN Set(at, s, IF i.id \in Shard THEN "wait" ELSE "panic") /\ Set(got, s, i.id)
           ELSE Set(at, s, "run") /\ Set(got, s, w)

\* The shard looked up for a statement: the session's, or the one of the record
\* of its first key, ShardKey before binds.
Names(s, st) ==
    LET v == IF st.key = "right" THEN st.vals ELSE st.binds
        r == FirstRecord(v[1])
    IN  IF shard[s].session # -1 THEN shard[s].session
        ELSE IF v = << >> THEN None
        ELSE IF r.bad THEN 0 ELSE r.logical

\* The session was told its shard and has another one.
Stale(s) == shard[s].session # -1 /\ shard[s].id # shard[s].session

CanAsk(s) == at[s] = "idle" /\ reqs[s] < MaxRequests[s] /\ Plus(reqs, s)

\* What SubNetstrings makes of a composite statement.
SubNetstrings(st) == IF cfg.whole THEN st ELSE [st EXCEPT !.binds = << >>, !.key = "none"]

\* handleMux and Run with a composite statement.  A worker held outside a
\* transaction is recovered before the dispatch.
Ask(s) == \E req \in Statement[s] :
    LET st == SubNetstrings(req)
        p == PreprocessSharding(s, st)
        switch == worker[s] # None /\ ~inTxn[s]
    IN  /\ CanAsk(s)
        /\ Set(isRead, s, st.read)
        /\ Set(shard, s, p.info) /\ Set(prev, s, copyShardInfo(s))
        /\ IF p.outcome = "ok"
           THEN /\ Set(named, s, Names(s, st))
                /\ Recover(IF switch THEN worker[s] ELSE None)
                /\ Set(worker, s, IF switch THEN None ELSE worker[s])
                /\ Set(strayed, s, strayed[s] /\ (switch => Stale(s)))
                /\ dispatchRequest(s, p.info, worker'[s], st.read)
           ELSE /\ Set(at, s, IF p.outcome = "reject" THEN "idle" ELSE "hungup")
                /\ Set(strayed, s, worker[s] # None)
                /\ UNCHANGED <<worker, got, xread, named, recovering>>
        /\ UNCHANGED <<cfg, mapvars, inTxn, free>>

\* A prepare sent by itself passes by PreprocessSharding; a commit, a rollback
\* or a fetch goes to the worker held, if any.
AskBare(s) == \E read \in BOOLEAN, prepare \in BOOLEAN :
    /\ CanAsk(s) /\ s \notin Composite
    /\ ~prepare => ~read /\ worker[s] # None
    /\ Set(isRead, s, read)
    /\ Set(named, s, None)
    /\ dispatchRequest(s, shard[s], worker[s], read)
    /\ UNCHANGED <<cfg, mapvars, infovars, worker, inTxn, free, recovering, strayed>>

\* Without a map there is one shard.
NumShards == IF cfg.useMap THEN NumOfShards ELSE 1

\* An invalid number, or another shard while in transaction, closes the connection.
processSetShardID(s) == \E i \in -1 .. NumOfShards :
    LET valid == i < NumShards
        moved == inTxn[s] /\ worker[s] # None /\ worker[s] # i
    IN  /\ CanAsk(s) /\ s \notin Composite
        /\ Set(isRead, s, FALSE)
        /\ Set(shard, s, IF ~valid THEN shard[s]
                         ELSE [shard[s] EXCEPT
                                 !.session = i,
                                 !.id = IF moved THEN @
                                        ELSE IF cfg.whitelist /\ i = -1 THEN 0 ELSE i])
        /\ Set(at, s, IF valid /\ ~moved THEN "idle" ELSE "hungup")
        /\ Set(strayed, s, worker[s] # None)
        /\ UNCHANGED <<cfg, mapvars, prev, worker, inTxn, got, xread, free, recovering, named>>

\* Run returns, and nothing of the coordinator is left.
End(s) ==
    /\ Set(at, s, "over") /\ Set(shard, s, NoInfo) /\ Set(prev, s, NoInfo)
    /\ Set(isRead, s, FALSE) /\ Set(worker, s, None) /\ Set(inTxn, s, FALSE)
    /\ Set(got, s, None) /\ Set(xread, s, FALSE) /\ Set(reqs, s, 0)
    /\ Set(named, s, None) /\ Set(strayed, s, FALSE)

\* GetWorker: a worker, or the end of the session at the timeout of the backlog.
\* A worker the session holds stays behind.
GetWorker(s) ==
    /\ at[s] = "wait" /\ free[got[s]] > 0
    /\ Set(free, got[s], free[got[s]] - 1)
    /\ Set(at, s, "run")
    /\ UNCHANGED <<cfg, mapvars, infovars, isRead, worker, inTxn, got, xread, recovering, reqs, named, strayed>>

OnlyFirst(s) ==                                                        \* mutant
    /\ at[s] = "wait" /\ free[got[s]] = 0 /\ worker[s] = None
    /\ End(s)
    /\ UNCHANGED <<cfg, mapvars, free, recovering>>
BacklogTimeout(s) ==
    /\ at[s] = "wait" /\ free[got[s]] = 0
    /\ End(s)
    /\ UNCHANGED <<cfg, mapvars, free, recovering>>

\* doRequest returns and dispatchRequest goes on: the worker is free, or it is
\* still busy with a transaction or a cursor and the session holds it.
Restore(s) == IF xread[s] THEN Set(shard, s, prev[s]) ELSE UNCHANGED shard

Answer(s) == \E a \in {"cursor", "txn", "free"} :
    /\ at[s] = "run"
    /\ Set(at, s, "idle")
    /\ Restore(s)
    /\ IF a # "free" /\ ~xread[s]
       THEN /\ Set(worker, s, got[s])
            /\ Set(inTxn, s, IF isRead[s] THEN inTxn[s] ELSE a = "txn")
            /\ UNCHANGED <<free, recovering, strayed>>
       ELSE /\ Set(worker, s, IF xread[s] THEN worker[s] ELSE None)
            /\ Set(inTxn, s, xread[s])
            /\ Set(strayed, s, strayed[s] /\ (xread[s] \/ Stale(s)))
            /\ IF a = "free" THEN Plus(free, got[s]) /\ UNCHANGED recovering
               ELSE Recover(got[s]) /\ UNCHANGED free
    /\ Set(isRead, s, FALSE) /\ Set(got, s, None) /\ Set(xread, s, FALSE) /\ Set(named, s, None)
    /\ UNCHANGED <<cfg, mapvars, prev, reqs>>

\* doRequest returns an error: the worker that ran the statement is recovered
\* and the session ends.  Again a worker held for a transaction stays behind.
Fails(s) ==
    /\ at[s] = "run"
    /\ Recover(got[s])
    /\ End(s)
    /\ UNCHANGED <<cfg, mapvars, free>>

\* The client leaves or was hung up on, or the worker held fails or is aborted:
\* Run recovers the worker and ends.
Leave(s) ==
    /\ at[s] \in {"idle", "hungup"}
    /\ Recover(worker[s])
    /\ End(s)
    /\ UNCHANGED <<cfg, mapvars, free>>

SessionStep(s) ==
    \/ Ask(s) \/ AskBare(s) \/ processSetShardID(s)
    \/ GetWorker(s) \/ BacklogTimeout(s)
    \/ Answer(s) \/ Fails(s) \/ Leave(s)

Next ==
    \/ loadMap \/ loadWhitelist
    \/ \E i \in Shard : Recovered(i)
    \/ \E s \in Session : SessionStep(s)

\* The backlog timer fires.
Spec == Init /\ [][Next]_vars /\ \A s \in Session : WF_vars(GetWorker(s) \/ BacklogTimeout(s))

-----------------------------------------------------------------------------
(* Properties *)

\* No statement whose shard was looked up is dispatched to a shard that does not
\* exist (GetWorkerPool indexes an array with it): buckets that are not
\* configured or have a logical shard out of range are rejected or sent to
\* shard 0.  Two cases are left out: a prepare sent by itself, after the shard was
\* reset to -1, and a session that held a worker while a request of it was rejected
\* without a hang-up or set the shard, which makes the code forget the shard of
\* the worker until the shard is set again.
InRange == \A s \in Session : at[s] = "panic" /\ ~strayed[s] => named[s] = None

\* Two sessions that hold the last workers of their shards and each read from
\* the other's shard do not wait for ever.
Responds == \A s \in Session : at[s] = "wait" ~> at[s] # "wait"
=============================================================================
