--------------------------- MODULE WorkerSession ----------------------------
(***************************************************************************)
(* The conversation between the multiplexer and one worker process: the    *)
(* coordinator's doRequest, Recover and doRead on one side                 *)
(* (lib/coordinator.go, lib/workerclient.go), the worker's reader, signal  *)
(* and command loops on the other (worker/shared).  Clients speak MySQL:   *)
(* HandleConnection fixes IsMySQL, and the worker's reader starts with the *)
(* MySQL packager.  A request is one packet, counted on both sides (rqId,  *)
(* cp.rqId), and every EOR carries the worker's count.  The pool is        *)
(* reduced to its effect here: a worker given back is handed to the next   *)
(* client.  Of a packet only its command matters.                          *)
(***************************************************************************)
EXTENDS Integers, Sequences

CONSTANTS
  ChanCap,      \* capacity of the worker's command channel, 10 in the code
  RqIdMod,      \* rqId is a uint16: 65536 in the code
  Served,       \* packets an idle worker has served when the model starts
  MaxClients,   \* bound: sessions that are given the worker, one after another
  MaxPackets    \* bound: packets written by them all

\* The multiplexer never gets a whole cycle of the counter ahead of the worker
\* (65536 packets in the code).
ASSUME SessionAssumption ==
  /\ ChanCap \in Nat \ {0} /\ RqIdMod \in Nat \ {0}
  /\ MaxClients \in Nat /\ MaxPackets \in Nat
  /\ Served \in 0 .. RqIdMod - 1
  /\ MaxPackets < RqIdMod

VARIABLES
  \* multiplexer
  at,             \* "none": worker in the pool; "request": in doRequest;
                  \* "recover": in Recover; "lost": Recover has given up
  client,         \* sessions so far
  packets,        \* packets written so far
  rqId,           \* packets written to this worker
  isUnderRecovery,
  outCh,          \* doRead -> coordinator
  \* socket pair
  sock, wire,     \* packets to the worker, EORs from it
  \* worker process
  ch,             \* reader goroutine -> command loop
  cur,            \* the command being processed
  sighup,         \* recover signals not handled yet
  cpRqId          \* cp.rqId

muxVars == <<at, client, packets, rqId, isUnderRecovery>>
workerVars == <<ch, cur, sighup, cpRqId>>
vars == <<muxVars, outCh, sock, wire, workerVars>>

-----------------------------------------------------------------------------
(* Data                                                                    *)

\* The commands that the worker answers when the database does, those it never
\* answers, and those it dies of: see ProcessCmd.
Answered == {"COM_QUERY", "COM_INIT_DB"}
Silent == {"COM_STMT_EXECUTE"}
Fatal == {"COM_STMT_PREPARE"}
Packets == Answered \cup Silent \cup Fatal

\* The rollback recoverworker makes up; no client wrote it.
Hup == "CmdRollback"
NoCmd == "none"

Messages == [code : {"Free", "More"}, id : 0 .. RqIdMod - 1]

-----------------------------------------------------------------------------
(* Initial state, and the state after the process was replaced              *)

FreshWorker ==
  /\ rqId' = 0 /\ isUnderRecovery' = FALSE
  /\ outCh' = <<>> /\ sock' = <<>> /\ wire' = <<>>
  /\ ch' = <<>> /\ cur' = NoCmd /\ sighup' = 0 /\ cpRqId' = 0

Init ==
  /\ at = "none" /\ client = 0 /\ packets = 0
  /\ rqId = Served /\ isUnderRecovery = FALSE
  /\ outCh = <<>> /\ sock = <<>> /\ wire = <<>>
  /\ ch = <<>> /\ cur = NoCmd /\ sighup = 0 /\ cpRqId = Served

-----------------------------------------------------------------------------
(* Multiplexer                                                             *)

\* WorkerClient.Write
WriteUncounted(p) ==                                              \* mutant
  /\ packets < MaxPackets /\ packets' = packets + 1
  /\ sock' = Append(sock, p) /\ UNCHANGED rqId
Write(p) ==
  /\ packets < MaxPackets /\ packets' = packets + 1
  /\ sock' = Append(sock, p)
  /\ rqId' = (rqId + 1) % RqIdMod

\* dispatchRequest: GetWorker hands the worker out and drains what is in outCh.
\* No correlation id is prepended for MySQL.
Dispatch(p) ==
  /\ at = "none" /\ client < MaxClients
  /\ client' = client + 1 /\ at' = "request"
  /\ outCh' = <<>>
  /\ Write(p)
  /\ UNCHANGED <<isUnderRecovery, wire, workerVars>>

\* doRequest forwards whatever the client sends before the EOR.
Forward(p) ==
  /\ at = "request"
  /\ Write(p)
  /\ UNCHANGED <<at, client, isUnderRecovery, outCh, wire, workerVars>>

\* The client goes away, is idle for too long or is hit by saturation recovery:
\* Recover sends SIGHUP, unless an earlier recovery has not reset its flag yet;
\* then it returns at once, and the worker stays checked out.  The worker's
\* signal channel holds one signal, its goroutine another; the rest is dropped.
Signalled(n) == IF n < 2 THEN n + 1 ELSE n

Abandon ==
  /\ at = "request"
  /\ \/ /\ ~isUnderRecovery /\ isUnderRecovery' = TRUE
        /\ at' = "recover" /\ sighup' = Signalled(sighup)
     \/ isUnderRecovery /\ at' = "lost" /\ UNCHANGED <<isUnderRecovery, sighup>>
  /\ UNCHANGED <<client, packets, rqId, outCh, sock, wire, ch, cur, cpRqId>>

\* ReturnWorker drains what is left in outCh.
Returned == at' = "none" /\ outCh' = <<>>

\* doRequest is done with the first EOR free, whatever its id (it only warns).
Receive ==
  /\ at = "request" /\ outCh # <<>>
  /\ Returned
  /\ UNCHANGED <<client, packets, rqId, isUnderRecovery, sock, wire, workerVars>>

\* Recover waits for an EOR free that carries the count of the multiplexer.
AnyFree(msg) == msg.code = "Free"                                 \* mutant
Recovered(msg) == msg.code = "Free" /\ msg.id = rqId

RecoverReceive ==
  /\ at = "recover" /\ outCh # <<>>
  /\ IF Recovered(Head(outCh)) THEN Returned
     ELSE at' = at /\ outCh' = Tail(outCh)
  /\ UNCHANGED <<client, packets, rqId, isUnderRecovery, sock, wire, workerVars>>

\* The deferred reset of the flag, after ReturnWorker.
RecoverEnd ==
  /\ at # "recover" /\ isUnderRecovery
  /\ isUnderRecovery' = FALSE
  /\ UNCHANGED <<at, client, packets, rqId, outCh, sock, wire, workerVars>>

\* doRead: NewNetstring reads through a buffer of its own, which takes n EORs
\* from the socket, and the call returns the first of them; the others are lost.
\* The payload of an EOR with more requests waiting is kept for the next one.
\* (A buffer that ends inside an EOR makes the next read fail: Recycle.)
doRead ==
  \E n \in 1 .. Len(wire) :
    /\ wire' = SubSeq(wire, n + 1, Len(wire))
    /\ outCh' = IF Head(wire).code = "More" THEN outCh ELSE Append(outCh, Head(wire))
    /\ UNCHANGED <<muxVars, sock, workerVars>>

\* The process exits (an error, a panic, a failed heartbeat, SIGTERM after the
\* recovery timeout): its session ends and a new process takes its place.
Recycle ==
  /\ at' = "none"
  /\ FreshWorker
  /\ UNCHANGED <<client, packets>>

-----------------------------------------------------------------------------
(* Worker process                                                          *)

\* readNextNetstring: NewMySQLPacket reads from the socket without a buffer.
ReadNext ==
  /\ sock # <<>> /\ Len(ch) < ChanCap
  /\ ch' = Append(ch, Head(sock)) /\ sock' = Tail(sock)
  /\ UNCHANGED <<muxVars, outCh, wire, cur, sighup, cpRqId>>

\* runworker takes the next command.
Take ==
  /\ cur = NoCmd /\ ch # <<>>
  /\ cur' = Head(ch) /\ ch' = Tail(ch)
  /\ cpRqId' = (cpRqId + 1) % RqIdMod
  /\ UNCHANGED <<muxVars, outCh, sock, wire, sighup>>

\* runworker takes the signal: recoverworker drains the channel, which the
\* reader may refill n times meanwhile, and rolls back.
DrainUncounted(n) == cpRqId                                       \* mutant
Drained(n) == (cpRqId + Len(ch) + n) % RqIdMod

TakeSignal ==
  /\ cur = NoCmd /\ sighup > 0
  /\ sighup' = sighup - 1
  /\ \E n \in 0 .. Len(sock) :
       /\ sock' = SubSeq(sock, n + 1, Len(sock))
       /\ cpRqId' = Drained(n)
  /\ ch' = <<>> /\ cur' = Hup
  /\ UNCHANGED <<muxVars, outCh, wire>>

\* eor: a worker that would be free is not while commands are in its channel.
eor == [code |-> IF ch # <<>> THEN "More" ELSE "Free", id |-> cpRqId]

\* ProcessCmd.  A query goes to db.Exec, never within a transaction, since only a
\* prepare sets hasResult or begins one; it is answered with an OK packet, or the
\* worker dies of the error (calExecErr on the nil calExecTxn).
Query == cur = "COM_QUERY" /\ wire' = Append(wire, eor)

\* Answered with an OK or with an ERR packet.
InitDb == cur = "COM_INIT_DB" /\ wire' = Append(wire, eor)

\* No statement was ever prepared, so there is nothing to execute, to fetch from
\* or to send data to, and no answer; other commands have no case.  (Closing a
\* statement that is not there is a nil dereference: Recycle.)
Execute == cur \in Silent /\ UNCHANGED wire

\* The rollback of recoverworker, without a transaction.
Rollback == cur = Hup /\ wire' = Append(wire, eor)

\* A prepare is never done: its count of parameters is put into stmtParams, a
\* map that nobody makes, and the worker dies of it: Recycle.
ProcessCmd ==
  /\ Query \/ InitDb \/ Execute \/ Rollback
  /\ cur' = NoCmd
  /\ UNCHANGED <<muxVars, outCh, sock, ch, sighup, cpRqId>>

-----------------------------------------------------------------------------

Next ==
  \/ \E p \in Packets : Dispatch(p) \/ Forward(p)
  \/ Abandon \/ Receive \/ RecoverReceive \/ RecoverEnd \/ doRead \/ Recycle
  \/ ReadNext \/ Take \/ TakeSignal \/ ProcessCmd

Spec == Init /\ [][Next]_vars

-----------------------------------------------------------------------------
(* Properties                                                              *)

\* The two counters of packets never drift apart: whatever is drained,
\* interrupted, forwarded or lost, they differ by what the worker has yet to
\* take.  A drift would make every later recovery end in the kill of the worker.
RqIdExact == rqId = (cpRqId + Len(ch) + Len(sock)) % RqIdMod

\* An EOR that carries the multiplexer's count proves that the worker has taken
\* everything that was written to it: the test of Recover (and the warning
\* crqId of doRequest) means what it is used for.
EqualIdMeansAllTaken ==
  \A q \in {wire, outCh} : \A i \in 1 .. Len(q) :
    q[i].id = rqId => sock = <<>> /\ ch = <<>> /\ cur \in {NoCmd, Hup}

\* A worker that Recover gives back does nothing for the client that left: no
\* command of it is unread or running, whichever EORs were lost or late.
RecoveredClean ==
  [][at = "recover" /\ at' = "none" =>
       sock' = <<>> /\ ch' = <<>> /\ cur' \in {NoCmd, Hup}]_vars
=============================================================================
