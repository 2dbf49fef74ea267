---------------------------- MODULE SessionProofs ---------------------------
(***************************************************************************)
(* Theorems about the sessions on a worker, for every value of the         *)
(* constants. WorkerSession: the counters of packets agree, an EOR with    *)
(* an equal count means that all is taken, and recovery leaves nothing     *)
(* behind. Saturation: when the pool is full the oldest request is aborted,*)
(* once, and never a worker in the pool.                                   *)
(***************************************************************************)
EXTENDS WorkerSession, Saturation, TLAPS

\* What is on its way to the command loop: the packets not yet taken.
Untaken == Len(ch) + Len(sock)

CountTypes ==
  /\ rqId \in 0 .. RqIdMod - 1 /\ cpRqId \in 0 .. RqIdMod - 1
  /\ sock \in Seq(Packets) /\ ch \in Seq(Packets)
  /\ packets \in 0 .. MaxPackets

\* Less than a cycle of the counter is on its way, and the multiplexer's counter
\* is ahead by just that: without the remainder of a division, once around or not.
Ahead == rqId = cpRqId + Untaken \/ rqId = cpRqId + Untaken - RqIdMod
CountInv == CountTypes /\ Untaken <= packets /\ Ahead

\* A remainder without a division, for a sum of less than two cycles.
LEMMA Wrap ==
  ASSUME NEW m \in Nat \ {0}, NEW a \in 0 .. m - 1, NEW b \in 0 .. m - 1
  PROVE  (a + b) % m = IF a + b < m THEN a + b ELSE a + b - m
OBVIOUS

\* The lengths of what the steps append and take.
LEMMA Lengths ==
  ASSUME NEW S, NEW q \in Seq(S)
  PROVE  /\ Len(q) \in Nat
         /\ \A e \in S : Append(q, e) \in Seq(S) /\ Len(Append(q, e)) = Len(q) + 1
         /\ q # <<>> => Head(q) \in S /\ Tail(q) \in Seq(S) /\ Len(q) >= 1 /\ Len(Tail(q)) = Len(q) - 1
         /\ \A n \in 0 .. Len(q) :
              SubSeq(q, n + 1, Len(q)) \in Seq(S) /\ Len(SubSeq(q, n + 1, Len(q))) = Len(q) - n
OBVIOUS

\* The numbers of the invariant, without the sequences.
Numbers ==
  /\ rqId \in 0 .. RqIdMod - 1 /\ cpRqId \in 0 .. RqIdMod - 1
  /\ packets \in 0 .. MaxPackets
  /\ Untaken \in Nat /\ Untaken <= packets /\ Ahead

\* The invariant is made of the numbers and the types of the sequences.
LEMMA CountInvParts == CountInv <=> Numbers /\ sock \in Seq(Packets) /\ ch \in Seq(Packets)
<1>1. sock \in Seq(Packets) /\ ch \in Seq(Packets) => Untaken \in Nat
  BY Lengths DEF Untaken
<1>2. QED
  BY <1>1, Zenon DEF CountInv, CountTypes, Numbers

\* WorkerClient.Write adds a packet to what is on its way.
LEMMA WriteUntaken ==
  ASSUME CountInv, NEW p \in Packets, Write(p), UNCHANGED ch
  PROVE  /\ packets < MaxPackets /\ packets' = packets + 1 /\ rqId' = (rqId + 1) % RqIdMod
         /\ sock' \in Seq(Packets) /\ Untaken' = Untaken + 1
<1>1. sock \in Seq(Packets) /\ ch \in Seq(Packets)
  BY CountInvParts, Zenon
<1>2. /\ packets < MaxPackets /\ packets' = packets + 1 /\ rqId' = (rqId + 1) % RqIdMod
      /\ sock' = Append(sock, p) /\ ch' = ch
  BY Zenon DEF Write
<1>3. /\ sock' \in Seq(Packets) /\ Len(sock') = Len(sock) + 1
      /\ Len(ch) \in Nat /\ Len(sock) \in Nat
  BY <1>1, <1>2, Lengths, Zenon
<1>4. Untaken' = Untaken + 1
  BY <1>2, <1>3 DEF Untaken
<1>5. QED
  BY <1>2, <1>3, <1>4, Zenon

\* The counter of the multiplexer moves by one, the other stays.
LEMMA WriteCounts ==
  ASSUME CountInv, NEW p \in Packets, Write(p), UNCHANGED <<ch, cpRqId>>
  PROVE  CountInv'
<1>1. UNCHANGED ch /\ UNCHANGED cpRqId
  BY Zenon
<1>2. packets < MaxPackets /\ packets' = packets + 1 /\ rqId' = (rqId + 1) % RqIdMod
  BY <1>1, WriteUntaken, Zenon
<1>3. sock' \in Seq(Packets) /\ Untaken' = Untaken + 1
  BY <1>1, WriteUntaken, Zenon
<1>4. /\ RqIdMod \in Nat \ {0} /\ rqId \in 0 .. RqIdMod - 1 /\ cpRqId \in 0 .. RqIdMod - 1
      /\ packets \in 0 .. MaxPackets /\ MaxPackets \in Nat /\ MaxPackets < RqIdMod
      /\ Untaken \in Nat /\ Untaken <= packets /\ ch \in Seq(Packets)
      /\ rqId = cpRqId + Untaken \/ rqId = cpRqId + Untaken - RqIdMod
  BY CountInvParts, SessionAssumption, Zenon DEF Numbers, Ahead
<1>5. Untaken + 1 < RqIdMod /\ 1 \in 0 .. RqIdMod - 1
  BY <1>2, <1>4
<1>6. (rqId + 1) % RqIdMod = IF rqId + 1 < RqIdMod THEN rqId + 1 ELSE rqId + 1 - RqIdMod
  BY <1>4, <1>5, Wrap, Zenon
<1>7. rqId' = IF rqId + 1 < RqIdMod THEN rqId + 1 ELSE rqId + 1 - RqIdMod
  BY <1>2, <1>6, Zenon
<1>8. /\ rqId' \in 0 .. RqIdMod - 1
      /\ rqId' = cpRqId + (Untaken + 1) \/ rqId' = cpRqId + (Untaken + 1) - RqIdMod
  BY <1>4, <1>5, <1>7
<1>9. packets' \in 0 .. MaxPackets /\ Untaken' <= packets'
  BY <1>2, <1>3, <1>4
<1>10. QED
  BY <1>1, <1>3, <1>4, <1>8, <1>9, Zenon DEF CountInv, CountTypes, Ahead

\* The counter of the worker moves by n.
Counted(n) == cpRqId' = (cpRqId + n) % RqIdMod

\* The worker's counter follows what it takes or drains.
LEMMA TakenCounts ==
  ASSUME CountInv, NEW n \in Nat, n <= Untaken,
         Counted(n), UNCHANGED <<rqId, packets>>,
         ch' \in Seq(Packets), sock' \in Seq(Packets), Untaken' = Untaken - n
  PROVE  CountInv'
<1>1. /\ RqIdMod \in Nat \ {0} /\ rqId \in 0 .. RqIdMod - 1 /\ cpRqId \in 0 .. RqIdMod - 1
      /\ packets \in 0 .. MaxPackets /\ MaxPackets \in Nat /\ MaxPackets < RqIdMod
      /\ Untaken \in Nat /\ Untaken <= packets
      /\ rqId = cpRqId + Untaken \/ rqId = cpRqId + Untaken - RqIdMod
  BY CountInvParts, SessionAssumption, Zenon DEF Numbers, Ahead
<1>2. n \in 0 .. RqIdMod - 1
  BY <1>1
<1>3. (cpRqId + n) % RqIdMod = IF cpRqId + n < RqIdMod THEN cpRqId + n ELSE cpRqId + n - RqIdMod
  BY <1>1, <1>2, Wrap, Zenon
<1>4. cpRqId' = IF cpRqId + n < RqIdMod THEN cpRqId + n ELSE cpRqId + n - RqIdMod
  BY <1>3, Zenon DEF Counted
<1>5. /\ cpRqId' \in 0 .. RqIdMod - 1
      /\ rqId = cpRqId' + (Untaken - n) \/ rqId = cpRqId' + (Untaken - n) - RqIdMod
  BY <1>1, <1>2, <1>4
<1>6. rqId' = rqId /\ packets' = packets
  BY Zenon
<1>7. Untaken' <= packets
  BY <1>1
<1>8. QED
  BY <1>1, <1>5, <1>6, <1>7, Zenon DEF CountInv, CountTypes, Ahead

\* Every step keeps the counters in step.
LEMMA NextCountInv == CountInv /\ [Next]_vars => CountInv'
<1> SUFFICES ASSUME CountInv, [Next]_vars PROVE CountInv'
  BY Zenon
<1>0. sock \in Seq(Packets) /\ ch \in Seq(Packets) /\ Len(ch) \in Nat /\ Len(sock) \in Nat
  BY Lengths, Zenon DEF CountInv, CountTypes
<1>1. ASSUME NEW p \in Packets, Dispatch(p) \/ Forward(p) PROVE CountInv'
  BY <1>1, WriteCounts, Zenon DEF Dispatch, Forward, workerVars
<1>2. CASE UNCHANGED <<rqId, cpRqId, sock, ch, packets>>
  BY <1>2, Zenon DEF CountInv, CountTypes, Ahead, Untaken
<1>3. CASE Abandon \/ Receive \/ RecoverReceive \/ RecoverEnd \/ doRead \/ ProcessCmd \/ UNCHANGED vars
  BY <1>2, <1>3, Zenon
  DEF Abandon, Receive, RecoverReceive, RecoverEnd, doRead, ProcessCmd, vars, muxVars, workerVars
<1>4. CASE Recycle
  <2>1. rqId' = 0 /\ cpRqId' = 0 /\ sock' = <<>> /\ ch' = <<>> /\ packets' = packets
    BY <1>4, Zenon DEF Recycle, FreshWorker
  <2>2. <<>> \in Seq(Packets) /\ Len(<<>>) = 0
    OBVIOUS
  <2>3. QED
    BY <2>1, <2>2, SessionAssumption DEF CountInv, CountTypes, Ahead, Untaken
<1>5. CASE ReadNext
  <2>1. /\ ch' = Append(ch, Head(sock)) /\ sock' = Tail(sock) /\ sock # <<>>
        /\ UNCHANGED <<rqId, cpRqId, packets>>
    BY <1>5, Zenon DEF ReadNext, muxVars
  <2>2. /\ ch' \in Seq(Packets) /\ sock' \in Seq(Packets)
        /\ Len(ch') = Len(ch) + 1 /\ Len(sock') = Len(sock) - 1
    BY <1>0, <2>1, Lengths
  <2>3. Untaken' = Untaken
    BY <1>0, <2>2 DEF Untaken
  <2>4. QED
    BY <2>1, <2>2, <2>3, Zenon DEF CountInv, CountTypes, Ahead
<1>6. CASE Take
  <2>1. /\ ch # <<>> /\ ch' = Tail(ch) /\ cpRqId' = (cpRqId + 1) % RqIdMod
        /\ UNCHANGED <<sock, rqId, packets>>
    BY <1>6, Zenon DEF Take, muxVars
  <2>2. ch' \in Seq(Packets) /\ Len(ch) >= 1 /\ Len(ch') = Len(ch) - 1
    BY <1>0, <2>1, Lengths, Zenon
  <2>3. 1 <= Untaken /\ Untaken' = Untaken - 1
    BY <1>0, <2>1, <2>2 DEF Untaken
  <2>4. Counted(1)
    BY <2>1, Zenon DEF Counted
  <2>5. QED
    BY <1>0, <2>1, <2>2, <2>3, <2>4, TakenCounts, Zenon
<1>7. CASE TakeSignal
  <2>1. PICK n \in 0 .. Len(sock) :
          /\ sock' = SubSeq(sock, n + 1, Len(sock))
          /\ cpRqId' = (cpRqId + Len(ch) + n) % RqIdMod
    BY <1>7, Zenon DEF TakeSignal, Drained
  <2>2. ch' = <<>> /\ UNCHANGED <<rqId, packets>>
    BY <1>7, Zenon DEF TakeSignal, muxVars
  <2>3. sock' \in Seq(Packets) /\ Len(sock') = Len(sock) - n
    BY <1>0, <2>1, Lengths, Zenon
  <2>4. ch' \in Seq(Packets) /\ Len(ch') = 0
    BY <2>2
  <2>5. Len(ch) + n \in Nat /\ Len(ch) + n <= Untaken /\ Untaken' = Untaken - (Len(ch) + n)
    BY <1>0, <2>3, <2>4 DEF Untaken
  <2>6. Counted(Len(ch) + n)
    BY <1>0, <2>1, SessionAssumption DEF CountInv, CountTypes, Counted
  <2>7. QED
    BY <2>2, <2>3, <2>4, <2>5, <2>6, TakenCounts, Zenon
<1>8. QED
  BY <1>1, <1>3, <1>4, <1>5, <1>6, <1>7, Zenon DEF Next

\* The counters are in step in every reachable state.
LEMMA SpecCountInv == Spec => []CountInv
<1>1. Init => CountInv
  <2>1. <<>> \in Seq(Packets) /\ Len(<<>>) = 0
    OBVIOUS
  <2>2. QED
    BY <2>1, SessionAssumption DEF Init, CountInv, CountTypes, Ahead, Untaken
<1>2. QED
  BY <1>1, NextCountInv, PTL DEF Spec

\* Whatever is written, taken, drained or interrupted, the multiplexer's rqId and
\* the worker's cp.rqId differ by what is on its way (WorkerClient.Write,
\* runworker, recoverworker).
THEOREM CountersAgree == Spec => []RqIdExact
<1>1. CountInv => RqIdExact
  <2> SUFFICES ASSUME CountInv PROVE rqId = (cpRqId + Len(ch) + Len(sock)) % RqIdMod
    BY Zenon DEF RqIdExact
  <2>1. Numbers /\ Len(ch) \in Nat /\ Len(sock) \in Nat
    BY CountInvParts, Lengths, Zenon
  <2>2. cpRqId + Len(ch) + Len(sock) = cpRqId + Untaken
    BY <2>1, SessionAssumption DEF Untaken, Numbers
  <2>3. Untaken \in 0 .. RqIdMod - 1 /\ cpRqId \in 0 .. RqIdMod - 1 /\ RqIdMod \in Nat \ {0}
    BY <2>1, SessionAssumption DEF Numbers
  <2>4. (cpRqId + Untaken) % RqIdMod =
          IF cpRqId + Untaken < RqIdMod THEN cpRqId + Untaken ELSE cpRqId + Untaken - RqIdMod
    BY <2>3, Wrap, Zenon
  <2>5. rqId \in 0 .. RqIdMod - 1 /\ (rqId = cpRqId + Untaken \/ rqId = cpRqId + Untaken - RqIdMod)
    BY <2>1, Zenon DEF Numbers, Ahead
  <2>6. QED
    BY <2>2, <2>3, <2>4, <2>5
<1>2. QED
  BY <1>1, SpecCountInv, PTL

-----------------------------------------------------------------------------
(* What an EOR on its way to the multiplexer still says                     *)

\* 1 while the worker is on a command of a client.
Busy == IF cur \in {NoCmd, Hup} THEN 0 ELSE 1

\* The multiplexer's counter is d ahead of the one message m carries: d covers
\* what the worker has yet to take and the command it is on.
Lag(m, d) ==
  /\ d \in Nat /\ d <= packets
  /\ d >= Untaken + Busy
  /\ rqId = m.id + d \/ rqId = m.id + d - RqIdMod

Sound == {m \in Messages : \E d \in Nat : Lag(m, d)}
EorInv == wire \in Seq(Sound) /\ outCh \in Seq(Sound)

\* A sequence over a set is one over a larger set.
LEMMA SeqOver ==
  ASSUME NEW S, NEW T, S \subseteq T, NEW q \in Seq(S) PROVE q \in Seq(T)
OBVIOUS

\* A packet written adds one to the lag of every message.
LEMMA WriteLag ==
  ASSUME CountInv, packets < MaxPackets, packets' = packets + 1, rqId' = (rqId + 1) % RqIdMod,
         Untaken' = Untaken + 1, UNCHANGED cur
  PROVE  Sound \subseteq Sound'
<1> SUFFICES ASSUME NEW m \in Messages, NEW d \in Nat, Lag(m, d) PROVE Lag(m, d + 1)' /\ d + 1 \in Nat
  BY Zenon DEF Sound, Messages
<1>1. /\ RqIdMod \in Nat \ {0} /\ rqId \in 0 .. RqIdMod - 1 /\ m.id \in 0 .. RqIdMod - 1
      /\ packets \in 0 .. MaxPackets /\ MaxPackets \in Nat /\ MaxPackets < RqIdMod
      /\ Untaken \in Nat
  BY CountInvParts, SessionAssumption, Zenon DEF Numbers, Messages
<1>2. 1 \in 0 .. RqIdMod - 1 /\ d + 1 < RqIdMod
  BY <1>1 DEF Lag
<1>3. (rqId + 1) % RqIdMod = IF rqId + 1 < RqIdMod THEN rqId + 1 ELSE rqId + 1 - RqIdMod
  BY <1>1, <1>2, Wrap, Zenon
<1>4. rqId' = IF rqId + 1 < RqIdMod THEN rqId + 1 ELSE rqId + 1 - RqIdMod
  BY <1>3, Zenon
<1>5. rqId = m.id + d \/ rqId = m.id + d - RqIdMod
  BY Zenon DEF Lag
<1>6. rqId' = m.id + (d + 1) \/ rqId' = m.id + (d + 1) - RqIdMod
  BY ONLY <1>1, <1>2, <1>4, <1>5, d \in Nat
<1>7. Busy \in {0, 1} /\ Busy' = Busy
  BY Zenon DEF Busy
<1>8. QED
  BY <1>1, <1>6, <1>7 DEF Lag

\* So does nothing else: the lag of a message stays, and still covers what is left.
LEMMA OtherLag ==
  ASSUME CountInv, CountInv', UNCHANGED <<rqId, packets>>, Untaken' + Busy' <= Untaken + Busy
  PROVE  Sound \subseteq Sound'
<1> SUFFICES ASSUME NEW m \in Messages, NEW d \in Nat, Lag(m, d) PROVE Lag(m, d)'
  BY Zenon DEF Sound, Messages
<1>1. Numbers /\ Numbers'
  BY CountInvParts, PTL
<1>2. Untaken \in Nat /\ Untaken' \in Nat
  BY <1>1, Zenon DEF Numbers
<1>3. Busy \in Nat /\ Busy' \in Nat
  BY Zenon DEF Busy
<1>4. d >= Untaken' + Busy'
  <2>1. \A u, v, b, c \in Nat : v + c <= u + b /\ d >= u + b => d >= v + c
    OBVIOUS
  <2>2. QED
    BY <1>2, <1>3, <2>1, Zenon DEF Lag
<1>5. /\ d <= packets
      /\ rqId = m.id + d \/ rqId = m.id + d - RqIdMod
  BY Zenon DEF Lag
<1>6. d <= packets' /\ (rqId' = m.id + d \/ rqId' = m.id + d - RqIdMod)
  BY <1>5, Zenon
<1>7. QED
  BY <1>4, <1>6, Zenon DEF Lag

\* An EOR the worker sends at the end of a command lags by what is on its way.
LEMMA NewEor ==
  ASSUME CountInv, CountInv', cur' = NoCmd, UNCHANGED cpRqId, NEW code \in {"Free", "More"}
  PROVE  [code |-> code, id |-> cpRqId] \in Sound'
<1> DEFINE m == [code |-> code, id |-> cpRqId]
<1>1. Numbers'
  BY CountInvParts, PTL
<1>2. m \in Messages /\ m.id = cpRqId'
  BY <1>1, Zenon DEF Messages, Numbers
<1>3. Busy' \in Nat /\ Busy' = 0
  BY Zenon DEF Busy
<1>4. /\ Untaken' \in Nat /\ Untaken' <= packets'
      /\ rqId' = m.id + Untaken' \/ rqId' = m.id + Untaken' - RqIdMod
  BY <1>1, <1>2, Zenon DEF Numbers, Ahead
<1>5. Untaken' >= Untaken' + Busy'
  <2>1. \A u, b \in Nat : b = 0 => u >= u + b
    OBVIOUS
  <2>2. QED
    BY <1>3, <1>4, <2>1, Zenon
<1>6. Lag(m, Untaken)'
  BY <1>2, <1>4, <1>5, Zenon DEF Lag
<1>7. QED
  BY <1>2, <1>4, <1>6, Zenon DEF Sound, Messages

\* What the steps do to the messages on their way: nothing but move, drop and
\* append.
LEMMA QueueSteps ==
  ASSUME EorInv, Sound \subseteq Sound'
  PROVE  /\ wire \in Seq(Sound') /\ outCh \in Seq(Sound') /\ <<>> \in Seq(Sound')
         /\ outCh # <<>> => Tail(outCh) \in Seq(Sound')
         /\ \A n \in 1 .. Len(wire) :
              SubSeq(wire, n + 1, Len(wire)) \in Seq(Sound') /\ Append(outCh, Head(wire)) \in Seq(Sound')
         /\ \A m \in Sound' : Append(wire, m) \in Seq(Sound')
<1> DEFINE S == Sound'
<1>1. wire \in Seq(S) /\ outCh \in Seq(S)
  BY SeqOver, Zenon DEF EorInv
<1> HIDE DEF S
<1>2. /\ <<>> \in Seq(S)
      /\ outCh # <<>> => Tail(outCh) \in Seq(S)
      /\ wire # <<>> => Append(outCh, Head(wire)) \in Seq(S)
      /\ \A m \in S : Append(wire, m) \in Seq(S)
  BY <1>1, Lengths
<1>3. \A n \in 1 .. Len(wire) : wire # <<>> /\ n \in 0 .. Len(wire)
  BY <1>1
<1>4. \A n \in 0 .. Len(wire) : SubSeq(wire, n + 1, Len(wire)) \in Seq(S)
  BY <1>1, Lengths, Zenon
<1>5. QED
  BY <1>1, <1>2, <1>3, <1>4, Zenon DEF S

\* A step of doRequest, Recover or doRead that writes nothing.
LEMMA ReceiveEorInv ==
  ASSUME CountInv, CountInv', EorInv,
         Abandon \/ Receive \/ RecoverReceive \/ RecoverEnd \/ doRead \/ UNCHANGED vars
  PROVE  EorInv'
<1>1. UNCHANGED <<rqId, packets, sock, ch, cur>>
  BY Zenon DEF Abandon, Receive, RecoverReceive, RecoverEnd, doRead, vars, muxVars, workerVars
<1>2. Untaken' + Busy' <= Untaken + Busy
  <2>1. Untaken' = Untaken /\ Busy' = Busy
    BY <1>1, Zenon DEF Untaken, Busy
  <2>2. Untaken \in Nat /\ Busy \in Nat
    BY CountInvParts, Zenon DEF Numbers, Busy
  <2>3. \A u, b \in Nat : u + b <= u + b
    OBVIOUS
  <2>4. QED
    BY <2>1, <2>2, <2>3, Zenon
<1>3. Sound \subseteq Sound'
  BY <1>1, <1>2, OtherLag, Zenon
<1>4. /\ wire' = wire \/ \E n \in 1 .. Len(wire) : wire' = SubSeq(wire, n + 1, Len(wire))
      /\ \/ outCh' = outCh \/ outCh' = <<>> \/ (outCh # <<>> /\ outCh' = Tail(outCh))
         \/ \E n \in 1 .. Len(wire) : outCh' = Append(outCh, Head(wire))
  BY Zenon DEF Abandon, Receive, RecoverReceive, RecoverEnd, Returned, doRead, vars
<1>5. QED
  BY <1>3, <1>4, QueueSteps, Zenon DEF EorInv

\* A step of the worker's reader or command loop that takes commands.
LEMMA TakeEorInv ==
  ASSUME CountInv, CountInv', EorInv, ReadNext \/ Take \/ TakeSignal
  PROVE  EorInv'
<1>1. UNCHANGED <<rqId, packets, wire, outCh>>
  BY Zenon DEF ReadNext, Take, TakeSignal, muxVars
<1>2. sock \in Seq(Packets) /\ ch \in Seq(Packets) /\ Len(ch) \in Nat /\ Len(sock) \in Nat
  BY CountInvParts, Lengths, Zenon
<1>3. Untaken' + Busy' <= Untaken + Busy
  <2>1. CASE ReadNext
    <3>1. Len(ch') = Len(ch) + 1 /\ Len(sock') = Len(sock) - 1 /\ cur' = cur
      BY <1>2, <2>1, Lengths DEF ReadNext
    <3>2. QED
      BY <1>2, <3>1 DEF Untaken, Busy
  <2>2. CASE Take
    <3>1. Len(ch') = Len(ch) - 1 /\ sock' = sock /\ cur = NoCmd
      BY <1>2, <2>2, Lengths, Zenon DEF Take
    <3>2. QED
      BY <1>2, <3>1 DEF Untaken, Busy
  <2>3. CASE TakeSignal
    <3>1. PICK n \in 0 .. Len(sock) : sock' = SubSeq(sock, n + 1, Len(sock))
      BY <2>3, Zenon DEF TakeSignal
    <3>2. Len(sock') <= Len(sock) /\ Len(sock') \in Nat
      BY <1>2, <3>1, Lengths
    <3>3. Len(ch') = 0 /\ cur = NoCmd /\ cur' = Hup
      BY <2>3, Zenon DEF TakeSignal
    <3>4. QED
      BY <1>2, <3>2, <3>3 DEF Untaken, Busy
  <2>4. QED
    BY <2>1, <2>2, <2>3, Zenon
<1>4. QED
  BY <1>1, <1>3, OtherLag, QueueSteps, Zenon DEF EorInv

\* ProcessCmd ends a command and sends at most one EOR, with the worker's count.
LEMMA ProcessEorInv ==
  ASSUME CountInv, CountInv', EorInv, ProcessCmd
  PROVE  EorInv'
<1>1. UNCHANGED <<rqId, packets, sock, ch, cpRqId, outCh>> /\ cur' = NoCmd
  BY Zenon DEF ProcessCmd, muxVars
<1>2. Untaken' + Busy' <= Untaken + Busy
  <2>1. Untaken' = Untaken /\ Busy' = 0
    BY <1>1, Zenon DEF Untaken, Busy
  <2>2. Untaken \in Nat /\ Busy \in Nat
    BY CountInvParts, Zenon DEF Numbers, Busy
  <2>3. \A u, b \in Nat : u + 0 <= u + b
    OBVIOUS
  <2>4. QED
    BY <2>1, <2>2, <2>3, Zenon
<1>3. Sound \subseteq Sound'
  BY <1>1, <1>2, OtherLag, Zenon
<1>4. eor \in Sound'
  <2>1. PICK k \in {"Free", "More"} : eor = [code |-> k, id |-> cpRqId]
    BY Zenon DEF eor
  <2>2. UNCHANGED cpRqId
    BY <1>1, Zenon
  <2>3. QED
    BY <1>1, <2>1, <2>2, NewEor, Zenon
<1>5. wire' = wire \/ wire' = Append(wire, eor)
  BY Zenon DEF ProcessCmd, Query, InitDb, Execute, Rollback
<1>6. QED
  BY <1>1, <1>3, <1>4, <1>5, QueueSteps, Zenon DEF EorInv

\* Every step keeps what the messages on their way say.
LEMMA NextEorInv == CountInv /\ CountInv' /\ EorInv /\ [Next]_vars => EorInv'
<1> SUFFICES ASSUME CountInv, CountInv', EorInv, [Next]_vars PROVE EorInv'
  BY Zenon
<1>1. ASSUME NEW p \in Packets, Dispatch(p) \/ Forward(p) PROVE EorInv'
  <2>1. /\ Write(p) /\ UNCHANGED ch /\ UNCHANGED cur /\ UNCHANGED wire
        /\ outCh' = outCh \/ outCh' = <<>>
    BY <1>1, Zenon DEF Dispatch, Forward, workerVars
  <2>2. Sound \subseteq Sound'
    <3>1. /\ packets < MaxPackets /\ packets' = packets + 1 /\ rqId' = (rqId + 1) % RqIdMod
          /\ Untaken' = Untaken + 1
      BY <2>1, WriteUntaken, Zenon
    <3>2. QED
      BY <2>1, <3>1, WriteLag, Zenon
  <2>3. QED
    BY <2>1, <2>2, QueueSteps, Zenon DEF EorInv
<1>2. CASE Recycle
  BY <1>2 DEF Recycle, FreshWorker, EorInv
<1>3. QED
  BY <1>1, <1>2, ReceiveEorInv, TakeEorInv, ProcessEorInv, Zenon DEF Next

\* The lag of a message that carries the multiplexer's count is 0.
LEMMA NoLag ==
  ASSUME CountInv, NEW m \in Sound, m.id = rqId
  PROVE  sock = <<>> /\ ch = <<>> /\ cur \in {NoCmd, Hup}
<1>1. PICK d \in Nat : m \in Messages /\ Lag(m, d)
  BY Zenon DEF Sound
<1>2. /\ RqIdMod \in Nat \ {0} /\ rqId \in 0 .. RqIdMod - 1
      /\ packets \in 0 .. MaxPackets /\ MaxPackets \in Nat /\ MaxPackets < RqIdMod
      /\ Untaken \in Nat
  BY CountInvParts, SessionAssumption, Zenon DEF Numbers
<1>3. Busy \in Nat
  BY Zenon DEF Busy
<1>4. d = 0 /\ Untaken = 0 /\ Busy = 0
  BY <1>1, <1>2, <1>3 DEF Lag
<1>5. sock \in Seq(Packets) /\ ch \in Seq(Packets) /\ Len(sock) = 0 /\ Len(ch) = 0
  BY <1>4, CountInvParts, Lengths DEF Untaken
<1>6. QED
  BY <1>4, <1>5 DEF Busy

\* What is on its way is sound in every reachable state.
LEMMA SpecEorInv == Spec => [](CountInv /\ EorInv)
<1>1. Init => EorInv
  BY DEF Init, EorInv
<1>2. QED
  BY <1>1, SpecCountInv, NextEorInv, PTL DEF Spec

\* The test of Recover, and the warning crqId of doRequest, mean what they are
\* used for: an EOR with the multiplexer's count was sent after the worker took
\* all that was written to it, for every capacity, counter width and client.
THEOREM EqualIdSound == Spec => []EqualIdMeansAllTaken
<1>1. CountInv /\ EorInv => EqualIdMeansAllTaken
  BY NoLag DEF EorInv, EqualIdMeansAllTaken
<1>2. QED
  BY <1>1, SpecEorInv, PTL

\* A worker that Recover gives back has no packet of the client that left to
\* read, to take or to finish, whichever EORs doRead lost.
THEOREM RecoversClean == Spec => RecoveredClean
<1>1. ASSUME CountInv, EorInv, [Next]_vars
      PROVE  at = "recover" /\ at' = "none" => sock' = <<>> /\ ch' = <<>> /\ cur' \in {NoCmd, Hup}
  <2> SUFFICES ASSUME at = "recover", at' = "none"
               PROVE  sock' = <<>> /\ ch' = <<>> /\ cur' \in {NoCmd, Hup}
    BY Zenon
  <2>1. CASE Recycle
    BY <2>1, Zenon DEF Recycle, FreshWorker
  <2>2. CASE RecoverReceive
    <3>1. outCh # <<>> /\ Head(outCh).id = rqId /\ UNCHANGED <<sock, ch, cur>>
      BY <2>2, Zenon DEF RecoverReceive, Recovered, workerVars
    <3>2. Head(outCh) \in Sound
      BY <1>1, <3>1 DEF EorInv
    <3>3. sock = <<>> /\ ch = <<>> /\ cur \in {NoCmd, Hup}
      BY <1>1, <3>1, <3>2, NoLag, Zenon
    <3>4. QED
      BY <3>1, <3>3, Zenon
  <2>3. CASE \E p \in Packets : Dispatch(p) \/ Forward(p)
    BY <2>3 DEF Dispatch, Forward
  <2>4. CASE Abandon \/ Receive
    BY <2>4 DEF Abandon, Receive
  <2>5. CASE RecoverEnd \/ doRead \/ ReadNext \/ Take \/ TakeSignal \/ ProcessCmd \/ UNCHANGED vars
    BY <2>5 DEF RecoverEnd, doRead, ReadNext, Take, TakeSignal, ProcessCmd, vars, muxVars
  <2>6. QED
    BY <1>1, <2>1, <2>2, <2>3, <2>4, <2>5, Zenon DEF Next
<1>2. QED
  BY <1>1, SpecEorInv, PTL DEF Spec, RecoveredClean

-----------------------------------------------------------------------------
(* Saturation recovery: any number of workers, any clock, any limits       *)

USE DEF Set, pool

-----------------------------------------------------------------------------
(* The inductive invariant *)

SatTypes ==
    /\ now \in 0 .. ClockSize - 1
    /\ sqlStartTimeMs \in [Worker -> 0 .. ClockSize - 1]
    /\ age \in [Worker -> 0 .. ClockSize]
    /\ aborts \in [Worker -> 0 .. 2]
    /\ dispatchedWorkers \subseteq Worker
    /\ phase \in [Worker -> {"idle", "taken", "running", "held", "freed", "recover"}]

\* The clock has moved on by the age of the request since it was started.
Elapsed(w) == age[w] = now - sqlStartTimeMs[w] \/ age[w] = now - sqlStartTimeMs[w] + ClockSize
AgeIsRuntime ==
    \A w \in Worker : sqlStartTimeMs[w] # 0 /\ age[w] < ClockSize => Elapsed(w)

\* A request that was chosen has lost its start time.
ChosenHasNoStart == \A w \in Worker : aborts[w] = 0 \/ (aborts[w] = 1 /\ sqlStartTimeMs[w] = 0)

\* A worker in the pool is not registered.
IdleUnregistered == \A w \in Worker : w \in dispatchedWorkers => phase[w] # "idle"

SatInv == SatTypes /\ AgeIsRuntime /\ ChosenHasNoStart /\ IdleUnregistered

\* A run time is the age of the request, also when the clock has wrapped.
LEMMA RuntimeIsAge ==
    ASSUME SatTypes, AgeIsRuntime, NEW w \in Worker, sqlStartTimeMs[w] # 0, age[w] < ClockSize
    PROVE  Runtime(w) = age[w]
BY ClockAssumption DEF SatTypes, AgeIsRuntime, Elapsed, Runtime

\* All workers start in the pool, with no request and no abort.
LEMMA InitSatInv == SatInit => SatInv
BY ClockAssumption DEF SatInit, SatInv, SatTypes, AgeIsRuntime, ChosenHasNoStart, IdleUnregistered

\* A tick moves the clock and the ages of the running requests.
LEMMA TickSatInv == SatInv /\ Tick => SatInv'
<1> SUFFICES ASSUME SatInv, Tick PROVE SatInv'
  BY Zenon
<1> USE ClockAssumption DEF SatInv, Tick
<1>1. now' = IF now = ClockSize - 1 THEN 0 ELSE now + 1
  <2>1. CASE now = ClockSize - 1
    <3>1. now + 1 = ClockSize /\ ClockSize % ClockSize = 0
      BY <2>1
    <3>2. QED
      BY <2>1, <3>1, Zenon
  <2>2. CASE now # ClockSize - 1
    <3>1. now + 1 \in 0 .. ClockSize - 1
      BY <2>2 DEF SatTypes
    <3>2. (now + 1) % ClockSize = now + 1
      BY <3>1
    <3>3. QED
      BY <2>2, <3>2, Zenon
  <2>3. QED
    BY <2>1, <2>2, Zenon
<1>2. SatTypes'
  BY <1>1 DEF SatTypes
<1>3. AgeIsRuntime'
  <2> SUFFICES ASSUME NEW w \in Worker, sqlStartTimeMs[w] # 0, age'[w] < ClockSize
               PROVE  Elapsed(w)'
    BY Zenon DEF AgeIsRuntime
  <2>1. age'[w] = age[w] + 1 /\ age[w] < ClockSize
    BY DEF SatTypes
  <2>2. Elapsed(w)
    BY <2>1, Zenon DEF AgeIsRuntime
  <2>3. QED
    BY <1>1, <2>1, <2>2 DEF Elapsed, SatTypes
<1>4. ChosenHasNoStart' /\ IdleUnregistered'
  BY Zenon DEF ChosenHasNoStart, IdleUnregistered
<1>5. QED
  BY <1>2, <1>3, <1>4, Zenon

\* The steps of one worker's coordinator and of its process.
LEMMA WorkerSatInv ==
    ASSUME SatInv, NEW w \in Worker,
           GetWorker(w) \/ Start(w) \/ Stays(w) \/ Free(w) \/ ReturnWorker(w)
           \/ Abort(w) \/ Strand(w) \/ RestartWorker(w)
    PROVE  SatInv'
<1> USE ClockAssumption
    DEF SatInv, SatTypes, AgeIsRuntime, Elapsed, ChosenHasNoStart, IdleUnregistered
<1>1. CASE GetWorker(w)
  BY <1>1, Zenon DEF GetWorker
<1>2. CASE Start(w)
  BY <1>2 DEF Start
<1>3. CASE Stays(w)
  BY <1>3, Zenon DEF Stays
<1>4. CASE Free(w)
  BY <1>4 DEF Free
<1>5. CASE ReturnWorker(w)
  BY <1>5, Zenon DEF ReturnWorker, unregisterDispatchedWorker
<1>6. CASE Abort(w)
  BY <1>6 DEF Abort
<1>7. CASE Strand(w)
  BY <1>7, Zenon DEF Strand
<1>8. CASE RestartWorker(w)
  BY <1>8 DEF RestartWorker, unregisterDispatchedWorker
<1>9. QED
  BY <1>1, <1>2, <1>3, <1>4, <1>5, <1>6, <1>7, <1>8, Zenon

\* Every step keeps the invariant.
LEMMA NextSatInv == SatInv /\ [SatNext]_satVars => SatInv'
<1> SUFFICES ASSUME SatInv, [SatNext]_satVars PROVE SatInv'
  BY Zenon
<1>1. CASE UNCHANGED pool /\ UNCHANGED now
  BY <1>1, Zenon DEF SatInv, SatTypes, AgeIsRuntime, Elapsed, ChosenHasNoStart, IdleUnregistered
<1>2. ASSUME NEW w \in Worker, Kill(w) PROVE SatInv'
  <2>1. sqlStartTimeMs[w] # 0 /\ aborts[w] = 0
    BY <1>2, Zenon DEF Kill, Victims, Candidates, SatInv, ChosenHasNoStart
  <2>2. QED
    BY <1>2, <2>1, ClockAssumption
    DEF Kill, ResetStart, SatInv, SatTypes, AgeIsRuntime, Elapsed, ChosenHasNoStart, IdleUnregistered
<1>3. CASE Decide \/ Bypass \/ Backlog \/ UNCHANGED satVars
  BY <1>1, <1>3, Zenon DEF Decide, Bypass, Backlog, satVars
<1>4. QED
  BY <1>2, <1>3, TickSatInv, WorkerSatInv, Zenon DEF SatNext, Recovery

\* The invariant holds in every reachable state.
LEMMA SpecSatInv == SatSpec => []SatInv
BY InitSatInv, NextSatInv, PTL DEF SatSpec

-----------------------------------------------------------------------------
(* The theorems *)

\* Only the goroutine of saturation recovery sends an abort, and to a victim.
LEMMA ChosenIsVictim ==
    ASSUME SatInv, [SatNext]_satVars, NEW w \in Worker, Chosen(w) PROVE w \in Victims
<1> USE DEF Chosen, SatInv, SatTypes
<1>1. CASE Recovery
  BY <1>1 DEF Recovery, Decide, Bypass, Kill
<1>2. CASE Tick \/ Backlog \/ UNCHANGED satVars
  BY <1>2 DEF Tick, Backlog, satVars
<1>3. CASE \E v \in Worker :
             GetWorker(v) \/ Start(v) \/ Stays(v) \/ Free(v) \/ ReturnWorker(v)
             \/ Abort(v) \/ Strand(v) \/ RestartWorker(v)
  BY <1>3 DEF GetWorker, Start, Stays, Free, ReturnWorker, Abort, Strand, RestartWorker
<1>4. QED
  BY <1>1, <1>2, <1>3, Zenon DEF SatNext

\* A request gets at most one abort (runSaturationRecovery resets the start time
\* of the victim), for any number of workers and any clock.
THEOREM AbortedOnce == SatSpec => []OncePerRequest
<1>1. SatInv => OncePerRequest
  BY DEF SatInv, ChosenHasNoStart, OncePerRequest
<1>2. QED
  BY <1>1, SpecSatInv, PTL

\* Saturation recovery never aborts a worker that waits in the pool
\* (registerDispatchedWorker and unregisterDispatchedWorker).
THEOREM IdleSpared == SatSpec => NotIdle
<1>1. SatInv /\ [SatNext]_satVars => [\A w \in Worker : Chosen(w) => phase[w] # "idle"]_satVars
  BY ChosenIsVictim, Zenon DEF Victims, Candidates, SatInv, IdleUnregistered
<1>2. QED
  BY <1>1, SpecSatInv, PTL DEF SatSpec, NotIdle

\* getWorkerToRecover finds the oldest request, and one older than the threshold,
\* on a clock of any width.
THEOREM VictimIsOldest == SatSpec => OldestTenant
<1> DEFINE Oldest ==
      \A w \in Worker :
          Chosen(w) /\ (\A v \in Timed : age[v] < ClockSize) =>
              age[w] > Threshold /\ \A v \in Timed : age[v] <= age[w]
<1>1. SatInv /\ [SatNext]_satVars => [Oldest]_satVars
  <2> SUFFICES ASSUME SatInv, [SatNext]_satVars, NEW w \in Worker, Chosen(w),
                      \A v \in Timed : age[v] < ClockSize
               PROVE  age[w] > Threshold /\ \A v \in Timed : age[v] <= age[w]
    BY Zenon DEF Oldest
  <2>1. w \in Victims
    BY ChosenIsVictim, Zenon
  <2>2. \A v \in Timed : Runtime(v) = age[v] /\ age[v] \in Int
    BY RuntimeIsAge, ClockAssumption DEF Timed, SatInv, SatTypes
  <2>3. w \in Timed /\ Runtime(w) > Threshold
    BY <2>1, Zenon DEF Victims, Candidates, Timed
  <2>4. \A v \in Timed : Runtime(v) <= Threshold \/ Runtime(v) <= Runtime(w)
    BY <2>1, <2>2, ClockAssumption DEF Victims, Candidates, Timed
  <2>5. QED
    BY <2>2, <2>3, <2>4, ClockAssumption
<1>2. QED
  BY <1>1, SpecSatInv, PTL DEF SatSpec, OldestTenant
=============================================================================
