----------------------------- MODULE RingQueue ------------------------------
(***************************************************************************)
(* ringQueue of lib/queue.go, the queue of idle workers of a pool: a ring  *)
(* buffer that doubles when one slot is left, and idmap, the set of its    *)
(* elements.  Every method runs under the lock of the pool and is a step.  *)
(***************************************************************************)
EXTENDS Integers

CONSTANTS
  Element,     \* the *WorkerClient pointers
  Nil,         \* Go's nil, not an element
  InitCapacity \* 128 in NewQueue

ASSUME RingAssumption == InitCapacity \in Nat \ {0} /\ Nil \notin Element

VARIABLES
  data, head, tail, capacity, \* the ring
  idmap,                      \* the keys of the map
  ret                         \* what the last call returned, tagged with its kind

ringVars == <<data, head, tail, capacity, idmap, ret>>

Ring == [data |-> data, head |-> head, tail |-> tail, capacity |-> capacity, idmap |-> idmap]

Becomes(q) ==
  /\ data' = q.data /\ head' = q.head /\ tail' = q.tail
  /\ capacity' = q.capacity /\ idmap' = q.idmap

NewQueue ==
  /\ data = [i \in 0 .. InitCapacity - 1 |-> Nil]
  /\ head = 0 /\ tail = 0 /\ capacity = InitCapacity
  /\ idmap = {}
  /\ ret = <<"new", Nil>>

-----------------------------------------------------------------------------
(* Operators on a ring q                                                   *)

\* Len of the source.
Length(q) == IF q.tail >= q.head THEN q.tail - q.head ELSE q.tail - q.head + q.capacity

decr(q, pos) == (pos + q.capacity - 1) % q.capacity
incr(q, pos) == (pos + 1) % q.capacity

\* The element i positions after the head.
At(q, i) == q.data[(q.head + i) % q.capacity]

\* double: the elements are copied to the start of a ring twice as large.
double(q) ==
  [q EXCEPT !.data = [i \in 0 .. 2 * q.capacity - 1 |-> IF i < Length(q) THEN At(q, i) ELSE Nil],
            !.head = 0, !.tail = Length(q), !.capacity = 2 * q.capacity]

DoubleWhenFull(q) == IF Length(q) = q.capacity THEN double(q) ELSE q  \* mutant
MakeRoom(q) == IF Length(q) + 1 = q.capacity THEN double(q) ELSE q

\* How far b is after a in the ring.
Dist(q, a, b) == (b + q.capacity - a) % q.capacity

\* The loop of remove: every element after pos moves back by one.
MovedBack(q, pos) ==
  [i \in DOMAIN q.data |->
     IF Dist(q, pos, i) + 1 < Dist(q, pos, q.tail) THEN q.data[incr(q, i)] ELSE q.data[i]]

remove(q, pos) ==
  [q EXCEPT !.data = MovedBack(q, pos), !.tail = decr(q, q.tail), !.idmap = @ \ {q.data[pos]}]

\* The positions a walk from head to tail visits.
Positions(q) == {(q.head + i) % q.capacity : i \in 0 .. Length(q) - 1}

-----------------------------------------------------------------------------
(* The methods                                                             *)

Push(e) ==
  \/ /\ e \in idmap
     /\ ret' = <<"ok", FALSE>>
     /\ UNCHANGED <<data, head, tail, capacity, idmap>>
  \/ /\ e \notin idmap
     /\ ret' = <<"ok", TRUE>>
     /\ LET q == MakeRoom(Ring)
        IN  Becomes([q EXCEPT !.data[q.tail] = e, !.tail = incr(q, q.tail), !.idmap = @ \cup {e}])

PushFront(e) ==
  \/ /\ e \in idmap
     /\ ret' = <<"ok", FALSE>>
     /\ UNCHANGED <<data, head, tail, capacity, idmap>>
  \/ /\ e \notin idmap
     /\ ret' = <<"ok", TRUE>>
     /\ LET q == MakeRoom(Ring)
            first == decr(q, q.head)
        IN  Becomes([q EXCEPT !.data[first] = e, !.head = first, !.idmap = @ \cup {e}])

\* The slot keeps its stale pointer.
Poll ==
  \/ Length(Ring) = 0 /\ ret' = <<"element", Nil>> /\ Becomes(Ring)
  \/ /\ Length(Ring) # 0
     /\ ret' = <<"element", data[head]>>
     /\ Becomes([Ring EXCEPT !.head = incr(Ring, head), !.idmap = @ \ {data[head]}])

Remove(e) ==
  \/ /\ \A pos \in Positions(Ring) : data[pos] # e
     /\ ret' = <<"ok", FALSE>>
     /\ UNCHANGED <<data, head, tail, capacity, idmap>>
  \/ \E pos \in Positions(Ring) :
       /\ data[pos] = e
       /\ ret' = <<"ok", TRUE>>
       /\ Becomes(remove(Ring, pos))

\* One turn of the loop of ForEachRemove: the ring, the position and cnt.
SkipAfterRemove(C, s) ==                                          \* mutant
  IF s.pos = s.q.tail THEN s
  ELSE IF s.q.data[s.pos] \in C
       THEN [q |-> remove(s.q, s.pos), pos |-> incr(s.q, s.pos), cnt |-> s.cnt + 1]
       ELSE [s EXCEPT !.pos = incr(s.q, s.pos)]

Turn(C, s) ==
  IF s.pos = s.q.tail THEN s
  ELSE IF s.q.data[s.pos] \in C
       THEN [s EXCEPT !.q = remove(s.q, s.pos), !.cnt = @ + 1]
       ELSE [s EXCEPT !.pos = incr(s.q, s.pos)]

\* The turns of the loop on ring q, where the elements that satisfy the
\* condition are the members of C.  It ends after at most capacity turns.
Walk(q, C) ==
  LET walk[n \in 0 .. q.capacity] ==
        IF n = 0 THEN [q |-> q, pos |-> q.head, cnt |-> 0] ELSE Turn(C, walk[n - 1])
  IN  walk

ForEachRemove(C) ==
  LET end == Walk(Ring, C)[capacity]
  IN  /\ Becomes(end.q)
      /\ ret' = <<"count", end.cnt>>

RingNext ==
  \/ \E e \in Element : Push(e) \/ PushFront(e) \/ Remove(e)
  \/ Poll
  \/ \E C \in SUBSET Element : ForEachRemove(C)

RingSpec == NewQueue /\ [][RingNext]_ringVars

-----------------------------------------------------------------------------
(* Properties                                                              *)

Contents == [i \in 1 .. Length(Ring) |-> At(Ring, i - 1)]

\* idmap is exactly the set of elements between head and tail, each there
\* once: through every wrap, doubling and removal no element is refused that
\* is not in the queue and none is in the queue twice.
IdmapExact ==
  /\ idmap = {data[pos] : pos \in Positions(Ring)}
  /\ \A i, j \in 0 .. Length(Ring) - 1 : At(Ring, i) = At(Ring, j) => i = j

\* The methods of ringQueue do what the interface Queue promises, result by
\* result, whatever the position of the ring in its slice.
D == INSTANCE Deque WITH queue <- Contents
IsDeque == D!Spec
=============================================================================
