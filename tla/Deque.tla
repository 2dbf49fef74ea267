------------------------------- MODULE Deque --------------------------------
(***************************************************************************)
(* What the interface Queue of lib/queue.go promises: a double-ended queue *)
(* of distinct elements.  ret is what the last call returned, tagged.      *)
(***************************************************************************)
EXTENDS Naturals, Sequences

CONSTANTS Element, Nil

VARIABLES queue, ret

Init == queue = <<>> /\ ret = <<"new", Nil>>

Members == {queue[i] : i \in DOMAIN queue}

\* Adding an element that is already there does nothing and returns false.
Add(e, longer) ==
  \/ /\ e \in Members
     /\ ret' = <<"ok", FALSE>>
     /\ UNCHANGED queue
  \/ /\ e \notin Members
     /\ queue' = longer
     /\ ret' = <<"ok", TRUE>>

Push(e) == Add(e, Append(queue, e))
PushFront(e) == Add(e, <<e>> \o queue)

Poll ==
  \/ queue = <<>> /\ ret' = <<"element", Nil>> /\ UNCHANGED queue
  \/ queue # <<>> /\ ret' = <<"element", Head(queue)>> /\ queue' = Tail(queue)

\* The queue loses the members of C; the others stay, in the same order.
Loses(C) ==
  /\ queue' \in Seq(Element) /\ Members' = Members \ C
  /\ \A i, j \in DOMAIN queue' : i < j =>
       \E a, b \in DOMAIN queue : a < b /\ queue[a] = queue'[i] /\ queue[b] = queue'[j]

Remove(e) == Loses({e}) /\ ret' = <<"ok", e \in Members>>

\* The elements that satisfy the condition are the members of C.
ForEachRemove(C) == Loses(C) /\ ret' = <<"count", Len(queue) - Len(queue')>>

Next ==
  \/ \E e \in Element : Push(e) \/ PushFront(e) \/ Remove(e)
  \/ Poll
  \/ \E C \in SUBSET Element : ForEachRemove(C)

Spec == Init /\ [][Next]_<<queue, ret>>
=============================================================================
