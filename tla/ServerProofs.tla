---------------------------- MODULE ServerProofs ----------------------------
(***************************************************************************)
(* Theorems about Server, for any number of connections, pools and         *)
(* workers, any limits and any capacity of the channels: no way out of a   *)
(* session forgets a worker.                                               *)
(***************************************************************************)
EXTENDS Server, TLAPS

USE DEF Set

-----------------------------------------------------------------------------
(* The connections *)

\* A connection is dialled again when nothing of the last one is left, its
\* coordinator starts after the handshake, holds a worker or none according to
\* where it is, and knows when it lost its worker.
ConnInv(c) ==
    /\ worker[c] \in Worker \cup {None} /\ target[c] \in Pool
    /\ client[c] = "dial" => handler[c] \in {"off", "over"} /\ crd[c] \in {"off", "exit"}
    /\ handler[c] \in {"init", "hands"} => crd[c] = "off"
    /\ crd[c] \in {"off", "exit", "get", "blg", "wait", "wake", "tout", "fail"} => worker[c] = None
    /\ crd[c] \in {"asgn", "write", "req", "strand", "lost", "stale", "free", "rtn", "acpt"} => worker[c] # None
    /\ crd[c] \in {"lost", "stale"} => Gone(c)

Domains ==
    /\ DOMAIN client = Conn /\ DOMAIN handler = Conn /\ DOMAIN crd = Conn /\ DOMAIN worker = Conn
    /\ DOMAIN gone = Conn /\ DOMAIN target = Conn /\ DOMAIN wk = Worker
    /\ activeQ \subseteq Worker

Out == {"used", "eor", "free"}
Owns(c, w) == worker[c] = w /\ ~gone[c] /\ crd[c] # "exit"

ServerInv == Domains /\ NoOrphan /\ \A c \in Conn : ConnInv(c)

\* A step of another connection or of a worker only wakes this one up.
Other(c) ==
    /\ client'[c] = client[c] /\ handler'[c] = handler[c] /\ worker'[c] = worker[c]
    /\ gone'[c] = gone[c] /\ target'[c] = target[c]
    /\ crd'[c] = crd[c] \/ (crd[c] = "wait" /\ crd'[c] = "wake")
Frame(c) == Domains' /\ \A d \in Conn \ {c} : Other(d)
ExitedStay == \A w \in Worker : wk[w] = "exited" => wk'[w] = "exited"

\* Connection c drops no worker that is checked out.
OwnersKept(c) ==
    \A w \in Worker : wk'[w] \in Out => Owns(c, w)' \/ (wk[w] \in Out /\ ~Owns(c, w))

Good(c) == Frame(c) /\ ExitedStay /\ ConnInv(c)' /\ OwnersKept(c)

\* What each connection keeps, all keep.
LEMMA OtherInv == ASSUME NEW c \in Conn, ConnInv(c), Other(c), ExitedStay PROVE ConnInv(c)'
BY Zenon DEF ConnInv, Other, ExitedStay, Gone

\* A step of connection c that is good for c is good for all.
LEMMA GoodInv == ASSUME ServerInv, NEW c \in Conn, Good(c) PROVE ServerInv'
<1>1. \A d \in Conn : ConnInv(d)'
  BY OtherInv, Zenon DEF ServerInv, Good, Frame
<1>2. ASSUME NEW w \in Worker, wk'[w] \in Out PROVE \E d \in Conn : Owns(d, w)'
  <2>1. CASE Owns(c, w)'
    BY <2>1, Zenon
  <2>2. CASE wk[w] \in Out /\ ~Owns(c, w)
    <3>1. PICK d \in Conn : Owns(d, w)
      BY <2>2, Zenon DEF ServerInv, NoOrphan, Out, Owns
    <3>2. Other(d)
      BY <2>2, <3>1, Zenon DEF Good, Frame
    <3>3. Owns(d, w)'
      BY <3>1, <3>2, Zenon DEF Other, Owns
    <3>4. QED
      BY <3>3, Zenon
  <2>3. QED
    BY <1>2, <2>1, <2>2, Zenon DEF Good, OwnersKept
<1>3. NoOrphan'
  BY <1>2, Zenon DEF NoOrphan, Out, Owns
<1>4. QED
  BY <1>1, <1>3, Zenon DEF ServerInv, Good, Frame

-----------------------------------------------------------------------------
(* What the steps report *)

\* The state of a connection as the log knows it, between the handler's events.
Stage(c) ==
    IF crd[c] \in {"wait", "wake", "woken", "tout"} THEN "Backlog"
    ELSE IF crd[c] \in {"write", "req", "strand", "lost", "free"} \/ (crd[c] = "run" /\ worker[c] # None)
    THEN "Assign" ELSE "Idle"
IsOpen(c) == handler[c] \in {"hands", "read", "put", "exit", "bye"}

SameStage(c) == Stage(c)' = Stage(c) /\ (target'[c] = target[c] \/ Stage(c) # "Backlog")
SameOpen(c) == IsOpen(c)' <=> IsOpen(c)

NoEvent == UNCHANGED <<mEventChann, perStateCnt>>
WorkerEvent == \E w \in Worker, s \in WorkerState : PublishStateEvent(WorkerEvt(w, s))
Moves(c) ==
    /\ (Stage(c) = "Idle" /\ Stage(c)' # "Idle") \/ (Stage(c) # "Idle" /\ Stage(c)' = "Idle")
    /\ SameOpen(c) /\ target'[c] = target[c]
    /\ \E p \in Pool : /\ p = target[c] \/ "Backlog" \notin {Stage(c), Stage(c)'}
                       /\ PublishStateEvent(ConnEvt(p, Stage(c), Stage(c)'))
Opens(c) == SameStage(c) /\ ~IsOpen(c) /\ IsOpen(c)' /\ PublishStateEvent(ConnEvt(MainPool, "Close", "Idle"))
Shuts(c) == SameStage(c) /\ IsOpen(c) /\ ~IsOpen(c)' /\ PublishStateEvent(ConnEvt(MainPool, "Idle", "Close"))

\* Every step reports the change it makes, and no other.
Account(c) ==
    \/ SameStage(c) /\ SameOpen(c) /\ (NoEvent \/ WorkerEvent)
    \/ Moves(c) \/ Opens(c) \/ Shuts(c)

Reports(c) == Good(c) /\ Account(c)

\* The client and the accept loop.
LEMMA ClientReports ==
    ASSUME ServerInv, NEW c \in Conn, Dial(c) \/ Send(c) \/ Leave(c) PROVE Reports(c)
<1>1. Domains /\ ConnInv(c)
  BY Zenon DEF ServerInv
<1>2. /\ UNCHANGED <<mEventChann, perStateCnt, handler, crd, worker, gone, target, wk, activeQ>>
      /\ DOMAIN client' = Conn /\ \A d \in Conn \ {c} : client'[d] = client[d]
  BY <1>1, Zenon DEF Dial, Send, Leave, logvars, crdvars, poolvars, Domains
<1>3. client'[c] = "dial" => client[c] = "dial" \/ (handler[c] \in {"off", "over"} /\ crd[c] \in {"off", "exit"})
  BY <1>1, Zenon DEF Dial, Send, Leave, Domains
<1>4. Good(c)
  BY <1>1, <1>2, <1>3, Zenon DEF Good, Frame, Other, Domains, ExitedStay, ConnInv, Gone, OwnersKept, Owns
<1>5. Account(c)
  BY <1>2, Zenon DEF Account, SameStage, SameOpen, Stage, IsOpen, NoEvent
<1>6. QED
  BY <1>4, <1>5, Zenon DEF Reports

\* The accept loop opens the connection and says so, or bounces it.
LEMMA AcceptReports == ASSUME ServerInv, NEW c \in Conn, Accept(c) PROVE Reports(c)
<1>1. Domains /\ ConnInv(c) /\ client[c] = "dial"
  BY Zenon DEF ServerInv, Accept
<1>2. crd[c] \in {"off", "exit"} /\ handler[c] \in {"off", "over"} /\ worker[c] = None
  BY <1>1, Zenon DEF ConnInv
<1>3. UNCHANGED <<mEventChann, perStateCnt, worker, gone, target, wk, activeQ>>
  BY Zenon DEF Accept, logvars, poolvars
<1>4. \/ Set(client, c, "off") /\ UNCHANGED <<handler, crd>>
      \/ Set(client, c, "open") /\ Set(handler, c, "init") /\ Set(crd, c, "off")
  BY Zenon DEF Accept, bounce, authAndHandle
<1>5. Good(c)
  BY <1>1, <1>2, <1>3, <1>4, Zenon DEF Good, Frame, Other, Domains, ExitedStay, ConnInv, OwnersKept, Owns, Out
<1>6. Account(c)
  BY <1>1, <1>2, <1>3, <1>4, Zenon DEF Account, SameStage, SameOpen, Stage, IsOpen, NoEvent, Domains
<1>7. QED
  BY <1>5, <1>6, Zenon DEF Reports

\* The connection handler.
LEMMA HandlerReports == ASSUME ServerInv, NEW c \in Conn, HandleConnection(c) PROVE Reports(c)
<1>1. Domains /\ ConnInv(c) /\ MainPool \in Pool
  BY ServerAssumption, Zenon DEF ServerInv
<1>2. UNCHANGED <<client, worker, gone, target, wk, activeQ>>
  <2>1. UNCHANGED <<worker, gone, target, wk, activeQ>>
    BY Zenon DEF HandleConnection, HandlerUnchanged, poolvars
  <2>2. UNCHANGED client
    BY Zenon DEF HandleConnection, HandlerEnter, HandlerHandshake, HandlerRead, HandlerPut, HandlerExit, HandlerBye, clientvars
  <2>3. QED
    BY <2>1, <2>2, Zenon
<1>3. CASE HandlerEnter(c)
  <2>1. /\ handler[c] = "init" /\ Set(handler, c, "hands") /\ UNCHANGED crd
        /\ PublishStateEvent(ConnEvt(MainPool, "Close", "Idle"))
    BY <1>3, Zenon DEF HandlerEnter
  <2>2. Good(c)
    BY <1>1, <1>2, <2>1, Zenon DEF Good, Frame, Other, Domains, ExitedStay, ConnInv, Gone, OwnersKept, Owns
  <2>3. Opens(c)
    BY <1>1, <1>2, <2>1, Zenon DEF Opens, SameStage, Stage, IsOpen, Domains
  <2>4. QED
    BY <2>2, <2>3, Zenon DEF Reports, Account
<1>4. CASE HandlerBye(c)
  <2>1. /\ handler[c] = "bye" /\ Set(handler, c, "over") /\ UNCHANGED crd
        /\ PublishStateEvent(ConnEvt(MainPool, "Idle", "Close"))
    BY <1>4, Zenon DEF HandlerBye
  <2>2. Good(c)
    BY <1>1, <1>2, <2>1, Zenon DEF Good, Frame, Other, Domains, ExitedStay, ConnInv, Gone, OwnersKept, Owns
  <2>3. Shuts(c)
    BY <1>1, <1>2, <2>1, Zenon DEF Shuts, SameStage, Stage, IsOpen, Domains
  <2>4. QED
    BY <2>2, <2>3, Zenon DEF Reports, Account
<1>5. CASE HandlerHandshake(c) \/ HandlerRead(c) \/ HandlerPut(c) \/ HandlerExit(c)
  <2>1. UNCHANGED <<mEventChann, perStateCnt>>
    BY <1>5, Zenon DEF HandlerHandshake, HandlerRead, HandlerPut, HandlerExit, logvars
  <2>2. \/ handler[c] = "hands" /\ Set(handler, c, "read") /\ Set(crd, c, "run")
        \/ UNCHANGED <<handler, crd>>
        \/ /\ handler[c] \in {"read", "put", "exit"} /\ UNCHANGED crd
           /\ \E h \in {"read", "put", "exit", "bye"} : Set(handler, c, h)
    BY <1>5, Zenon DEF HandlerHandshake, HandlerRead, HandlerPut, HandlerExit, Panic
  <2>3. Good(c)
    BY <1>1, <1>2, <2>2, Zenon DEF Good, Frame, Other, Domains, ExitedStay, ConnInv, Gone, OwnersKept, Owns
  <2>4. SameStage(c) /\ SameOpen(c) /\ NoEvent
    BY <1>1, <1>2, <2>1, <2>2, Zenon DEF SameStage, SameOpen, Stage, IsOpen, NoEvent, Domains, ConnInv
  <2>5. QED
    BY <2>3, <2>4, Zenon DEF Reports, Account
<1>6. QED
  BY <1>3, <1>4, <1>5, Zenon DEF HandleConnection

\* A coordinator goes on with the worker it has, or has not.
Fits(c, r) ==
    /\ r \notin {"off", "exit"} /\ crd[c] \notin {"off", "exit"}
    /\ r \in {"get", "blg", "wait", "wake", "tout", "fail"} => worker[c] = None
    /\ r \in {"asgn", "write", "req", "strand", "lost", "stale", "free", "rtn", "acpt"} => worker[c] # None
    /\ r \in {"lost", "stale"} => Gone(c)

\* A step of the coordinator that fits what it has is a good one.
LEMMA GoesOn ==
    ASSUME ServerInv, NEW c \in Conn, NEW r, Fits(c, r), Set(crd, c, r),
           UNCHANGED <<client, handler, worker, gone, wk, activeQ>>,
           target' = target \/ (\E p \in Pool : Set(target, c, p))
    PROVE  Good(c)
<1>1. Domains /\ ConnInv(c)
  BY Zenon DEF ServerInv
<1>2. Frame(c) /\ crd'[c] = r /\ target'[c] \in Pool
  BY <1>1, Zenon DEF Domains, Frame, Other, ConnInv
<1>3. ConnInv(c)'
  BY <1>1, <1>2, Zenon DEF ConnInv, Fits, Gone
<1>4. QED
  BY <1>2, <1>3, Zenon DEF Good, ExitedStay, OwnersKept, Owns, Fits

\* The steps in GetWorker that take no worker.
LEMMA BacklogReports ==
    ASSUME ServerInv, NEW c \in Conn, UNCHANGED <<client, handler, target>>,
           ToBacklog(c) \/ Woken(c) \/ BacklogTimeout(c) \/ TimedOut(c) \/ Assigned(c)
    PROVE  Reports(c)
<1>1. Domains /\ ConnInv(c) /\ UNCHANGED <<worker, gone, wk, activeQ>> /\ target[c] \in Pool
  BY Zenon DEF ServerInv, ToBacklog, Woken, BacklogTimeout, TimedOut, Assigned, TakeNone, ConnInv
<1>2. CASE ToBacklog(c)
  <2>1. crd[c] = "blg" /\ Set(crd, c, "wait") /\ PublishStateEvent(ConnEvt(target[c], "Idle", "Backlog"))
    BY <1>2, Zenon DEF ToBacklog
  <2>2. Moves(c)
    BY <1>1, <2>1, Zenon DEF Moves, SameOpen, Stage, IsOpen, Domains
  <2>3. Good(c)
    BY <1>1, <2>1, GoesOn, Zenon DEF Fits, ConnInv
  <2>4. QED
    BY <2>2, <2>3, Zenon DEF Reports, Account
<1>3. CASE Woken(c)
  <2>1. PICK r \in {"asgn", "fail", "blg"} :
          /\ crd[c] = "woken" /\ Set(crd, c, r) /\ (r = "asgn" <=> worker[c] # None)
          /\ PublishStateEvent(ConnEvt(target[c], "Backlog", "Idle"))
    BY <1>3, Zenon DEF Woken, Wait
  <2>2. Moves(c)
    BY <1>1, <2>1, Zenon DEF Moves, SameOpen, Stage, IsOpen, Domains
  <2>3. Good(c)
    BY <1>1, <2>1, GoesOn, Zenon DEF Fits, ConnInv
  <2>4. QED
    BY <2>2, <2>3, Zenon DEF Reports, Account
<1>4. CASE BacklogTimeout(c)
  <2>1. crd[c] \in {"wait", "wake"} /\ Set(crd, c, "tout") /\ NoEvent
    BY <1>4, Zenon DEF BacklogTimeout, NoEvent, logvars
  <2>2. SameStage(c) /\ SameOpen(c)
    BY <1>1, <2>1, Zenon DEF SameStage, SameOpen, Stage, IsOpen, Domains
  <2>3. Good(c)
    BY <1>1, <2>1, GoesOn, Zenon DEF Fits, ConnInv
  <2>4. QED
    BY <2>1, <2>2, <2>3, Zenon DEF Reports, Account
<1>5. CASE TimedOut(c)
  <2>1. crd[c] = "tout" /\ Set(crd, c, "fail") /\ PublishStateEvent(ConnEvt(target[c], "Backlog", "Idle"))
    BY <1>5, Zenon DEF TimedOut
  <2>2. Moves(c)
    BY <1>1, <2>1, Zenon DEF Moves, SameOpen, Stage, IsOpen, Domains
  <2>3. Good(c)
    BY <1>1, <2>1, GoesOn, Zenon DEF Fits, ConnInv
  <2>4. QED
    BY <2>2, <2>3, Zenon DEF Reports, Account
<1>6. CASE Assigned(c)
  <2>1. crd[c] = "asgn" /\ Set(crd, c, "write") /\ PublishStateEvent(ConnEvt(target[c], "Idle", "Assign"))
    BY <1>6, Zenon DEF Assigned
  <2>2. Moves(c)
    BY <1>1, <2>1, Zenon DEF Moves, SameOpen, Stage, IsOpen, Domains
  <2>3. Good(c)
    BY <1>1, <2>1, GoesOn, Zenon DEF Fits, ConnInv
  <2>4. QED
    BY <2>2, <2>3, Zenon DEF Reports, Account
<1>7. QED
  BY <1>2, <1>3, <1>4, <1>5, <1>6, Zenon

\* The steps that may take a worker.
LEMMA TakeReports ==
    ASSUME ServerInv, NEW c \in Conn, UNCHANGED <<client, handler, target>>, GetWorker(c) \/ Wakeup(c)
    PROVE  Reports(c)
<1>1. Domains /\ ConnInv(c)
  BY Zenon DEF ServerInv
<1>2. PICK r \in {"asgn", "fail", "blg", "woken"} :
        /\ \/ crd[c] = "get" /\ r \in {"asgn", "fail", "blg"}
           \/ crd[c] = "wake" /\ r = "woken"
        /\ Set(crd, c, r) /\ NoEvent
        /\ \/ r \in {"asgn", "woken"} /\ \E w \in Worker : Take(c, w)
           \/ r # "asgn" /\ TakeNone
  <2>2. CASE GetWorker(c)
    <3>1. crd[c] = "get" /\ NoEvent
      BY <2>2, Zenon DEF GetWorker, NoEvent, logvars
    <3>2. \/ Set(crd, c, "asgn") /\ \E w \in Worker : Take(c, w)
          \/ (Set(crd, c, "fail") \/ Set(crd, c, "blg")) /\ TakeNone
      BY <1>1, <2>2, Zenon DEF GetWorker, Wait, Idle, Domains
    <3>3. QED
      BY <3>1, <3>2, Zenon
  <2>3. CASE Wakeup(c)
    <3>1. crd[c] = "wake" /\ Set(crd, c, "woken") /\ NoEvent
      BY <2>3, Zenon DEF Wakeup, NoEvent, logvars
    <3>2. TakeNone \/ \E w \in Worker : Take(c, w)
      BY <1>1, <2>3, Zenon DEF Wakeup, Idle, Domains
    <3>3. QED
      BY <3>1, <3>2, Zenon
  <2>4. QED
    BY <2>2, <2>3, Zenon
<1>3. worker[c] = None
  BY <1>1, <1>2, Zenon DEF ConnInv
<1>4. SameStage(c) /\ SameOpen(c)
  BY <1>1, <1>2, Zenon DEF SameStage, SameOpen, Stage, IsOpen, Domains
<1>5. CASE r # "asgn" /\ TakeNone
  <2>1. UNCHANGED <<worker, gone, wk, activeQ>>
    BY <1>5, Zenon DEF TakeNone
  <2>2. Fits(c, r)
    BY <1>2, <1>3, <1>5, Zenon DEF Fits
  <2>3. Good(c)
    BY <1>2, <2>1, <2>2, GoesOn, Zenon
  <2>4. QED
    BY <1>2, <1>4, <2>3, Zenon DEF Reports, Account
<1>6. ASSUME NEW w \in Worker, Take(c, w), r \in {"asgn", "woken"} PROVE Good(c)
  <2>1. /\ Set(worker, c, w) /\ Set(gone, c, FALSE) /\ activeQ' \subseteq activeQ
        /\ wk' = [wk EXCEPT ![w] = IF @ = "idle" THEN "used" ELSE @]
    BY <1>6, Zenon DEF Take
  <2>2. Frame(c) /\ ExitedStay
    BY <1>1, <1>2, <2>1, Zenon DEF Domains, Frame, Other, ExitedStay
  <2>3. worker'[c] = w /\ w # None /\ ~gone'[c] /\ crd'[c] = r
    BY <1>1, <1>2, <2>1, ServerAssumption, Zenon DEF Domains
  <2>4. ConnInv(c)'
    BY <1>1, <1>2, <1>6, <2>3, Zenon DEF ConnInv
  <2>5. OwnersKept(c)
    BY <1>1, <1>3, <1>6, <2>1, <2>3, ServerAssumption, Zenon DEF OwnersKept, Owns, Domains, Out
  <2>6. QED
    BY <2>2, <2>4, <2>5, Zenon DEF Good
<1>7. QED
  BY <1>2, <1>4, <1>5, <1>6, Zenon DEF Reports, Account

\* Requests, and the ways they end, while the worker is kept.
LEMMA RunReports ==
    ASSUME ServerInv, NEW c \in Conn, UNCHANGED <<client, handler>>,
           TakeRequest(c) \/ (UNCHANGED target /\ (Write(c) \/ WorkerClosed(c)))
    PROVE  Reports(c)
<1>1. Domains /\ ConnInv(c) /\ UNCHANGED <<worker, gone, wk, activeQ>>
  BY Zenon DEF ServerInv, TakeRequest, Write, WorkerClosed, TakeNone
<1>2. CASE TakeRequest(c)
  <2>1. PICK r \in {"get", "write"} :
          /\ crd[c] \in {"run", "req"} /\ Set(crd, c, r) /\ NoEvent
          /\ (r = "get" <=> worker[c] = None)
          /\ target' = target \/ \E p \in Pool : Set(target, c, p)
    BY <1>2, Zenon DEF TakeRequest, ChoosePool, NoEvent, logvars
  <2>2. SameStage(c) /\ SameOpen(c)
    BY <1>1, <2>1, Zenon DEF SameStage, SameOpen, Stage, IsOpen, Domains, ConnInv
  <2>3. Fits(c, r)
    BY <1>1, <2>1, Zenon DEF Fits, ConnInv
  <2>4. Good(c)
    BY <1>1, <2>1, <2>3, GoesOn, Zenon
  <2>5. QED
    BY <2>1, <2>2, <2>4, Zenon DEF Reports, Account
<1>3. CASE UNCHANGED target /\ Write(c)
  <2>1. PICK r \in {"lost", "req"} :
          /\ crd[c] = "write" /\ Set(crd, c, r) /\ (r = "lost" => Gone(c))
          /\ PublishStateEvent(WorkerEvt(worker[c], "busy"))
    BY <1>3, Zenon DEF Write
  <2>2. SameStage(c) /\ SameOpen(c)
    BY <1>1, <1>3, <2>1, Zenon DEF SameStage, SameOpen, Stage, IsOpen, Domains
  <2>3. Fits(c, r)
    BY <1>1, <2>1, Zenon DEF Fits, ConnInv
  <2>4. Good(c)
    BY <1>1, <1>3, <2>1, <2>3, GoesOn, Zenon
  <2>5. WorkerEvent
    BY <1>1, <2>1, Zenon DEF WorkerEvent, WorkerState, ConnInv
  <2>6. QED
    BY <2>2, <2>4, <2>5, Zenon DEF Reports, Account
<1>4. CASE UNCHANGED target /\ WorkerClosed(c)
  <2>1. crd[c] \in {"run", "req"} /\ worker[c] # None /\ Gone(c) /\ Set(crd, c, "lost") /\ NoEvent
    BY <1>4, Zenon DEF WorkerClosed, NoEvent, logvars
  <2>2. SameStage(c) /\ SameOpen(c)
    BY <1>1, <1>4, <2>1, Zenon DEF SameStage, SameOpen, Stage, IsOpen, Domains
  <2>3. Fits(c, "lost")
    BY <2>1, Zenon DEF Fits
  <2>4. Good(c)
    BY <1>1, <1>4, <2>1, <2>3, GoesOn, Zenon
  <2>5. QED
    BY <2>1, <2>2, <2>4, Zenon DEF Reports, Account
<1>5. QED
  BY <1>2, <1>3, <1>4, Zenon

\* The worker answers: it is still checked out.
LEMMA AnswerReports ==
    ASSUME ServerInv, NEW c \in Conn, UNCHANGED <<client, handler, target>>, Answer(c)
    PROVE  Reports(c)
<1>1. Domains /\ ConnInv(c)
  BY Zenon DEF ServerInv
<1>2. PICK r \in {"free", "run", "strand"} :
        /\ crd[c] \in {"run", "req"} /\ worker[c] # None /\ ~gone[c]
        /\ wk[worker[c]] \in {"eor", "free"} /\ Set(wk, worker[c], "used")
        /\ Set(crd, c, r) /\ NoEvent /\ UNCHANGED <<worker, gone, activeQ>>
  BY Zenon DEF Answer, NoEvent, logvars
<1>3. SameStage(c) /\ SameOpen(c)
  BY <1>1, <1>2, Zenon DEF SameStage, SameOpen, Stage, IsOpen, Domains
<1>4. Frame(c) /\ ExitedStay
  BY <1>1, <1>2, Zenon DEF Domains, Frame, Other, ExitedStay
<1>5. ConnInv(c)'
  BY <1>1, <1>2, Zenon DEF ConnInv, Domains
<1>6. OwnersKept(c)
  BY <1>1, <1>2, Zenon DEF OwnersKept, Owns, Out, Domains, ConnInv
<1>7. QED
  BY <1>2, <1>3, <1>4, <1>5, <1>6, Zenon DEF Reports, Account, Good

\* A coordinator exits without a worker, without one any more, or after it left
\* its worker to Recover.
LEMMA Ends ==
    ASSUME ServerInv, NEW c \in Conn, crd[c] \notin {"off", "exit"}, Set(crd, c, "exit"),
           (worker[c] = None /\ worker' = worker) \/ Set(worker, c, None),
           UNCHANGED <<client, handler, gone, target, activeQ>>,
           \/ wk' = wk /\ (worker[c] = None \/ Gone(c))
           \/ ~Gone(c) /\ worker[c] # None /\ Set(wk, worker[c], "strand")
    PROVE  Good(c)
<1>1. Domains /\ ConnInv(c)
  BY Zenon DEF ServerInv
<1>2. Frame(c) /\ ExitedStay
  BY <1>1, Zenon DEF Domains, Frame, Other, ExitedStay, Gone
<1>3. ConnInv(c)'
  BY <1>1 DEF ConnInv, Domains
<1>4. OwnersKept(c)
  BY <1>1, ServerAssumption, Zenon DEF OwnersKept, Owns, Out, Domains, ConnInv, Gone
<1>5. QED
  BY <1>2, <1>3, <1>4, Zenon DEF Good

\* The ways out of a session.
LEMMA ExitReports ==
    ASSUME ServerInv, NEW c \in Conn, UNCHANGED <<client, handler, target>>,
           ClientGone(c) \/ GiveUp(c) \/ RecoverGone(c) \/ Fail(c)
    PROVE  Reports(c)
<1>1. Domains /\ ConnInv(c)
  BY Zenon DEF ServerInv
<1>2. CASE ClientGone(c)
  <2>1. crd[c] \in {"run", "req"} /\ NoEvent /\ UNCHANGED <<worker, gone, wk, activeQ>>
    BY <1>2, Zenon DEF ClientGone, NoEvent, logvars, TakeNone
  <2>2. CASE worker[c] # None /\ Set(crd, c, "strand")
    <3>1. Fits(c, "strand")
      BY <2>1, <2>2, Zenon DEF Fits
    <3>2. Good(c)
      BY <2>1, <2>2, <3>1, GoesOn, Zenon
    <3>3. SameStage(c) /\ SameOpen(c)
      BY <1>1, <2>1, <2>2, Zenon DEF SameStage, SameOpen, Stage, IsOpen, Domains
    <3>4. QED
      BY <2>1, <3>2, <3>3, Zenon DEF Reports, Account
  <2>3. CASE worker[c] = None /\ Set(crd, c, "exit")
    <3>1. Good(c)
      BY <2>1, <2>3, Ends, Zenon
    <3>2. SameStage(c) /\ SameOpen(c)
      BY <1>1, <2>1, <2>3, Zenon DEF SameStage, SameOpen, Stage, IsOpen, Domains, ConnInv
    <3>3. QED
      BY <2>1, <3>1, <3>2, Zenon DEF Reports, Account
  <2>4. QED
    BY <1>2, <2>2, <2>3, Zenon DEF ClientGone, Exit
<1>3. CASE GiveUp(c)
  <2>1. /\ crd[c] \in {"strand", "lost"} /\ worker[c] \in Worker /\ worker[c] # None
        /\ PublishStateEvent(ConnEvt(PoolOf[worker[c]], "Assign", "Idle")) /\ PoolOf[worker[c]] \in Pool
        /\ UNCHANGED <<gone, activeQ>>
    BY <1>1, <1>3, ServerAssumption, Zenon DEF GiveUp, ConnInv
  <2>2. CASE Set(crd, c, "exit") /\ Set(worker, c, None)
    <3>1. \/ wk' = wk /\ Gone(c)
          \/ ~Gone(c) /\ Set(wk, worker[c], "strand")
      BY <1>1, <1>3, <2>1, <2>2, Zenon DEF GiveUp, Exit, Recovering, ConnInv, Domains
    <3>2. Good(c)
      BY <2>1, <2>2, <3>1, Ends, Zenon
    <3>3. Moves(c)
      BY <1>1, <2>1, <2>2, Zenon DEF Moves, SameOpen, Stage, IsOpen, Domains
    <3>4. QED
      BY <3>2, <3>3, Zenon DEF Reports, Account
  <2>3. CASE Gone(c) /\ Set(crd, c, "stale") /\ UNCHANGED worker /\ wk' = Recovering(c)
    <3>1. Fits(c, "stale") /\ UNCHANGED wk
      BY <2>1, <2>3, Zenon DEF Fits, Recovering
    <3>2. Good(c)
      BY <2>1, <2>3, <3>1, GoesOn, Zenon
    <3>3. Moves(c)
      BY <1>1, <2>1, <2>3, Zenon DEF Moves, SameOpen, Stage, IsOpen, Domains
    <3>4. QED
      BY <3>2, <3>3, Zenon DEF Reports, Account
  <2>4. QED
    BY <1>3, <2>2, <2>3, Zenon DEF GiveUp, Exit
<1>4. CASE RecoverGone(c)
  <2>1. /\ crd[c] = "stale" /\ Set(crd, c, "exit") /\ Set(worker, c, None)
        /\ PublishStateEvent(WorkerEvt(worker[c], "quce")) \/ NoEvent
        /\ UNCHANGED <<gone, wk, activeQ>>
    BY <1>4, Zenon DEF RecoverGone, Exit, NoEvent, logvars
  <2>2. worker[c] \in Worker /\ Gone(c)
    BY <1>1, <2>1, Zenon DEF ConnInv
  <2>3. Good(c)
    BY <2>1, <2>2, Ends, Zenon
  <2>4. SameStage(c) /\ SameOpen(c)
    BY <1>1, <2>1, Zenon DEF SameStage, SameOpen, Stage, IsOpen, Domains
  <2>5. NoEvent \/ WorkerEvent
    BY <2>1, <2>2, Zenon DEF WorkerEvent, WorkerState
  <2>6. QED
    BY <2>3, <2>4, <2>5, Zenon DEF Reports, Account
<1>5. CASE Fail(c)
  <2>1. crd[c] = "fail" /\ Set(crd, c, "exit") /\ NoEvent /\ UNCHANGED <<worker, gone, wk, activeQ>>
    BY <1>5, Zenon DEF Fail, Exit, NoEvent, logvars, TakeNone
  <2>2. worker[c] = None
    BY <1>1, <2>1, Zenon DEF ConnInv
  <2>3. Good(c)
    BY <2>1, <2>2, Ends, Zenon
  <2>4. SameStage(c) /\ SameOpen(c)
    BY <1>1, <2>1, Zenon DEF SameStage, SameOpen, Stage, IsOpen, Domains
  <2>5. QED
    BY <2>1, <2>3, <2>4, Zenon DEF Reports, Account
<1>6. QED
  BY <1>2, <1>3, <1>4, <1>5, Zenon

\* ReturnWorker: the worker is idle before it is let go.
LEMMA ReturnReports ==
    ASSUME ServerInv, NEW c \in Conn, UNCHANGED <<client, handler, target>>,
           FreeEvent(c) \/ ReturnWorker(c) \/ Returned(c)
    PROVE  Reports(c)
<1>1. Domains /\ ConnInv(c)
  BY Zenon DEF ServerInv
<1>2. worker[c] \in Worker /\ worker[c] # None /\ PoolOf[worker[c]] \in Pool
  BY <1>1, ServerAssumption, Zenon DEF FreeEvent, ReturnWorker, Returned, ConnInv
<1>3. CASE FreeEvent(c)
  <2>1. /\ crd[c] = "free" /\ Set(crd, c, "rtn") /\ UNCHANGED <<worker, gone, wk, activeQ>>
        /\ PublishStateEvent(ConnEvt(PoolOf[worker[c]], "Assign", "Idle"))
    BY <1>3, Zenon DEF FreeEvent, TakeNone
  <2>2. Fits(c, "rtn")
    BY <1>2, <2>1, Zenon DEF Fits
  <2>3. Good(c)
    BY <2>1, <2>2, GoesOn, Zenon
  <2>4. Moves(c)
    BY <1>1, <1>2, <2>1, Zenon DEF Moves, SameOpen, Stage, IsOpen, Domains
  <2>5. QED
    BY <2>3, <2>4, Zenon DEF Reports, Account
<1>4. CASE ReturnWorker(c)
  <2>1. crd[c] = "rtn" /\ NoEvent /\ UNCHANGED <<gone, wk, activeQ>>
    BY <1>4, Zenon DEF ReturnWorker, NoEvent, logvars
  <2>2. CASE UNCHANGED worker /\ Set(crd, c, "acpt")
    <3>1. Fits(c, "acpt")
      BY <1>2, <2>1, Zenon DEF Fits
    <3>2. Good(c)
      BY <2>1, <2>2, <3>1, GoesOn, Zenon
    <3>3. SameStage(c) /\ SameOpen(c)
      BY <1>1, <2>1, <2>2, Zenon DEF SameStage, SameOpen, Stage, IsOpen, Domains
    <3>4. QED
      BY <2>1, <3>2, <3>3, Zenon DEF Reports, Account
  <2>3. CASE gone[c] /\ Set(crd, c, "run") /\ Set(worker, c, None)
    <3>1. Frame(c) /\ ExitedStay
      BY <1>1, <2>1, <2>3, Zenon DEF Domains, Frame, Other, ExitedStay
    <3>2. ConnInv(c)' /\ OwnersKept(c)
      BY <1>1, <2>1, <2>3, Zenon DEF ConnInv, Domains, OwnersKept, Owns
    <3>3. SameStage(c) /\ SameOpen(c)
      BY <1>1, <2>1, <2>3, Zenon DEF SameStage, SameOpen, Stage, IsOpen, Domains
    <3>4. QED
      BY <2>1, <3>1, <3>2, <3>3, Zenon DEF Reports, Account, Good
  <2>4. QED
    BY <1>4, <2>2, <2>3, Zenon DEF ReturnWorker
<1>5. CASE Returned(c)
  <2>1. /\ crd[c] = "acpt" /\ PublishStateEvent(WorkerEvt(worker[c], "acpt"))
        /\ activeQ' = activeQ \cup {worker[c]}
        /\ wk' = [wk EXCEPT ![worker[c]] = IF @ = "exited" THEN @ ELSE "idle"]
        /\ crd' \in Signal(PoolOf[worker[c]], [crd EXCEPT ![c] = "run"])
        /\ Set(worker, c, None) /\ UNCHANGED gone
    BY <1>5, Zenon DEF Returned
  <2>2. /\ DOMAIN crd' = Conn /\ crd'[c] = "run"
        /\ \A d \in Conn \ {c} : crd'[d] = crd[d] \/ (crd[d] = "wait" /\ crd'[d] = "wake")
    BY <1>1, <2>1, Zenon DEF Signal, Domains
  <2>3. Frame(c) /\ ExitedStay
    BY <1>1, <1>2, <2>1, <2>2, Zenon DEF Domains, Frame, Other, ExitedStay
  <2>4. ConnInv(c)'
    BY <1>1, <2>1, <2>2, Zenon DEF ConnInv, Domains
  <2>5. OwnersKept(c)
    BY <1>1, <2>1, Zenon DEF OwnersKept, Owns, Out, Domains
  <2>6. SameStage(c) /\ SameOpen(c)
    BY <1>1, <2>1, <2>2, Zenon DEF SameStage, SameOpen, Stage, IsOpen, Domains
  <2>7. WorkerEvent
    BY <1>2, <2>1, Zenon DEF WorkerEvent, WorkerState
  <2>8. QED
    BY <2>3, <2>4, <2>5, <2>6, <2>7, Zenon DEF Reports, Account, Good
<1>6. QED
  BY <1>3, <1>4, <1>5, Zenon

\* The idle timers, aborts and panics.
LEMMA FaultReports ==
    ASSUME ServerInv, NEW c \in Conn, IdleTimeout(c) \/ Abort(c) \/ CoordinatorPanics(c)
    PROVE  Reports(c)
<1>1. Domains /\ ConnInv(c)
  BY Zenon DEF ServerInv
<1>2. UNCHANGED <<client, handler, worker, gone, target, wk, activeQ>> /\ NoEvent
  BY Zenon DEF IdleTimeout, Abort, CoordinatorPanics, NilMessage, Panic, TakeNone, NoEvent, logvars, clientvars
<1>3. \/ UNCHANGED crd
      \/ crd[c] \in {"run", "req"} /\ worker[c] # None /\ Set(crd, c, "strand")
  BY <1>1, Zenon DEF IdleTimeout, Abort, CoordinatorPanics, NilMessage, Panic, ConnInv
<1>4. CASE UNCHANGED crd
  BY <1>1, <1>2, <1>4, Zenon DEF Reports, Good, Frame, Other, Domains, ExitedStay, ConnInv, Gone, OwnersKept, Owns,
                          Account, SameStage, SameOpen, Stage, IsOpen
<1>5. CASE crd[c] \in {"run", "req"} /\ worker[c] # None /\ Set(crd, c, "strand")
  <2>1. Fits(c, "strand")
    BY <1>5, Zenon DEF Fits
  <2>2. Good(c)
    BY <1>2, <1>5, <2>1, GoesOn, Zenon
  <2>3. SameStage(c) /\ SameOpen(c)
    BY <1>1, <1>2, <1>5, Zenon DEF SameStage, SameOpen, Stage, IsOpen, Domains
  <2>4. QED
    BY <1>2, <2>2, <2>3, Zenon DEF Reports, Account
<1>6. QED
  BY <1>3, <1>4, <1>5, Zenon

\* Every step of a connection.
LEMMA ConnReports ==
    ASSUME ServerInv, NEW c \in Conn,
           \/ Dial(c) \/ Send(c) \/ Leave(c) \/ Accept(c) \/ HandleConnection(c)
           \/ Coordinator(c) \/ CoordinatorPanics(c) \/ IdleTimeout(c) \/ Abort(c)
    PROVE  Reports(c)
<1>1. CASE Coordinator(c)
  <2>1. UNCHANGED <<client, handler>>
    BY <1>1, Zenon DEF Coordinator, clientvars
  <2>2. QED
    BY <1>1, <2>1, BacklogReports, TakeReports, RunReports, AnswerReports, ExitReports, ReturnReports
      , Zenon DEF Coordinator
<1>2. QED
  BY <1>1, ClientReports, AcceptReports, HandlerReports, FaultReports, Zenon

\* The goroutines of a worker change nothing of a connection but that it is
\* woken up, or that its worker has gone.
Elsewhere ==
    /\ Domains'
    /\ \A c \in Conn : /\ client'[c] = client[c] /\ handler'[c] = handler[c]
                       /\ worker'[c] = worker[c] /\ target'[c] = target[c]
                       /\ crd'[c] = crd[c] \/ (crd[c] = "wait" /\ crd'[c] = "wake")

\* They and the exit of a worker check no worker out and report nothing of a
\* connection to the log.
LEMMA WorkerStep ==
    ASSUME ServerInv, NEW w \in Worker, WorkerGoroutines(w) \/ WorkerExit(w)
    PROVE  /\ Elsewhere /\ (NoEvent \/ WorkerEvent)
           /\ \/ UNCHANGED gone /\ ExitedStay /\ \A v \in Worker : wk'[v] \in Out => wk[v] \in Out
              \/ Set(wk, w, "start") /\ gone' = [c \in Conn |-> gone[c] \/ worker[c] = w]
<1>1. Domains
  BY Zenon DEF ServerInv
<1>2. UNCHANGED <<client, handler, worker, target>>
  BY Zenon DEF WorkerGoroutines, WorkerExit, clientvars, crdvars
<1>3. ASSUME NEW from, NEW to, from # "exited", from = "used" \/ to \notin Out, wk[w] = from, Set(wk, w, to)
      PROVE  ExitedStay /\ \A v \in Worker : wk'[v] \in Out => wk[v] \in Out
  BY <1>1, <1>3, Zenon DEF ExitedStay, Domains, Out
<1>4. ASSUME crd' = crd \/ (\E p \in Pool : crd' \in Signal(p, crd)), activeQ' \subseteq Worker, DOMAIN gone' = Conn,
             wk' = wk \/ \E to : Set(wk, w, to)
      PROVE  Elsewhere
  <2>1. DOMAIN crd' = Conn /\ \A c \in Conn : crd'[c] = crd[c] \/ (crd[c] = "wait" /\ crd'[c] = "wake")
    BY <1>1, <1>4, Zenon DEF Signal, Domains
  <2>2. QED
    BY <1>1, <1>2, <1>4, <2>1, Zenon DEF Elsewhere, Domains
<1>5. CASE StartWorker(w) \/ AttachToWorker(w) \/ RecoverBegin(w) \/ RecoverFree(w)
  <2>1. WorkerEvent
    BY <1>5, Zenon DEF StartWorker, AttachToWorker, RecoverBegin, RecoverFree, Report, WorkerEvent, WorkerState
  <2>2. PICK from \in {"start", "attach", "strand", "recover"}, to \in {"attach", "ready", "recover", "rrtn"} :
               wk[w] = from /\ Set(wk, w, to)
    BY <1>5, Zenon DEF StartWorker, AttachToWorker, RecoverBegin, RecoverFree, Report, ToWorker
  <2>3. UNCHANGED <<activeQ, crd, gone>>
    BY <1>5, Zenon DEF StartWorker, AttachToWorker, RecoverBegin, RecoverFree, Report
  <2>4. QED
    BY <1>1, <1>3, <1>4, <2>1, <2>2, <2>3, Zenon DEF Domains, Out
<1>6. CASE DoRead(w)
  <2>1. WorkerEvent /\ UNCHANGED <<activeQ, crd, gone>>
    BY <1>6, Zenon DEF DoRead, WorkerEvent, WorkerState
  <2>2. UNCHANGED wk \/ \E to : wk[w] = "used" /\ Set(wk, w, to)
    BY <1>6, Zenon DEF DoRead, ToWorker
  <2>3. ExitedStay /\ \A v \in Worker : wk'[v] \in Out => wk[v] \in Out
    BY <1>3, <2>2, Zenon DEF ExitedStay
  <2>4. QED
    BY <1>1, <1>4, <2>1, <2>2, <2>3, Zenon DEF Domains
<1>7. CASE RecoverDone(w)
  <2>1. NoEvent /\ UNCHANGED <<activeQ, crd, gone, wk>>
    BY <1>7, Zenon DEF RecoverDone, NoEvent, logvars
  <2>2. QED
    BY <1>1, <1>4, <2>1, Zenon DEF Domains, ExitedStay
<1>8. CASE RecoverTimeout(w) \/ RecoverReturn(w) \/ RecoverGivesUp(w) \/ WorkerExit(w)
  <2>1. NoEvent /\ UNCHANGED <<activeQ, crd, gone>>
    BY <1>8, Zenon DEF RecoverTimeout, RecoverReturn, RecoverGivesUp, WorkerExit, NoEvent, logvars, crdvars
  <2>2. PICK to \in {"exited", "racpt", "dropped"} : wk[w] # "exited" /\ Set(wk, w, to)
    BY <1>8, Zenon DEF RecoverTimeout, RecoverReturn, RecoverGivesUp, WorkerExit, ToWorker
  <2>3. QED
    BY <1>1, <1>3, <1>4, <2>1, <2>2, Zenon DEF Domains, Out
<1>9. CASE WorkerReady(w) \/ RecoverReturned(w)
  <2>1. NoEvent \/ WorkerEvent
    BY <1>9, Zenon DEF WorkerReady, RecoverReturned, NoEvent, logvars, WorkerEvent, WorkerState
  <2>2. wk[w] \in {"ready", "racpt"} /\ Set(wk, w, "idle") /\ Push(w)
    BY <1>9, Zenon DEF WorkerReady, RecoverReturned, ToWorker
  <2>3. activeQ' \subseteq Worker /\ UNCHANGED gone /\ \E p \in Pool : crd' \in Signal(p, crd)
    BY <1>1, <2>2, ServerAssumption, Zenon DEF Push, Domains
  <2>4. QED
    BY <1>1, <1>3, <1>4, <2>1, <2>2, <2>3, Zenon DEF Domains, Out
<1>10. CASE RestartWorker(w)
  <2>1. /\ NoEvent /\ UNCHANGED crd /\ activeQ' \subseteq activeQ /\ Set(wk, w, "start")
        /\ gone' = [c \in Conn |-> gone[c] \/ worker[c] = w]
    BY <1>10, Zenon DEF RestartWorker, NoEvent, logvars, ToWorker
  <2>2. QED
    BY <1>1, <1>4, <2>1, Zenon DEF Domains
<1>11. QED
  BY <1>5, <1>8, <1>9, <1>10, <1>6, <1>7, Zenon DEF WorkerGoroutines

\* The goroutines of a worker keep the invariant.
LEMMA WorkerInv ==
    ASSUME ServerInv, NEW w \in Worker, WorkerGoroutines(w) \/ WorkerExit(w)
    PROVE  ServerInv'
<1>1. Domains /\ Domains'
  BY WorkerStep, Zenon DEF ServerInv, Elsewhere
<1>2. CASE UNCHANGED gone /\ ExitedStay /\ \A v \in Worker : wk'[v] \in Out => wk[v] \in Out
  <2>1. \A c \in Conn : Other(c)
    BY <1>2, WorkerStep, Zenon DEF Elsewhere, Other
  <2>2. \A c \in Conn : ConnInv(c)'
    BY <1>2, <2>1, OtherInv, Zenon DEF ServerInv
  <2>3. NoOrphan'
    <3>1. SUFFICES ASSUME NEW v \in Worker, wk'[v] \in Out PROVE \E c \in Conn : Owns(c, v)'
      BY Zenon DEF NoOrphan, Owns, Out
    <3>2. PICK c \in Conn : Owns(c, v)
      BY <1>2, <3>1, Zenon DEF ServerInv, NoOrphan, Owns, Out
    <3>3. Owns(c, v)'
      BY <2>1, <3>2, Zenon DEF Owns, Other
    <3>4. QED
      BY <3>3, Zenon
  <2>4. QED
    BY <1>1, <2>2, <2>3, Zenon DEF ServerInv
<1>3. CASE Set(wk, w, "start") /\ gone' = [c \in Conn |-> gone[c] \/ worker[c] = w]
  <2>1. ASSUME NEW c \in Conn PROVE ConnInv(c)'
    <3>1. ConnInv(c)
      BY Zenon DEF ServerInv
    <3>2. (Gone(c) => Gone(c)') \/ worker[c] = None
      BY <1>1, <1>3, <3>1, WorkerStep, Zenon DEF Elsewhere, Gone, Domains, ConnInv
    <3>3. QED
      BY <3>1, <3>2, WorkerStep, Zenon DEF Elsewhere, ConnInv
  <2>2. NoOrphan'
    <3>1. SUFFICES ASSUME NEW v \in Worker, wk'[v] \in Out PROVE \E c \in Conn : Owns(c, v)'
      BY Zenon DEF NoOrphan, Owns, Out
    <3>2. v # w /\ wk[v] \in Out
      BY <1>1, <1>3, <3>1, Zenon DEF Domains, Out
    <3>3. PICK c \in Conn : Owns(c, v)
      BY <3>2, Zenon DEF ServerInv, NoOrphan, Owns, Out
    <3>4. Owns(c, v)'
      BY <1>3, <3>2, <3>3, WorkerStep, Zenon DEF Owns, Elsewhere
    <3>5. QED
      BY <3>4, Zenon
  <2>3. QED
    BY <1>1, <2>1, <2>2, Zenon DEF ServerInv
<1>4. QED
  BY <1>2, <1>3, WorkerStep, Zenon

\* The invariant of the connections, in every reachable state.
LEMMA NextServerInv == ASSUME ServerInv, [Next]_vars PROVE ServerInv'
<1>1. ASSUME NEW c \in Conn,
             \/ Dial(c) \/ Send(c) \/ Leave(c) \/ Accept(c) \/ HandleConnection(c)
             \/ Coordinator(c) \/ CoordinatorPanics(c) \/ IdleTimeout(c) \/ Abort(c)
      PROVE  ServerInv'
  BY <1>1, ConnReports, GoodInv, Zenon DEF Reports
<1>2. CASE LogGoroutine \/ BouncerTime \/ UNCHANGED vars
  <2>1. UNCHANGED <<client, handler, crd, worker, gone, target, wk, activeQ>>
    BY <1>2, Zenon DEF LogGoroutine, BouncerTime, vars, clientvars, crdvars, poolvars
  <2>2. QED
    BY <2>1 DEF ServerInv, Domains, NoOrphan, ConnInv, Gone
<1>3. QED
  BY <1>1, <1>2, WorkerInv, Zenon DEF Next

\* The invariant holds throughout.
LEMMA SpecServerInv == Spec => []ServerInv
<1>1. Init => ServerInv
  BY ServerAssumption DEF Init, ServerInv, Domains, NoOrphan, ConnInv
<1>2. QED
  BY <1>1, NextServerInv, PTL DEF Spec

\* However a session ends (client gone, worker gone, timeout, abort, answer), a
\* worker that is checked out has a coordinator that returns or recovers it; only
\* Recover itself may leave a worker behind, by its give-up.
THEOREM NoWorkerDropped == Spec => []NoOrphan
<1>1. ServerInv => NoOrphan
  BY Zenon DEF ServerInv
<1>2. QED
  BY <1>1, SpecServerInv, PTL
=============================================================================
