---------------------------- MODULE TafQueueProofs ----------------------------
(***************************************************************************)
(* Theorems about two parts below the coordinator, for every value of the  *)
(* constants.  Failover to a second database: the ranges of the statistic  *)
(* of Taf under racing reports, and what DispatchTAFSession (TafDispatch)  *)
(* shows to a client.  The queue of idle workers: the ring of RingQueue    *)
(* keeps its idmap exact and implements the list of Deque.                 *)
(***************************************************************************)
EXTENDS Taf, TafDispatch, RingQueue, TLAPS

-----------------------------------------------------------------------------
(* The statistic: any number of coordinators, and all constants that       *)
(* satisfy TafAssumption, which those of taf.go do                         *)

PctRange == tafMinPct .. tafMaxPct
DeltaRange == {d \in PowersOfTwo : d <= tafDeltaPctMax}

\* The ranges of the shared values are not inductive: a store writes what the
\* caller computed from earlier loads.  The loaded values are in the same
\* ranges, and the test on deltaPct still holds of the loaded value when it is
\* about to be stored.
RangeInv ==
  /\ pct \in PctRange /\ deltaPct \in DeltaRange
  /\ up \in BOOLEAN
  /\ step \in [Reporter -> Steps] /\ good \in [Reporter -> BOOLEAN]
  /\ myPct \in [Reporter -> PctRange] /\ myDelta \in [Reporter -> DeltaRange]
  /\ \A c \in Reporter : step[c] = "storeDelta" => DeltaMoves(c, myDelta[c])

\* NotifyError stores a value of the range, from any value of the range.
LEMMA LoweredInRange == \A p \in PctRange, d \in DeltaRange : Lowered(p, d) \in PctRange
  BY TafAssumption DEF Lowered, Smaller, PctRange, DeltaRange, PowersOfTwo

\* So does NotifyOK.
LEMMA RaisedInRange == \A p \in PctRange : Raised(p) \in PctRange
  BY TafAssumption DEF Raised, PctRange

\* Halving a deltaPct above its minimum, or doubling one below its maximum,
\* stays among the powers of two between them.
LEMMA DeltaSteps ==
  \A d \in DeltaRange : /\ d > tafDeltaPctMin => d \div 2 \in DeltaRange
                        /\ d < tafDeltaPctMax => 2 * d \in DeltaRange
  BY TafAssumption DEF DeltaRange, PowersOfTwo

\* InitTAF establishes the invariant.
LEMMA InitRange == InitTAF => RangeInv
  BY TafAssumption DEF InitTAF, RangeInv, PctRange, DeltaRange, PowersOfTwo, Steps

\* Every load, store and switch of the database preserves it.
LEMMA NextRange == RangeInv /\ [TafNext]_tafVars => RangeInv'
<1> SUFFICES ASSUME RangeInv, [TafNext]_tafVars PROVE RangeInv'
  BY Zenon
<1> USE DEF RangeInv, Steps
<1>1. CASE Switch
  BY <1>1, Zenon DEF Switch, DeltaMoves
<1>2. ASSUME NEW c \in Reporter, UsePrimary(c) PROVE RangeInv'
  BY <1>2, Zenon DEF UsePrimary, DeltaMoves
<1>3. ASSUME NEW c \in Reporter, Notify(c) PROVE RangeInv'
  BY <1>3, Zenon DEF Notify, DeltaMoves
<1>4. ASSUME NEW c \in Reporter, LoadDelta(c) PROVE RangeInv'
  BY <1>4, Zenon DEF LoadDelta, DeltaMoves
<1>5. ASSUME NEW c \in Reporter, StorePct(c) PROVE RangeInv'
  <2>1. pct' \in PctRange
    BY <1>5, LoweredInRange, RaisedInRange, Zenon DEF StorePct
  <2> QED
    BY <1>5, <2>1, Zenon DEF StorePct, DeltaMoves
<1>6. ASSUME NEW c \in Reporter, StoreDelta(c) PROVE RangeInv'
  <2>1. deltaPct' \in DeltaRange
    BY <1>6, DeltaSteps, Zenon DEF StoreDelta, DeltaMoves
  <2> QED
    BY <1>6, <2>1, Zenon DEF StoreDelta, DeltaMoves
<1>7. CASE UNCHANGED tafVars
  BY <1>7, Zenon DEF tafVars, DeltaMoves
<1> QED
  BY <1>1, <1>2, <1>3, <1>4, <1>5, <1>6, <1>7, Zenon DEF TafNext, ReporterStep

\* The invariant holds in every reachable state.
LEMMA SpecRange == TafSpec => []RangeInv
<1>1. QED
  BY InitRange, NextRange, PTL DEF TafSpec

\* No race between NotifyOK and NotifyError takes pct out of the range
\* taf.go:60 states.
THEOREM PctStaysInRange == TafSpec => []PctInRange
<1>1. RangeInv => PctInRange
  BY Zenon DEF RangeInv, PctInRange, PctRange
<1>2. QED
  BY <1>1, SpecRange, PTL

\* Nor does one make deltaPct zero or larger than its maximum.
THEOREM DeltaStaysInRange == TafSpec => []DeltaInRange
<1>1. RangeInv => DeltaInRange
  BY Zenon DEF RangeInv, DeltaInRange, DeltaRange
<1>2. QED
  BY <1>1, SpecRange, PTL

\* Every variable keeps its type: the unsigned values never go below zero.
THEOREM TafTypeCorrect == TafSpec => []TypeOK
<1>1. RangeInv => TypeOK
  BY TafAssumption DEF RangeInv, TypeOK, PctRange, DeltaRange, PowersOfTwo
<1>2. QED
  BY <1>1, SpecRange, PTL

-----------------------------------------------------------------------------
(* Dispatch: any number of coordinators, workers and statements            *)

USE DEF Set, stat, filter

-----------------------------------------------------------------------------
(* What the client was sent *)

Message(source, kind) == [source |-> source, kind |-> kind]
One(source, kind) == <<Message(source, kind)>>
From(c, source) == \E k \in Kind \cup {"any"} : shown[c] = One(source, k)

\* Before a worker answers nothing was sent.  While the primary runs, what was
\* sent is the primary's, its first message is no error on the list, and then
\* the filter says ok; the last worker's messages follow no others.
Sent(c) ==
    /\ dataSent[c] => ok[c] /\ at[c] \in {"primary", "record", "timedOut"}
    /\ at[c] \in {"primary", "record", "timedOut"} =>
          \/ ~dataSent[c] /\ shown[c] = <<>>
          \/ dataSent[c] /\ \E k \in {"data", "error"} : shown[c] = One("primary", k)
    /\ at[c] \in {"fallback", "plain"} => shown[c] = <<>> \/ From(c, at[c])
    /\ at[c] \notin {"primary", "record", "timedOut", "fallback", "plain"} => shown[c] = <<>>

FilterTypes ==
    /\ at \in [Caller -> {"idle", "isSlow", "choose", "primary", "record", "timedOut",
                          "fbWait", "plainWait", "fallback", "plain", "held"}]
    /\ ok \in [Caller -> BOOLEAN] /\ dataSent \in [Caller -> BOOLEAN]
    /\ DOMAIN shown = Caller /\ shown = [c \in Caller |-> shown[c]]

SentInv == FilterTypes /\ \A c \in Caller : Sent(c)

\* At first no request is under way.
LEMMA InitSentInv == Init => SentInv
BY Zenon DEF Init, SentInv, FilterTypes, Sent

\* A sequence of one message.
LEMMA OneFacts ==
    ASSUME NEW source, NEW kind, NEW seq, seq = One(source, kind)
    PROVE  /\ seq # <<>> /\ Len(seq) = 1 /\ seq[Len(seq)].source = source
           /\ Head(seq) = Message(source, kind)
BY DEF One, Message

\* What a message adds to what was sent: nothing after one of the same source.
LEMMA ShowFirst ==
    ASSUME NEW c \in Caller, NEW s, NEW k
    PROVE  /\ shown[c] = <<>> => Show(c, s, k) = One(s, k)
           /\ \A j : shown[c] = One(s, j) => Show(c, s, k) = shown[c]
<1>1. Append(<<>>, Message(s, k)) = One(s, k)
  BY DEF One
<1>2. QED
  BY <1>1, OneFacts DEF Show, Message

\* A step of one coordinator keeps the invariant: one step per group of actions
\* that treat the filter alike.
LEMMA CallerSentInv ==
    ASSUME SentInv, NEW c \in Caller,
           Ask(c) \/ AskHeld(c) \/ Locked(c) \/ Step(c) \/ Sends(c)
    PROVE  SentInv'
<1> USE DEF SentInv, FilterTypes, Sent, From
<1>0. ASSUME NEW x \in {"isSlow", "choose", "record", "timedOut"}, Set(at, c, x), UNCHANGED filter,
             x \in {"record", "timedOut"} => at[c] \in {"primary", "record"},
             x \in {"isSlow", "choose"} => at[c] \in {"idle", "isSlow"}
      PROVE  SentInv'
  BY <1>0
<1>1. CASE Ask(c) \/ Timeout(c)
  <2>1. CASE Ask(c)
    BY <1>0, <2>1, Zenon DEF Ask, TryLock
  <2>2. CASE Timeout(c)
    BY <1>0, <2>2, Zenon DEF Timeout, TryLock
  <2>3. QED
    BY <1>1, <2>1, <2>2, Zenon
<1>2. CASE IsNormallySlow(c) \/ RecordTimeout(c)
  <2>1. CASE IsNormallySlow(c)
    <3>1. at[c] = "isSlow" /\ Set(at, c, "choose") /\ UNCHANGED filter
      BY <2>1, Zenon DEF IsNormallySlow
    <3>2. QED
      BY <1>0, <3>1, Zenon
  <2>2. CASE RecordTimeout(c)
    <3>1. at[c] = "record" /\ Set(at, c, "timedOut") /\ UNCHANGED filter
      BY <2>2, Zenon DEF RecordTimeout
    <3>2. QED
      BY <1>0, <3>1, Zenon
  <2>3. QED
    BY <1>2, <2>1, <2>2, Zenon
<1>3. CASE AskHeld(c) \/ PlainStays(c)
  BY <1>3 DEF AskHeld, PlainStays
<1>4. CASE Choose(c) \/ GetWorker(c)
  BY <1>4 DEF Choose, GetWorker
<1>5. CASE End(c)
  BY <1>5 DEF End
<1>6. CASE Set(at, c, "fbWait") /\ UNCHANGED filter /\ ~dataSent[c] /\ shown[c] = <<>>
  BY <1>6
<1>7. CASE PrimaryEnds(c) \/ TimedOut(c) \/ PrimaryFails(c)
  <2>1. End(c) \/ (Set(at, c, "fbWait") /\ UNCHANGED filter /\ ~dataSent[c])
    BY <1>7, Zenon DEF PrimaryEnds, TimedOut, PrimaryFails
  <2>2. ~dataSent[c] => shown[c] = <<>>
    BY <1>7, Zenon DEF PrimaryEnds, TimedOut, PrimaryFails
  <2>3. QED
    BY <1>5, <1>6, <2>1, <2>2, Zenon
<1>8. CASE PrimaryStays(c) \/ PrimaryAborts(c) \/ BacklogTimeout(c) \/ LastEnds(c) \/ FallbackStays(c) \/ LastFails(c)
  BY <1>5, <1>8, Zenon DEF PrimaryStays, PrimaryAborts, BacklogTimeout, LastEnds, FallbackStays, LastFails
<1>9. CASE LastSends(c)
  <2>1. /\ at[c] \in {"fallback", "plain"} /\ UNCHANGED <<at, ok, dataSent>>
        /\ shown' = [shown EXCEPT ![c] = Show(c, at[c], "any")]
    BY <1>9, Zenon DEF LastSends
  <2>2. Show(c, at[c], "any") = One(at[c], "any") \/ (From(c, at[c]) /\ Show(c, at[c], "any") = shown[c])
    BY <2>1, ShowFirst
  <2>3. QED
    BY <2>1, <2>2
<1>10. ASSUME NEW k \in Kind, PrimarySends(c, k) PROVE SentInv'
  <2>0. /\ at[c] = "primary" /\ UNCHANGED at
        /\ ok' = [ok EXCEPT ![c] = Filter(c, k)]
        /\ dataSent' = [dataSent EXCEPT ![c] = dataSent[c] \/ ok'[c]]
        /\ shown' = [shown EXCEPT ![c] = IF ok'[c] THEN Show(c, "primary", k) ELSE shown[c]]
    BY <1>10, Zenon DEF PrimarySends
  <2>1. ok'[c] = Filter(c, k) /\ ok'[c] \in BOOLEAN /\ dataSent'[c] = (dataSent[c] \/ ok'[c])
    BY <2>0, Zenon DEF Filter
  <2>2. CASE dataSent[c] /\ shown[c] # <<>>
    <3>1. Show(c, "primary", k) = shown[c]
      BY <2>0, <2>2, ShowFirst
    <3>2. QED
      BY <2>0, <2>1, <2>2, <3>1 DEF Filter
  <2>3. CASE shown[c] = <<>> /\ ok'[c]
    <3>0. ~dataSent[c]
      BY <2>0, <2>3, OneFacts
    <3>1. k \in {"data", "error"}
      BY <3>0, <2>0, <2>1, <2>3, Zenon DEF Filter, Kind
    <3>2. Show(c, "primary", k) = One("primary", k)
      BY <2>3, ShowFirst
    <3>3. shown' = [shown EXCEPT ![c] = One("primary", k)]
      BY <2>0, <2>3, <3>2, Zenon
    <3>4. FilterTypes'
      BY <2>0, <2>1, <3>3
    <3>5. at'[c] = "primary" /\ ok'[c] /\ dataSent'[c] /\ shown'[c] = One("primary", k)
      BY <2>0, <2>1, <2>3, <3>3, Zenon
    <3>6. Sent(c)'
      BY <3>1, <3>5, Zenon
    <3>7. \A d \in Caller : d # c => Sent(d)'
      BY <2>0, <3>3
    <3>8. QED
      BY <3>4, <3>6, <3>7
  <2>4. CASE ~ok'[c]
    BY <2>0, <2>1, <2>4 DEF Filter
  <2>5. QED
    BY <2>0, <2>2, <2>3, <2>4, Zenon
<1>11. QED
  BY <1>1, <1>2, <1>3, <1>4, <1>7, <1>8, <1>9, <1>10, Zenon DEF Step, Locked, Sends

\* So does every step.
LEMMA NextSentInv == SentInv /\ [Next]_vars => SentInv'
<1> SUFFICES ASSUME SentInv, [Next]_vars PROVE SentInv'
  BY Zenon
<1>1. CASE UNCHANGED <<at, filter>>
  BY <1>1 DEF SentInv, FilterTypes, Sent, From
<1>2. CASE Tick \/ UNCHANGED vars \/ \E w \in Worker : Recovered(w) \/ Restarted(w)
  BY <1>1, <1>2, Zenon DEF Tick, vars, Recovered, Restarted
<1>3. QED
  BY <1>2, CallerSentInv, Zenon DEF Next

\* The answer to a request comes from one database: DispatchTAFSession tries the
\* fallback only if the filter let nothing of the primary's pass.
THEOREM AnswerOfOneSource == Spec => []OneSource
<1>1. SentInv => OneSource
  <2> SUFFICES ASSUME SentInv, NEW c \in Caller PROVE Len(shown[c]) <= 1
    BY Zenon DEF OneSource
  <2>1. shown[c] = <<>> \/ \E s, k : shown[c] = One(s, k)
    BY Zenon DEF SentInv, Sent, From
  <2>2. Len(<<>>) = 0
    BY Zenon
  <2>3. QED
    BY <2>1, <2>2, OneFacts
<1>2. QED
  BY <1>1, InitSentInv, NextSentInv, PTL DEF Spec

\* tafResponsePreproc.Write never lets an error that calls for failover pass as
\* the first message of the primary.
THEOREM FailoverErrorHidden == Spec => []FailoverHidden
<1>1. SentInv => FailoverHidden
  <2> SUFFICES ASSUME SentInv, NEW c \in Caller, shown[c] # <<>>
               PROVE  Head(shown[c]) # [source |-> "primary", kind |-> "ora"]
    BY Zenon DEF FailoverHidden
  <2>1. \E s, k : shown[c] = One(s, k) /\ (s # "primary" \/ k # "ora")
    BY Zenon DEF SentInv, Sent, From
  <2>2. \E s, k : Head(shown[c]) = Message(s, k) /\ (s # "primary" \/ k # "ora")
    BY <2>1, OneFacts
  <2>3. QED
    BY <2>2 DEF Message
<1>2. QED
  BY <1>1, InitSentInv, NextSentInv, PTL DEF Spec

-----------------------------------------------------------------------------
(* The statistic *)

\* The counter that is guarded by the lock never gets ahead of the fast queries.
SlowInv ==
    /\ countFast \in 0 .. AllowSlowEveryX /\ fastSince \in 0 .. AllowSlowEveryX
    /\ countFast <= fastSince
    /\ slow \in [Caller -> BOOLEAN]

\* The other steps of a caller leave the counter alone and raise no flag.
LEMMA CallerSlow ==
    ASSUME NEW c \in Caller, Ask(c) \/ AskHeld(c) \/ RecordTimeout(c) \/ Step(c) \/ Sends(c)
    PROVE  UNCHANGED <<countFast, fastSince>> /\ (UNCHANGED slow \/ \E d \in Caller : Set(slow, d, FALSE))
<1>1. CASE Ask(c) \/ AskHeld(c) \/ RecordTimeout(c)
  BY <1>1, Zenon DEF Ask, AskHeld, RecordTimeout
<1>2. CASE Step(c)
  BY <1>2, Zenon DEF Step, Choose, TimedOut, GetWorker, BacklogTimeout, PrimaryEnds, PrimaryStays, Timeout,
      PrimaryFails, PrimaryAborts, LastEnds, FallbackStays, PlainStays, LastFails, End
<1>3. CASE Sends(c)
  BY <1>3, Zenon DEF Sends, LastSends, PrimarySends, End
<1>4. QED
  BY <1>1, <1>2, <1>3, Zenon

\* Every step keeps the invariant; only IsNormallySlow changes the counter.
LEMMA NextSlowInv == SlowInv /\ [Next]_vars => SlowInv'
<1> SUFFICES ASSUME SlowInv, [Next]_vars PROVE SlowInv'
  BY Zenon
<1> USE SlowAssumption DEF SlowInv
<1>1. ASSUME NEW c \in Caller, IsNormallySlow(c) PROVE SlowInv'
  BY <1>1 DEF IsNormallySlow, CountFast, Enough
<1>2. CASE UNCHANGED <<countFast, fastSince>> /\ (UNCHANGED slow \/ \E c \in Caller : Set(slow, c, FALSE))
  BY <1>2, Zenon
<1>3. ASSUME NEW c \in Caller, Ask(c) \/ AskHeld(c) \/ RecordTimeout(c) \/ Step(c) \/ Sends(c) PROVE SlowInv'
  BY <1>2, <1>3, CallerSlow, Zenon
<1>4. CASE Tick \/ UNCHANGED vars \/ \E w \in Worker : Recovered(w) \/ Restarted(w)
  BY <1>2, <1>4, Zenon DEF Tick, vars, Recovered, Restarted
<1>5. QED
  BY <1>1, <1>3, <1>4, Zenon DEF Next, Locked

\* Setting a flag to FALSE raises none.
LEMMA OnlyOff ==
    ASSUME NEW f \in [Caller -> BOOLEAN], NEW c \in Caller, NEW d \in Caller
    PROVE  [f EXCEPT ![d] = FALSE][c] => f[c]
OBVIOUS

\* Two queries let through as slow are as far apart as configured, whoever asks
\* (IsNormallySlow under its try-lock).
THEOREM SlowApart == Spec => SlowSpaced
<1>1. Init => SlowInv
  BY SlowAssumption DEF Init, SlowInv
<1>2. SlowInv /\ [Next]_vars =>
        [\A c \in Caller : slow'[c] /\ ~slow[c] => fastSince >= AllowSlowEveryX]_vars
  <2> SUFFICES ASSUME SlowInv, [Next]_vars, NEW c \in Caller, slow'[c], ~slow[c]
               PROVE  fastSince >= AllowSlowEveryX
    BY Zenon
  <2>1. CASE UNCHANGED slow \/ \E d \in Caller : Set(slow, d, FALSE)
    <3>1. slow \in [Caller -> BOOLEAN]
      BY Zenon DEF SlowInv
    <3>2. ASSUME NEW d \in Caller, slow' = [slow EXCEPT ![d] = FALSE] PROVE slow'[c] => slow[c]
      BY <3>1, <3>2, OnlyOff, Zenon
    <3>3. QED
      BY <2>1, <3>2, Zenon
  <2>2. CASE \E d \in Caller : IsNormallySlow(d)
    <3>1. PICK d \in Caller : IsNormallySlow(d)
      BY <2>2, Zenon
    <3> DEFINE r == IF records[sql[d]] = None THEN None ELSE Current(records[sql[d]])
               granted == (r # None /\ r.cnt >= NormallySlowCount) /\ countFast >= AllowSlowEveryX
    <3>2. slow' = [slow EXCEPT ![d] = granted]
      BY <3>1, Zenon DEF IsNormallySlow
    <3>3. (granted = FALSE \/ granted = TRUE) /\ (granted => countFast >= AllowSlowEveryX)
      OBVIOUS
    <3> HIDE DEF granted, r
    <3>4. CASE granted = FALSE
      BY <2>1, <3>2, <3>4, Zenon
    <3>5. CASE granted
      BY <3>3, <3>5, SlowAssumption DEF SlowInv
    <3>6. QED
      BY <3>3, <3>4, <3>5, Zenon
  <2> USE SlowAssumption DEF SlowInv
  <2>3. CASE \E d \in Caller : Ask(d) \/ AskHeld(d) \/ RecordTimeout(d) \/ Step(d) \/ Sends(d)
    BY <2>1, <2>3, CallerSlow, Zenon
  <2>4. CASE Tick \/ UNCHANGED vars \/ \E w \in Worker : Recovered(w) \/ Restarted(w)
    BY <2>1, <2>4, Zenon DEF Tick, vars, Recovered, Restarted
  <2>5. QED
    BY <2>2, <2>3, <2>4, Zenon DEF Next, Locked
<1>3. QED
  BY <1>1, <1>2, NextSlowInv, PTL DEF Spec, SlowSpaced

HIDE DEF Set, stat, filter

-----------------------------------------------------------------------------
(* The queue of idle workers: remainders and lists *)


\* Remainders by the capacity: the slot i slots after slot h.
LEMMA WrapSum ==
    ASSUME NEW c \in Nat \ {0}, NEW h \in 0 .. c - 1, NEW i \in 0 .. c - 1
    PROVE  (h + i) % c = IF h + i < c THEN h + i ELSE h + i - c
<1>1. CASE h + i < c
  BY <1>1
<1>2. CASE h + i >= c
  BY <1>2
<1>3. QED
  BY <1>1, <1>2

\* incr and decr of a slot number: the neighbours of slot h.
LEMMA WrapNext ==
    ASSUME NEW c \in Nat \ {0}, NEW h \in 0 .. c - 1
    PROVE  /\ (h + 1) % c = IF h + 1 = c THEN 0 ELSE h + 1
           /\ (h + c - 1) % c = IF h = 0 THEN c - 1 ELSE h - 1
<1>1. (h + 1) % c = IF h + 1 = c THEN 0 ELSE h + 1
  <2>1. CASE h + 1 = c
    BY <2>1
  <2>2. CASE h + 1 < c
    BY <2>2
  <2>3. QED
    BY <2>1, <2>2
<1>2. (h + c - 1) % c = IF h = 0 THEN c - 1 ELSE h - 1
  <2>1. CASE h = 0
    BY <2>1
  <2>2. CASE h >= 1
    BY <2>2
  <2>3. QED
    BY <2>1, <2>2
<1>3. QED
  BY <1>1, <1>2, Zenon

\* The way from slot a to slot b, as remove counts the slots it moves.
LEMMA WrapDist ==
    ASSUME NEW c \in Nat \ {0}, NEW a \in 0 .. c - 1, NEW b \in 0 .. c - 1
    PROVE  (b + c - a) % c = IF a <= b THEN b - a ELSE b + c - a
<1>1. CASE a <= b
  BY <1>1
<1>2. CASE b < a
  BY <1>2
<1>3. QED
  BY <1>1, <1>2

\* Membership as a value.
LEMMA IsMember ==
    ASSUME NEW x, NEW S PROVE (x \in S => (x \in S) = TRUE) /\ (x \notin S => (x \in S) = FALSE)
  OBVIOUS

\* A function on 1 .. n is a list.
LEMMA IsList ==
    ASSUME NEW S, NEW n \in Nat, NEW f \in [1 .. n -> S] PROVE f \in Seq(S) /\ Len(f) = n
  OBVIOUS

\* Lists of one length with the same elements are the same list.
LEMMA SameList ==
    ASSUME NEW S, NEW s \in Seq(S), NEW t \in Seq(S), Len(s) = Len(t),
           \A i \in 1 .. Len(s) : s[i] = t[i]
    PROVE  s = t
  OBVIOUS

\* The list of an empty queue.
LEMMA EmptyList ==
    ASSUME NEW S, NEW s \in Seq(S) PROVE s = <<>> <=> Len(s) = 0
  OBVIOUS

-----------------------------------------------------------------------------
(* A ring and the slots of its elements *)

\* The struct ringQueue of a capacity c.
Shape(c) == [data : [0 .. c - 1 -> Element \cup {Nil}], head : 0 .. c - 1, tail : 0 .. c - 1,
             capacity : {c}, idmap : SUBSET Element]

Rings == UNION {Shape(c) : c \in Nat \ {0}}

\* The slot of the i-th element from the head.
Slot(q, i) == (q.head + i) % q.capacity

\* b is the slot after a, in a ring of capacity c.
After(c, a, b) == b = IF a + 1 = c THEN 0 ELSE a + 1

\* What the fields of a ring are.
LEMMA Fields ==
    ASSUME NEW q \in Rings
    PROVE  /\ q.capacity \in Nat \ {0} /\ q \in Shape(q.capacity)
           /\ q.head \in 0 .. q.capacity - 1 /\ q.tail \in 0 .. q.capacity - 1
           /\ q.data \in [0 .. q.capacity - 1 -> Element \cup {Nil}] /\ q.idmap \in SUBSET Element
<1>1. PICK c \in Nat \ {0} : q \in Shape(c)
  BY Zenon DEF Rings
<1>2. QED
  BY <1>1 DEF Shape

\* The slots are numbered from the head, up to the end of the slice and on from
\* its start.
LEMMA Slots ==
    ASSUME NEW q \in Rings
    PROVE  /\ Length(q) \in 0 .. q.capacity - 1
           /\ \A i \in 0 .. q.capacity - 1 :
                /\ Slot(q, i) = IF q.head + i < q.capacity THEN q.head + i ELSE q.head + i - q.capacity
                /\ Slot(q, i) \in 0 .. q.capacity - 1
           /\ Slot(q, Length(q)) = q.tail /\ Slot(q, 0) = q.head
<1> DEFINE c == q.capacity
<1>1. c \in Nat \ {0} /\ q.head \in 0 .. c - 1 /\ q.tail \in 0 .. c - 1
  BY Fields, Zenon
<1>2. Length(q) \in 0 .. c - 1
  BY <1>1 DEF Length
<1>3. ASSUME NEW i \in 0 .. c - 1
      PROVE  Slot(q, i) = IF q.head + i < c THEN q.head + i ELSE q.head + i - c
  BY <1>1, <1>3, WrapSum, Zenon DEF Slot
<1>4. \A i \in 0 .. c - 1 : Slot(q, i) \in 0 .. c - 1
  BY <1>1, <1>3
<1>5. Slot(q, Length(q)) = q.tail /\ Slot(q, 0) = q.head
  BY <1>1, <1>2, <1>3 DEF Length
<1>6. QED
  BY <1>2, <1>3, <1>4, <1>5, Zenon

\* Two numbers, two slots; and every slot has a number.
LEMMA SlotInj ==
    ASSUME NEW q \in Rings PROVE \A i, j \in 0 .. q.capacity - 1 : Slot(q, i) = Slot(q, j) => i = j
<1> DEFINE c == q.capacity
<1>1. c \in Nat \ {0} /\ q.head \in 0 .. c - 1
  BY Fields, Zenon
<1>2. QED
  BY <1>1, Slots

-----------------------------------------------------------------------------
(* The invariant *)

\* Between head and tail no element is there twice, and idmap has exactly those.
RingInv(q) ==
    /\ q \in Rings
    /\ \A i, j \in 0 .. Length(q) - 1 : At(q, i) = At(q, j) => i = j
    /\ q.idmap = {At(q, i) : i \in 0 .. Length(q) - 1}

\* The slots after and before a slot, and their numbers.
LEMMA NeighbourNumbers ==
    ASSUME NEW q \in Rings, NEW pos \in 0 .. q.capacity - 1
    PROVE  /\ incr(q, pos) = IF pos + 1 = q.capacity THEN 0 ELSE pos + 1
           /\ decr(q, pos) = IF pos = 0 THEN q.capacity - 1 ELSE pos - 1
  BY Fields, WrapNext, Zenon DEF incr, decr

\* incr and decr stay in the slice and are next to the slot they start from.
LEMMA Neighbours ==
    ASSUME NEW q \in Rings, NEW pos \in 0 .. q.capacity - 1
    PROVE  /\ incr(q, pos) \in 0 .. q.capacity - 1 /\ decr(q, pos) \in 0 .. q.capacity - 1
           /\ After(q.capacity, pos, incr(q, pos)) /\ After(q.capacity, decr(q, pos), pos)
<1>1. q.capacity \in Nat \ {0}
  BY Fields, Zenon
<1>2. QED
  BY <1>1, NeighbourNumbers DEF After

\* With the tail one slot further, or the head one slot before, a ring is longer by
\* one: unless q has all slots but one in use, which r would then seem not to have.
LEMMA LengthShifts ==
    ASSUME NEW q \in Rings, NEW r \in Rings, r.capacity = q.capacity,
           \/ r.head = q.head /\ After(q.capacity, q.tail, r.tail)
           \/ r.tail = q.tail /\ After(q.capacity, r.head, q.head),
           Length(q) + 1 < q.capacity \/ Length(r) # 0
    PROVE  Length(r) = Length(q) + 1
<1>1. /\ q.capacity \in Nat \ {0} /\ q.head \in 0 .. q.capacity - 1 /\ q.tail \in 0 .. q.capacity - 1
      /\ r.head \in 0 .. q.capacity - 1 /\ r.tail \in 0 .. q.capacity - 1
  BY Fields, Zenon
<1>2. QED
  BY <1>1 DEF Length, After

\* A ring with the elements of q and one more, e, somewhere among them.
LEMMA OneMoreInv ==
    ASSUME NEW q, RingInv(q), NEW r \in Rings, NEW e, e \notin q.idmap,
           r.idmap = q.idmap \cup {e}, Length(r) = Length(q) + 1,
           NEW k \in 0 .. Length(q), At(r, k) = e,
           \A i \in 0 .. k - 1 : At(r, i) = At(q, i),
           \A i \in k .. Length(q) - 1 : At(r, i + 1) = At(q, i)
    PROVE  RingInv(r)
<1> DEFINE n == Length(q)
           from(i) == IF i < k THEN i ELSE i - 1
<1>1. n \in Nat /\ q \in Rings
  BY Slots DEF RingInv
<1>2. \A i \in 0 .. n : i # k => from(i) \in 0 .. n - 1 /\ At(r, i) = At(q, from(i))
  BY <1>1
<1>3. \A i, j \in 0 .. n : i # k /\ j # k /\ from(i) = from(j) => i = j
  BY <1>1
<1>4. q.idmap = {At(q, i) : i \in 0 .. n - 1} /\ \A i, j \in 0 .. n - 1 : At(q, i) = At(q, j) => i = j
  BY Zenon DEF RingInv
<1>5. k \in 0 .. n /\ 0 .. Length(r) - 1 = 0 .. n
  BY <1>1
<1>6. \A j \in 0 .. n - 1 : \E i \in 0 .. n : At(r, i) = At(q, j)
  <2>1. TAKE j \in 0 .. n - 1
  <2>2. CASE j < k
    BY <1>1, <2>2
  <2>3. CASE ~(j < k)
    <3>1. j \in k .. n - 1 /\ j + 1 \in 0 .. n
      BY <1>1, <2>3
    <3>2. QED
      BY <3>1, Zenon
  <2>4. QED
    BY <2>2, <2>3, Zenon
<1> HIDE DEF n, from
<1>7. ASSUME NEW i \in 0 .. n, i # k PROVE At(r, i) \in q.idmap
  <2>1. from(i) \in 0 .. n - 1 /\ At(r, i) = At(q, from(i))
    BY <1>2, <1>7, Zenon
  <2>2. QED
    BY <1>4, <2>1, Zenon
<1>8. ASSUME NEW i \in 0 .. n, NEW j \in 0 .. n, At(r, i) = At(r, j) PROVE i = j
  <2>1. CASE i = k \/ j = k
    BY <1>7, <1>8, <2>1, Zenon
  <2>2. CASE i # k /\ j # k
    <3>1. from(i) = from(j)
      BY <1>2, <1>4, <1>8, <2>2
    <3>2. QED
      BY <1>3, <2>2, <3>1, Zenon
  <2>3. QED
    BY <2>1, <2>2, Zenon
<1>9. r.idmap = {At(r, i) : i \in 0 .. n}
  <2>1. \A i \in 0 .. n : At(r, i) \in r.idmap
    BY <1>5, <1>7
  <2>2. \A x \in r.idmap : \E i \in 0 .. n : At(r, i) = x
    BY <1>4, <1>5, <1>6
  <2>3. QED
    BY <2>1, <2>2
<1>10. QED
  BY <1>5, <1>8, <1>9, Zenon DEF RingInv

-----------------------------------------------------------------------------
(* Push and PushFront *)

Pushed(q, e) == [q EXCEPT !.data[q.tail] = e, !.tail = incr(q, q.tail), !.idmap = @ \cup {e}]
PushedFront(q, e) ==
    [q EXCEPT !.data[decr(q, q.head)] = e, !.head = decr(q, q.head), !.idmap = @ \cup {e}]

\* The new element is after those of the ring.
LEMMA PushedRing ==
    ASSUME NEW q \in Rings, NEW e \in Element, Length(q) + 1 < q.capacity
    PROVE  /\ Pushed(q, e) \in Rings /\ Pushed(q, e).idmap = q.idmap \cup {e}
           /\ Length(Pushed(q, e)) = Length(q) + 1 /\ At(Pushed(q, e), Length(q)) = e
           /\ \A i \in 0 .. Length(q) - 1 : At(Pushed(q, e), i) = At(q, i)
<1> DEFINE c == q.capacity
           r == Pushed(q, e)
           n == Length(q)
<1>1. /\ c \in Nat \ {0} /\ q \in Shape(c) /\ q.head \in 0 .. c - 1 /\ q.tail \in 0 .. c - 1
      /\ q.data \in [0 .. c - 1 -> Element \cup {Nil}]
  BY Fields, Zenon
<1>2. n \in 0 .. c - 1 /\ Slot(q, n) = q.tail
  BY Slots, Zenon
<1>3. incr(q, q.tail) \in 0 .. c - 1 /\ After(c, q.tail, incr(q, q.tail))
  BY <1>1, Neighbours, Zenon
<1>4. /\ r.data = [q.data EXCEPT ![q.tail] = e] /\ r.head = q.head /\ r.tail = incr(q, q.tail)
      /\ r.capacity = c /\ r.idmap = q.idmap \cup {e} /\ r \in Shape(c)
  BY <1>1, <1>3, Zenon DEF Pushed, Shape
<1>5. r \in Rings
  BY <1>1, <1>4, Zenon DEF Rings
<1> HIDE DEF r
<1>6. Length(r) = n + 1
  <2>1. After(c, q.tail, r.tail)
    BY <1>3, <1>4, Zenon
  <2>2. QED
    BY <1>4, <1>5, <2>1, LengthShifts, Zenon
<1>7. \A i : Slot(r, i) = Slot(q, i)
  BY <1>4, Zenon DEF Slot
<1> HIDE DEF n, c
<1>8. ASSUME NEW i \in 0 .. n - 1 PROVE At(r, i) = At(q, i)
  <2>1. i \in 0 .. c - 1 /\ i # n
    BY <1>1, <1>2
  <2>2. Slot(q, i) \in 0 .. c - 1
    BY <2>1, Slots, Zenon DEF c
  <2>3. Slot(q, i) # q.tail
    BY <1>2, <2>1, SlotInj, Zenon DEF c
  <2>4. r.data[Slot(q, i)] = q.data[Slot(q, i)]
    BY <1>1, <1>4, <2>2, <2>3, Zenon
  <2>5. QED
    BY <1>7, <2>4, Zenon DEF At, Slot
<1>9. At(r, n) = e
  <2>1. r.data[q.tail] = e
    BY <1>1, <1>4, Zenon
  <2>2. QED
    BY <1>2, <1>7, <2>1, Zenon DEF At, Slot
<1>10. QED
  BY <1>4, <1>5, <1>6, <1>8, <1>9, Zenon DEF r, n

\* Slots are numbered from the one before the head now.
LEMMA FrontSlot ==
    ASSUME NEW c \in Nat \ {0}, NEW h \in 0 .. c - 1, NEW i \in Nat, i + 2 < c,
           NEW f, f = IF h = 0 THEN c - 1 ELSE h - 1
    PROVE  LET a == IF h + i < c THEN h + i ELSE h + i - c
           IN  a = (IF f + (i + 1) < c THEN f + (i + 1) ELSE f + (i + 1) - c) /\ a # f
OBVIOUS

\* The new element is before those of the ring.
LEMMA PushedFrontRing ==
    ASSUME NEW q \in Rings, NEW e \in Element, Length(q) + 1 < q.capacity
    PROVE  /\ PushedFront(q, e) \in Rings /\ PushedFront(q, e).idmap = q.idmap \cup {e}
           /\ Length(PushedFront(q, e)) = Length(q) + 1 /\ At(PushedFront(q, e), 0) = e
           /\ \A i \in 0 .. Length(q) - 1 : At(PushedFront(q, e), i + 1) = At(q, i)
<1> DEFINE c == q.capacity
           r == PushedFront(q, e)
           n == Length(q)
           first == decr(q, q.head)
<1>1. /\ c \in Nat \ {0} /\ q \in Shape(c) /\ q.head \in 0 .. c - 1 /\ q.tail \in 0 .. c - 1
      /\ q.data \in [0 .. c - 1 -> Element \cup {Nil}]
  BY Fields, Zenon
<1>2. n \in 0 .. c - 1
  BY Slots, Zenon
<1>3. first \in 0 .. c - 1 /\ After(c, first, q.head)
  BY <1>1, Neighbours, Zenon
<1>4. /\ r.data = [q.data EXCEPT ![first] = e] /\ r.head = first /\ r.tail = q.tail
      /\ r.capacity = c /\ r.idmap = q.idmap \cup {e} /\ r \in Shape(c)
  BY <1>1, <1>3, Zenon DEF PushedFront, Shape
<1>5. r \in Rings
  BY <1>1, <1>4, Zenon DEF Rings
<1> HIDE DEF r, first
<1>6. r.head = IF q.head = 0 THEN c - 1 ELSE q.head - 1
  BY <1>1, <1>4, NeighbourNumbers, Zenon DEF first
<1>7. Length(r) = n + 1
  <2>1. After(c, r.head, q.head)
    BY <1>3, <1>4, Zenon
  <2>2. QED
    BY <1>4, <1>5, <2>1, LengthShifts, Zenon
<1> HIDE DEF n, c
<1>8. ASSUME NEW i \in 0 .. n - 1
      PROVE  Slot(r, i + 1) = Slot(q, i) /\ Slot(q, i) # first /\ Slot(q, i) \in 0 .. c - 1
  <2>1. i \in 0 .. c - 1 /\ i + 1 \in 0 .. c - 1 /\ n + 1 < c
    BY <1>1, <1>2 DEF n, c
  <2>2. Slot(q, i) = (IF q.head + i < c THEN q.head + i ELSE q.head + i - c) /\ Slot(q, i) \in 0 .. c - 1
    BY <2>1, Slots, Zenon DEF c
  <2>3. Slot(r, i + 1) = IF r.head + (i + 1) < c THEN r.head + (i + 1) ELSE r.head + (i + 1) - c
    BY <1>4, <1>5, <2>1, Slots, Zenon
  <2>4. c \in Nat \ {0} /\ q.head \in 0 .. c - 1 /\ i \in Nat /\ i + 2 < c
    BY <1>1, <1>2, <2>1
  <2>5. QED
    BY <1>4, <1>6, <2>2, <2>3, <2>4, FrontSlot
<1>9. ASSUME NEW i \in 0 .. n - 1 PROVE At(r, i + 1) = At(q, i)
  <2>1. r.data[Slot(q, i)] = q.data[Slot(q, i)]
    BY <1>1, <1>4, <1>8, Zenon
  <2>2. QED
    BY <1>8, <2>1, Zenon DEF At, Slot
<1>10. At(r, 0) = e
  <2>1. Slot(r, 0) = first /\ r.data[first] = e
    BY <1>1, <1>3, <1>4, <1>5, Slots, Zenon
  <2>2. QED
    BY <2>1, Zenon DEF At, Slot
<1>11. QED
  BY <1>4, <1>5, <1>7, <1>9, <1>10, Zenon DEF r, n
\* double makes a ring twice as large with the same elements.
LEMMA DoubledRing ==
    ASSUME NEW q \in Rings
    PROVE  /\ double(q) \in Rings /\ double(q).idmap = q.idmap /\ double(q).capacity = 2 * q.capacity
           /\ Length(double(q)) = Length(q)
           /\ \A i \in 0 .. Length(q) - 1 : At(double(q), i) = At(q, i)
<1> DEFINE c == q.capacity
           r == double(q)
           n == Length(q)
           copy == [i \in 0 .. 2 * c - 1 |-> IF i < n THEN At(q, i) ELSE Nil]
<1>1. c \in Nat \ {0} /\ q \in Shape(c) /\ q.data \in [0 .. c - 1 -> Element \cup {Nil}]
  BY Fields, Zenon
<1>2. n \in 0 .. c - 1
  BY Slots, Zenon
<1>3. copy \in [0 .. 2 * c - 1 -> Element \cup {Nil}]
  <2>1. ASSUME NEW i \in 0 .. 2 * c - 1, i < n PROVE At(q, i) \in Element \cup {Nil}
    <3>1. i \in 0 .. c - 1
      BY <1>1, <1>2, <2>1
    <3>2. Slot(q, i) \in 0 .. c - 1
      BY <3>1, Slots, Zenon
    <3>3. QED
      BY <1>1, <3>2, Zenon DEF At, Slot
  <2>2. QED
    BY <2>1, Zenon
<1>4. 2 * c \in Nat \ {0} /\ 0 \in 0 .. 2 * c - 1 /\ n \in 0 .. 2 * c - 1
  BY <1>1, <1>2
<1>5. /\ r.data = copy /\ r.head = 0 /\ r.tail = n /\ r.capacity = 2 * c
      /\ r.idmap = q.idmap /\ r \in Shape(2 * c)
  BY <1>1, <1>3, <1>4, Zenon DEF double, Shape
<1>6. r \in Rings
  BY <1>4, <1>5, Zenon DEF Rings
<1> HIDE DEF r
<1>7. Length(r) = n
  <2>1. n \in Nat
    BY <1>1, <1>2
  <2>2. QED
    BY <1>5, <2>1 DEF Length
<1>8. ASSUME NEW i \in 0 .. n - 1 PROVE At(r, i) = At(q, i)
  <2>1. i \in 0 .. 2 * c - 1 /\ i < n /\ 0 + i = i
    BY <1>1, <1>2
  <2>2. Slot(r, i) = i
    <3>1. Slot(r, i) = IF r.head + i < r.capacity THEN r.head + i ELSE r.head + i - r.capacity
      BY <1>5, <1>6, <2>1, Slots, Zenon
    <3>2. QED
      BY <1>1, <1>5, <2>1, <3>1
  <2>3. QED
    BY <1>5, <2>1, <2>2, Zenon DEF At, Slot
<1>9. QED
  BY <1>5, <1>6, <1>7, <1>8, Zenon DEF r

\* Push and PushFront find room for an element and for the slot that stays free.
LEMMA RoomMade ==
    ASSUME NEW q \in Rings
    PROVE  /\ MakeRoom(q) \in Rings /\ MakeRoom(q).idmap = q.idmap
           /\ Length(MakeRoom(q)) = Length(q) /\ Length(q) + 1 < MakeRoom(q).capacity
           /\ \A i \in 0 .. Length(q) - 1 : At(MakeRoom(q), i) = At(q, i)
<1>1. q.capacity \in Nat \ {0} /\ Length(q) \in 0 .. q.capacity - 1
  BY Fields, Slots, Zenon
<1>2. CASE Length(q) + 1 = q.capacity
  <2>1. MakeRoom(q) = double(q)
    BY <1>2, Zenon DEF MakeRoom
  <2>2. Length(q) + 1 < 2 * q.capacity
    BY <1>1, <1>2
  <2>3. QED
    BY <2>1, <2>2, DoubledRing, Zenon
<1>3. CASE Length(q) + 1 # q.capacity
  <2>1. MakeRoom(q) = q
    BY <1>3, Zenon DEF MakeRoom
  <2>2. Length(q) + 1 < q.capacity
    BY <1>1, <1>3
  <2>3. QED
    BY <2>1, <2>2, Zenon
<1>4. QED
  BY <1>2, <1>3, Zenon

\* What Push does to a ring: the elements stay, and e comes after them.
LEMMA PushInv ==
    ASSUME NEW q, RingInv(q), NEW e \in Element, e \notin q.idmap
    PROVE  LET r == Pushed(MakeRoom(q), e)
           IN  /\ RingInv(r) /\ r.idmap = q.idmap \cup {e}
               /\ Length(r) = Length(q) + 1 /\ At(r, Length(q)) = e
               /\ \A i \in 0 .. Length(q) - 1 : At(r, i) = At(q, i)
<1> DEFINE m == MakeRoom(q)
           r == Pushed(m, e)
           n == Length(q)
<1>1. q \in Rings
  BY Zenon DEF RingInv
<1>2. /\ m \in Rings /\ m.idmap = q.idmap /\ Length(m) = n /\ n + 1 < m.capacity
      /\ \A i \in 0 .. n - 1 : At(m, i) = At(q, i)
  BY <1>1, RoomMade, Zenon
<1> HIDE DEF m
<1>3. /\ r \in Rings /\ r.idmap = q.idmap \cup {e} /\ Length(r) = n + 1 /\ At(r, n) = e
      /\ \A i \in 0 .. n - 1 : At(r, i) = At(q, i)
  BY <1>2, PushedRing
<1> HIDE DEF r
<1>4. n \in 0 .. n /\ n .. n - 1 = {}
  BY <1>1, Slots
<1>5. RingInv(r)
  BY <1>3, <1>4, OneMoreInv
<1>6. QED
  BY <1>3, <1>5, Zenon DEF m, r

\* What PushFront does to a ring: the elements stay, and e comes before them.
LEMMA PushFrontInv ==
    ASSUME NEW q, RingInv(q), NEW e \in Element, e \notin q.idmap
    PROVE  LET r == PushedFront(MakeRoom(q), e)
           IN  /\ RingInv(r) /\ r.idmap = q.idmap \cup {e}
               /\ Length(r) = Length(q) + 1 /\ At(r, 0) = e
               /\ \A i \in 0 .. Length(q) - 1 : At(r, i + 1) = At(q, i)
<1> DEFINE m == MakeRoom(q)
           r == PushedFront(m, e)
           n == Length(q)
<1>1. q \in Rings
  BY Zenon DEF RingInv
<1>2. /\ m \in Rings /\ m.idmap = q.idmap /\ Length(m) = n /\ n + 1 < m.capacity
      /\ \A i \in 0 .. n - 1 : At(m, i) = At(q, i)
  BY <1>1, RoomMade, Zenon
<1> HIDE DEF m
<1>3. /\ r \in Rings /\ r.idmap = q.idmap \cup {e} /\ Length(r) = n + 1 /\ At(r, 0) = e
      /\ \A i \in 0 .. n - 1 : At(r, i + 1) = At(q, i)
  BY <1>2, PushedFrontRing
<1> HIDE DEF r
<1>4. 0 \in 0 .. n /\ 0 .. 0 - 1 = {}
  BY <1>1, Slots
<1>5. RingInv(r)
  BY <1>3, <1>4, OneMoreInv
<1>6. QED
  BY <1>3, <1>5, Zenon DEF m, r

\* A ring with the elements of q except the one at k.
LEMMA OneLessInv ==
    ASSUME NEW q, RingInv(q), NEW r \in Rings, NEW k \in 0 .. Length(q) - 1,
           r.idmap = q.idmap \ {At(q, k)}, Length(r) = Length(q) - 1,
           \A i \in 0 .. Length(q) - 2 : At(r, i) = At(q, IF i < k THEN i ELSE i + 1)
    PROVE  RingInv(r)
<1> DEFINE n == Length(q)
           from(i) == IF i < k THEN i ELSE i + 1
<1>1. n \in Nat /\ q \in Rings
  BY Slots DEF RingInv
<1>2. \A i \in 0 .. n - 2 : from(i) \in 0 .. n - 1 /\ from(i) # k /\ At(r, i) = At(q, from(i))
  BY <1>1
<1>3. \A i, j \in 0 .. n - 2 : from(i) = from(j) => i = j
  BY <1>1
<1>4. q.idmap = {At(q, i) : i \in 0 .. n - 1} /\ \A i, j \in 0 .. n - 1 : At(q, i) = At(q, j) => i = j
  BY Zenon DEF RingInv
<1>5. k \in 0 .. n - 1 /\ 0 .. Length(r) - 1 = 0 .. n - 2
  BY <1>1
<1>6. \A j \in 0 .. n - 1 : j # k => \E i \in 0 .. n - 2 : from(i) = j
  <2>1. ASSUME NEW j \in 0 .. n - 1, j # k PROVE \E i \in 0 .. n - 2 : from(i) = j
    <3>1. CASE j < k
      BY <1>1, <3>1
    <3>2. CASE ~(j < k)
      <4>1. j - 1 \in 0 .. n - 2 /\ from(j - 1) = j
        BY <1>1, <2>1, <3>2
      <4>2. QED
        BY <4>1, Zenon
    <3>3. QED
      BY <3>1, <3>2, Zenon
  <2>2. QED
    BY <2>1, Zenon
<1> HIDE DEF n, from
<1>7. ASSUME NEW i \in 0 .. n - 2, NEW j \in 0 .. n - 2, At(r, i) = At(r, j) PROVE i = j
  BY <1>2, <1>3, <1>4, <1>7
<1>8. r.idmap = {At(r, i) : i \in 0 .. n - 2}
  <2>1. \A i \in 0 .. n - 2 : At(r, i) \in r.idmap
    BY <1>2, <1>4, <1>5
  <2>2. \A x \in r.idmap : \E i \in 0 .. n - 2 : At(r, i) = x
    BY <1>2, <1>4, <1>6
  <2>3. QED
    BY <2>1, <2>2
<1>9. QED
  BY <1>5, <1>7, <1>8, Zenon DEF RingInv

\* The slot after the slot of i is that of i + 1, and the way between two slots.
LEMMA NextSlot ==
    ASSUME NEW q \in Rings, NEW i \in 0 .. q.capacity - 2
    PROVE  incr(q, Slot(q, i)) = Slot(q, i + 1)
<1> DEFINE c == q.capacity
<1>1. c \in Nat \ {0} /\ q.head \in 0 .. c - 1
  BY Fields, Zenon
<1>2. i \in 0 .. c - 1 /\ i + 1 \in 0 .. c - 1
  BY <1>1
<1>3. /\ Slot(q, i) = IF q.head + i < c THEN q.head + i ELSE q.head + i - c
      /\ Slot(q, i + 1) = IF q.head + (i + 1) < c THEN q.head + (i + 1) ELSE q.head + (i + 1) - c
      /\ Slot(q, i) \in 0 .. c - 1
  BY <1>2, Slots, Zenon
<1>4. incr(q, Slot(q, i)) = IF Slot(q, i) + 1 = c THEN 0 ELSE Slot(q, i) + 1
  BY <1>3, NeighbourNumbers, Zenon
<1>5. QED
  BY <1>1, <1>2, <1>3, <1>4

\* From the i-th slot to the j-th it is j - i slots, around the slice when j < i.
LEMMA Way ==
    ASSUME NEW q \in Rings, NEW i \in 0 .. q.capacity - 1, NEW j \in 0 .. q.capacity - 1
    PROVE  Dist(q, Slot(q, i), Slot(q, j)) = IF i <= j THEN j - i ELSE j + q.capacity - i
<1> DEFINE c == q.capacity
           a == Slot(q, i)
           b == Slot(q, j)
<1>1. c \in Nat \ {0} /\ q.head \in 0 .. c - 1
  BY Fields, Zenon
<1>2. /\ a = IF q.head + i < c THEN q.head + i ELSE q.head + i - c
      /\ b = IF q.head + j < c THEN q.head + j ELSE q.head + j - c
      /\ a \in 0 .. c - 1 /\ b \in 0 .. c - 1
  BY Slots, Zenon
<1>3. Dist(q, a, b) = IF a <= b THEN b - a ELSE b + c - a
  BY <1>1, <1>2, WrapDist, Zenon DEF Dist
<1>4. QED
  BY <1>1, <1>2, <1>3

\* Poll takes the first element.
Polled(q) == [q EXCEPT !.head = incr(q, q.head), !.idmap = @ \ {q.data[q.head]}]

\* Poll takes the first element and leaves the others in order.
LEMMA PollInv ==
    ASSUME NEW q, RingInv(q), Length(q) # 0
    PROVE  /\ RingInv(Polled(q)) /\ Length(Polled(q)) = Length(q) - 1
           /\ q.data[q.head] = At(q, 0)
           /\ \A i \in 0 .. Length(q) - 2 : At(Polled(q), i) = At(q, i + 1)
<1> DEFINE c == q.capacity
           r == Polled(q)
           n == Length(q)
<1>1. q \in Rings
  BY Zenon DEF RingInv
<1>2. c \in Nat \ {0} /\ q \in Shape(c) /\ q.head \in 0 .. c - 1 /\ q.tail \in 0 .. c - 1
  BY <1>1, Fields, Zenon
<1>3. n \in 1 .. c - 1 /\ 0 \in 0 .. c - 1
  BY <1>1, <1>2, Slots
<1>4. /\ incr(q, q.head) \in 0 .. c - 1 /\ After(c, q.head, incr(q, q.head))
      /\ incr(q, q.head) = IF q.head + 1 = c THEN 0 ELSE q.head + 1
  BY <1>1, <1>2, Neighbours, NeighbourNumbers, Zenon
<1>5. /\ r.data = q.data /\ r.head = incr(q, q.head) /\ r.tail = q.tail /\ r.capacity = c
      /\ r.idmap = q.idmap \ {q.data[q.head]} /\ r \in Shape(c)
  BY <1>2, <1>4, Zenon DEF Polled, Shape
<1>6. r \in Rings
  BY <1>2, <1>5, Zenon DEF Rings
<1> HIDE DEF r
<1>7. Length(r) = n - 1
  <2>1. After(c, q.head, r.head)
    BY <1>4, <1>5, Zenon
  <2>2. n = Length(r) + 1
    BY <1>1, <1>5, <1>6, <2>1, LengthShifts, Zenon
  <2>3. Length(r) \in 0 .. r.capacity - 1 /\ r.capacity \in Nat \ {0}
    BY <1>6, Fields, Slots, Zenon
  <2>4. QED
    BY <2>2, <2>3
<1>8. q.data[q.head] = At(q, 0)
  <2>1. Slot(q, 0) = IF q.head + 0 < c THEN q.head + 0 ELSE q.head + 0 - c
    BY <1>1, <1>3, Slots, Zenon
  <2>2. Slot(q, 0) = q.head
    BY <1>2, <2>1
  <2>3. QED
    BY <2>2, Zenon DEF At, Slot
<1>9. ASSUME NEW i \in 0 .. n - 2 PROVE At(r, i) = At(q, i + 1)
  <2>1. i \in 0 .. c - 1 /\ i + 1 \in 0 .. c - 1
    BY <1>2, <1>3
  <2>2. /\ Slot(r, i) = IF r.head + i < r.capacity THEN r.head + i ELSE r.head + i - r.capacity
        /\ Slot(q, i + 1) = IF q.head + (i + 1) < c THEN q.head + (i + 1) ELSE q.head + (i + 1) - c
    BY <1>1, <1>5, <1>6, <2>1, Slots, Zenon
  <2>3. Slot(r, i) = Slot(q, i + 1)
    BY <1>2, <1>4, <1>5, <2>1, <2>2
  <2>4. QED
    BY <1>5, <2>3, Zenon DEF At, Slot
<1>10. /\ 0 \in 0 .. n - 1
       /\ \A i \in 0 .. n - 2 : ~(i < 0)
  BY <1>3
<1>11. RingInv(r)
  BY <1>5, <1>6, <1>7, <1>8, <1>9, <1>10, OneLessInv
<1>12. QED
  BY <1>7, <1>8, <1>9, <1>11, Zenon DEF r

\* remove takes out the element k places after the head; the ones after it move
\* back by one, the head and the ones before it stay where they are.
LEMMA RemoveInv ==
    ASSUME NEW q, RingInv(q), NEW k \in 0 .. Length(q) - 1
    PROVE  LET r == remove(q, Slot(q, k))
           IN  /\ RingInv(r) /\ Length(r) = Length(q) - 1
               /\ r.capacity = q.capacity /\ r.head = q.head /\ r.idmap = q.idmap \ {At(q, k)}
               /\ \A i \in 0 .. Length(q) - 2 : At(r, i) = At(q, IF i < k THEN i ELSE i + 1)
<1> DEFINE c == q.capacity
           pos == Slot(q, k)
           r == remove(q, pos)
           n == Length(q)
<1>1. q \in Rings
  BY Zenon DEF RingInv
<1>2. /\ c \in Nat \ {0} /\ q \in Shape(c) /\ q.head \in 0 .. c - 1 /\ q.tail \in 0 .. c - 1
      /\ q.data \in [0 .. c - 1 -> Element \cup {Nil}]
  BY <1>1, Fields, Zenon
<1>3. n \in 0 .. c - 1 /\ q.tail = Slot(q, n)
  BY <1>1, Slots, Zenon
<1>4. n \in 1 .. c - 1 /\ k \in 0 .. c - 1
  BY <1>2, <1>3
<1>5. decr(q, q.tail) \in 0 .. c - 1 /\ After(c, decr(q, q.tail), q.tail)
  BY <1>1, <1>2, Neighbours, Zenon
<1>6. pos \in 0 .. c - 1 /\ q.data[pos] = At(q, k)
  BY <1>1, <1>4, Slots, Zenon DEF At, Slot
<1> HIDE DEF pos
<1>7. MovedBack(q, pos) \in [0 .. c - 1 -> Element \cup {Nil}]
  <2>1. DOMAIN q.data = 0 .. c - 1
    BY <1>2, Zenon
  <2>2. ASSUME NEW i \in 0 .. c - 1
        PROVE  q.data[incr(q, i)] \in Element \cup {Nil} /\ q.data[i] \in Element \cup {Nil}
    BY <1>1, <1>2, Neighbours, Zenon
  <2>3. QED
    BY <2>1, <2>2, Zenon DEF MovedBack
<1>8. /\ r.data = MovedBack(q, pos) /\ r.head = q.head /\ r.tail = decr(q, q.tail) /\ r.capacity = c
      /\ r.idmap = q.idmap \ {At(q, k)} /\ r \in Shape(c)
  BY <1>2, <1>5, <1>6, <1>7, Zenon DEF remove, Shape
<1>9. r \in Rings
  BY <1>2, <1>8, Zenon DEF Rings
<1> HIDE DEF r
<1>10. Length(r) = n - 1
  <2>1. After(c, r.tail, q.tail)
    BY <1>5, <1>8, Zenon
  <2>2. n # 0
    BY <1>4
  <2>3. n = Length(r) + 1
    BY <1>1, <1>8, <1>9, <2>1, <2>2, LengthShifts, Zenon
  <2>4. Length(r) \in 0 .. r.capacity - 1 /\ r.capacity \in Nat \ {0}
    BY <1>9, Fields, Slots, Zenon
  <2>5. QED
    BY <2>3, <2>4
<1>11. ASSUME NEW i \in 0 .. n - 2 PROVE At(r, i) = At(q, IF i < k THEN i ELSE i + 1)
  <2>1. i \in 0 .. c - 1 /\ i \in 0 .. c - 2 /\ i + 1 \in 0 .. c - 1
    BY <1>2, <1>4
  <2>2. Slot(q, i) \in DOMAIN q.data
    BY <1>1, <1>2, <2>1, Slots, Zenon
  <2>3. At(r, i) = IF Dist(q, pos, Slot(q, i)) + 1 < Dist(q, pos, q.tail)
                   THEN q.data[incr(q, Slot(q, i))] ELSE q.data[Slot(q, i)]
    <3>1. At(r, i) = MovedBack(q, pos)[Slot(q, i)]
      BY <1>8, Zenon DEF At, Slot
    <3>2. QED
      BY <2>2, <3>1, Zenon DEF MovedBack
  <2>4. /\ Dist(q, pos, Slot(q, i)) = IF k <= i THEN i - k ELSE i + c - k
        /\ Dist(q, pos, q.tail) = IF k <= n THEN n - k ELSE n + c - k
    BY <1>1, <1>3, <1>4, <2>1, Way, Zenon DEF pos
  <2>5. Dist(q, pos, Slot(q, i)) + 1 < Dist(q, pos, q.tail) <=> ~(i < k)
    <3>1. c \in Nat \ {0}
      BY <1>2, Zenon
    <3>2. QED
      BY <1>4, <2>1, <2>4, <3>1
  <2>6. incr(q, Slot(q, i)) = Slot(q, i + 1)
    BY <1>1, <2>1, NextSlot, Zenon
  <2>7. QED
    BY <2>3, <2>5, <2>6, Zenon DEF At, Slot
<1>12. RingInv(r)
  BY <1>8, <1>9, <1>10, <1>11, OneLessInv, Zenon
<1>13. QED
  BY <1>8, <1>10, <1>11, <1>12, Zenon DEF r, pos

\* r has elements of q only, in the order they have in q.
Keeps(q, r) ==
    \A i, j \in 0 .. Length(r) - 1 : i < j =>
        \E a, b \in 0 .. Length(q) - 1 : a < b /\ At(q, a) = At(r, i) /\ At(q, b) = At(r, j)

\* A removal keeps the order.
LEMMA KeepsOneLess ==
    ASSUME NEW q, NEW p \in Rings, Keeps(q, p), NEW r, NEW k \in 0 .. Length(p) - 1,
           Length(r) = Length(p) - 1,
           \A i \in 0 .. Length(p) - 2 : At(r, i) = At(p, IF i < k THEN i ELSE i + 1)
    PROVE  Keeps(q, r)
<1> DEFINE from(i) == IF i < k THEN i ELSE i + 1
<1>1. Length(p) \in Nat
  BY Slots
<1>2. SUFFICES ASSUME NEW i \in 0 .. Length(r) - 1, NEW j \in 0 .. Length(r) - 1, i < j
               PROVE  \E a, b \in 0 .. Length(q) - 1 : a < b /\ At(q, a) = At(r, i) /\ At(q, b) = At(r, j)
  BY Zenon DEF Keeps
<1>3. from(i) \in 0 .. Length(p) - 1 /\ from(j) \in 0 .. Length(p) - 1 /\ from(i) < from(j)
  BY <1>1, <1>2
<1>4. At(r, i) = At(p, from(i)) /\ At(r, j) = At(p, from(j))
  <2>1. i \in 0 .. Length(p) - 2 /\ j \in 0 .. Length(p) - 2
    BY <1>1
  <2>2. QED
    BY <2>1, Zenon
<1> HIDE DEF from
<1>5. PICK a, b \in 0 .. Length(q) - 1 :
        a < b /\ At(q, a) = At(p, from(i)) /\ At(q, b) = At(p, from(j))
  BY <1>3 DEF Keeps
<1>6. QED
  BY <1>4, <1>5

\* After n turns on ring q: the elements up to position d stay, those of C among
\* them are gone, and unless the walk is over each turn was one of the two.
WalkInv(q, C, n, s) ==
    /\ s \in [q : Rings, pos : Nat, cnt : Nat]
    /\ RingInv(s.q) /\ s.q.capacity = q.capacity /\ s.q.head = q.head
    /\ \E d \in 0 .. Length(s.q) :
         /\ s.pos = Slot(s.q, d)
         /\ \A i \in 0 .. d - 1 : At(s.q, i) \notin C
         /\ d = Length(s.q) \/ d + s.cnt = n
    /\ q.idmap \ C \subseteq s.q.idmap /\ s.q.idmap \subseteq q.idmap
    /\ s.cnt = Length(q) - Length(s.q)
    /\ Keeps(q, s.q)

\* A turn keeps it: the walk is over, an element of C is taken out at the position
\* of the walk, or the walk moves on.
LEMMA TurnInv ==
    ASSUME NEW q \in Rings, NEW C, NEW n \in Nat, NEW s, WalkInv(q, C, n, s)
    PROVE  WalkInv(q, C, n + 1, Turn(C, s))
<1> DEFINE p == s.q
           t == Turn(C, s)
           L == Length(p)
<1>1. /\ s \in [q : Rings, pos : Nat, cnt : Nat] /\ RingInv(p) /\ p \in Rings
      /\ p.capacity = q.capacity /\ p.head = q.head
      /\ q.idmap \ C \subseteq p.idmap /\ p.idmap \subseteq q.idmap
      /\ s.cnt = Length(q) - L /\ Keeps(q, p)
  BY Zenon DEF WalkInv, RingInv
<1>2. PICK d \in 0 .. L :
        /\ s.pos = Slot(p, d)
        /\ \A i \in 0 .. d - 1 : At(p, i) \notin C
        /\ d = L \/ d + s.cnt = n
  BY Zenon DEF WalkInv
<1>3. /\ L \in 0 .. p.capacity - 1 /\ Slot(p, L) = p.tail /\ p.capacity \in Nat \ {0}
      /\ p.data[s.pos] = At(p, d)
  BY <1>1, <1>2, Slots, Fields, Zenon DEF At, Slot
<1>4. s.cnt \in Nat /\ s.pos \in Nat
  BY <1>1, Zenon
<1>5. CASE s.pos = p.tail
  <2>1. t = s
    BY <1>5, Zenon DEF Turn
  <2>2. d \in 0 .. p.capacity - 1 /\ L \in 0 .. p.capacity - 1
    BY <1>3
  <2>3. d = L
    BY <1>1, <1>2, <1>3, <1>5, <2>2, SlotInj, Zenon
  <2>4. QED
    BY <1>1, <1>2, <2>1, <2>3, Zenon DEF WalkInv
<1>6. CASE s.pos # p.tail /\ At(p, d) \in C
  <2> DEFINE r == remove(p, Slot(p, d))
  <2>1. d # L
    BY <1>2, <1>3, <1>6, Zenon
  <2>2. d \in 0 .. L - 1 /\ L - 1 \in Nat /\ d \in 0 .. L - 1
    BY <1>3, <2>1
  <2>3. /\ RingInv(r) /\ Length(r) = L - 1 /\ r.capacity = p.capacity /\ r.head = p.head
        /\ r.idmap = p.idmap \ {At(p, d)}
        /\ \A i \in 0 .. L - 2 : At(r, i) = At(p, IF i < d THEN i ELSE i + 1)
    BY <1>1, <2>2, RemoveInv, Zenon
  <2>4. t = [s EXCEPT !.q = r, !.cnt = @ + 1]
    BY <1>2, <1>3, <1>6, Zenon DEF Turn
  <2> HIDE DEF r, t
  <2>5. r \in Rings
    BY <2>3, Zenon DEF RingInv
  <2>6. s.cnt + 1 \in Nat
    BY <1>4
  <2>7. t \in [q : Rings, pos : Nat, cnt : Nat] /\ t.q = r /\ t.pos = s.pos /\ t.cnt = s.cnt + 1
    BY <1>1, <2>4, <2>5, <2>6, Zenon
  <2>8. d \in 0 .. Length(r) /\ d + t.cnt = n + 1 /\ t.cnt = Length(q) - Length(r)
    <3>1. Length(r) = L - 1 /\ t.cnt = s.cnt + 1 /\ s.cnt = Length(q) - L /\ d + s.cnt = n
      BY <1>1, <1>2, <2>1, <2>3, <2>7, Zenon
    <3>2. Length(q) \in 0 .. q.capacity - 1 /\ q.capacity \in Nat \ {0}
      BY Slots, Fields, Zenon
    <3>3. QED
      BY <1>3, <1>4, <2>2, <3>1, <3>2
  <2>9. t.pos = Slot(r, d)
    BY <1>2, <2>3, <2>7, Zenon DEF Slot
  <2>10. \A i \in 0 .. d - 1 : At(r, i) \notin C
    <3>1. \A i \in 0 .. d - 1 : i \in 0 .. L - 2 /\ i < d
      BY <1>3, <2>2
    <3>2. QED
      BY <1>2, <2>3, <3>1, Zenon
  <2>11. Keeps(q, r)
    BY <1>1, <2>2, <2>3, KeepsOneLess, Zenon
  <2>12. q.idmap \ C \subseteq r.idmap /\ r.idmap \subseteq q.idmap
    BY <1>1, <1>6, <2>3, Zenon
  <2>13. QED
    BY <1>1, <2>3, <2>7, <2>8, <2>9, <2>10, <2>11, <2>12, Zenon DEF WalkInv, t
<1>7. CASE s.pos # p.tail /\ At(p, d) \notin C
  <2>1. d # L
    BY <1>2, <1>3, <1>7, Zenon
  <2>2. d \in 0 .. p.capacity - 2 /\ d + 1 \in 0 .. L /\ d + 1 \in Nat
    BY <1>3, <2>1
  <2>3. incr(p, s.pos) = Slot(p, d + 1)
    BY <1>1, <1>2, <2>2, NextSlot, Zenon
  <2>4. t = [s EXCEPT !.pos = Slot(p, d + 1)]
    BY <1>3, <1>7, <2>3, Zenon DEF Turn
  <2>5. Slot(p, d + 1) \in Nat
    <3>1. d + 1 \in 0 .. p.capacity - 1
      BY <1>3, <2>2
    <3>2. Slot(p, d + 1) \in 0 .. p.capacity - 1
      BY <1>1, <3>1, Slots, Zenon
    <3>3. QED
      BY <1>3, <3>2
  <2> HIDE DEF t
  <2>6. t \in [q : Rings, pos : Nat, cnt : Nat] /\ t.q = p /\ t.pos = Slot(p, d + 1) /\ t.cnt = s.cnt
    BY <1>1, <2>4, <2>5, Zenon
  <2>7. (d + 1) + s.cnt = n + 1
    BY <1>2, <1>3, <1>4, <2>1
  <2>8. \A i \in 0 .. (d + 1) - 1 : At(p, i) \notin C
    <3>1. \A i \in 0 .. (d + 1) - 1 : i \in 0 .. d - 1 \/ i = d
      BY <1>3
    <3>2. QED
      BY <1>2, <1>7, <3>1, Zenon
  <2>9. QED
    BY <1>1, <2>2, <2>6, <2>7, <2>8, Zenon DEF WalkInv, t
<1>8. QED
  BY <1>5, <1>6, <1>7, Zenon

-----------------------------------------------------------------------------
(* The methods *)

\* The fields that Becomes assigns are the ring of the next state.
LEMMA NextRing ==
    ASSUME NEW q \in Rings, Becomes(q) PROVE Ring' = q
<1>1. q \in Shape(q.capacity)
  BY Fields, Zenon
<1>2. q = [data |-> q.data, head |-> q.head, tail |-> q.tail, capacity |-> q.capacity, idmap |-> q.idmap]
  BY <1>1, Zenon DEF Shape
<1>3. QED
  BY <1>2, Zenon DEF Becomes, Ring

\* The elements of a ring from head to tail.
Listed(q) == [i \in 1 .. Length(q) |-> At(q, i - 1)]

\* A ring that keeps the invariant is a list of the elements of its idmap.
LEMMA ListedSeq ==
    ASSUME NEW q, RingInv(q)
    PROVE  /\ Length(q) \in Nat /\ Listed(q) \in Seq(Element) /\ Len(Listed(q)) = Length(q)
           /\ DOMAIN Listed(q) = 1 .. Length(q)
           /\ \A i \in 1 .. Length(q) : i - 1 \in 0 .. Length(q) - 1 /\ Listed(q)[i] = At(q, i - 1)
           /\ {Listed(q)[i] : i \in DOMAIN Listed(q)} = q.idmap
<1> DEFINE n == Length(q)
<1>1. q \in Rings /\ q.idmap \in SUBSET Element /\ q.idmap = {At(q, i) : i \in 0 .. n - 1}
  BY Fields, Zenon DEF RingInv
<1>2. n \in Nat
  BY <1>1, Slots
<1>3. \A i \in 1 .. n : i - 1 \in 0 .. n - 1
  BY <1>2
<1>4. \A i \in 0 .. n - 1 : i + 1 \in 1 .. n /\ (i + 1) - 1 = i
  BY <1>2
<1>5. \A i \in 1 .. n : At(q, i - 1) \in Element
  BY <1>1, <1>3, Zenon
<1>6. Listed(q) \in [1 .. n -> Element] /\ \A i \in 1 .. n : Listed(q)[i] = At(q, i - 1)
  BY <1>5, Zenon DEF Listed
<1>7. Listed(q) \in Seq(Element) /\ Len(Listed(q)) = n
  BY <1>2, <1>6, IsList, Zenon
<1>8. DOMAIN Listed(q) = 1 .. n
  BY <1>6, Zenon
<1> HIDE DEF n
<1>9. {Listed(q)[i] : i \in 1 .. n} = q.idmap
  <2>1. \A i \in 1 .. n : Listed(q)[i] \in q.idmap
    BY <1>1, <1>3, <1>6, Zenon
  <2>2. ASSUME NEW x \in q.idmap PROVE \E i \in 1 .. n : Listed(q)[i] = x
    <3>1. PICK j \in 0 .. n - 1 : At(q, j) = x
      BY <1>1, Zenon
    <3>2. Listed(q)[j + 1] = x
      BY <1>4, <1>6, <3>1, Zenon
    <3>3. QED
      BY <1>4, <3>2, Zenon
  <2>3. QED
    BY <2>1, <2>2
<1>10. QED
  BY <1>2, <1>3, <1>6, <1>7, <1>8, <1>9, Zenon DEF n

\* The three ways in which a list becomes longer or shorter at an end.
LEMMA ListedPush ==
    ASSUME NEW q, RingInv(q), NEW r, RingInv(r), NEW e \in Element,
           Length(r) = Length(q) + 1, At(r, Length(q)) = e,
           \A i \in 0 .. Length(q) - 1 : At(r, i) = At(q, i)
    PROVE  Listed(r) = Append(Listed(q), e)
<1> DEFINE n == Length(q)
           a == Append(Listed(q), e)
<1>1. /\ n \in Nat /\ Listed(q) \in Seq(Element) /\ Len(Listed(q)) = n
      /\ \A i \in 1 .. n : i - 1 \in 0 .. n - 1 /\ Listed(q)[i] = At(q, i - 1)
  BY ListedSeq, Zenon
<1>2. /\ Listed(r) \in Seq(Element) /\ Len(Listed(r)) = n + 1
      /\ \A i \in 1 .. n + 1 : Listed(r)[i] = At(r, i - 1)
  BY ListedSeq
<1>3. /\ a \in Seq(Element) /\ Len(a) = n + 1 /\ a[n + 1] = e
      /\ \A i \in 1 .. n : a[i] = Listed(q)[i]
  BY <1>1
<1> HIDE DEF a, n
<1>4. ASSUME NEW i \in 1 .. n + 1 PROVE Listed(r)[i] = a[i]
  <2>1. CASE i = n + 1
    <3>1. i - 1 = n
      BY <1>1, <2>1
    <3>2. QED
      BY <1>2, <1>3, <2>1, <3>1 DEF n
  <2>2. CASE i # n + 1
    <3>1. i \in 1 .. n
      BY <1>1, <2>2
    <3>2. Listed(r)[i] = At(q, i - 1)
      BY <1>1, <1>2, <3>1, Zenon DEF n
    <3>3. QED
      BY <1>1, <1>3, <3>1, <3>2, Zenon
  <2>3. QED
    BY <2>1, <2>2, Zenon
<1>5. Listed(r) = a
  BY <1>2, <1>3, <1>4, SameList, Zenon
<1>6. QED
  BY <1>5, Zenon DEF a

\* A ring with e before its elements lists e and then those: what PushFront
\* promises.
LEMMA ListedPushFront ==
    ASSUME NEW q, RingInv(q), NEW r, RingInv(r), NEW e \in Element,
           Length(r) = Length(q) + 1, At(r, 0) = e,
           \A i \in 0 .. Length(q) - 1 : At(r, i + 1) = At(q, i)
    PROVE  Listed(r) = <<e>> \o Listed(q)
<1> DEFINE n == Length(q)
           a == <<e>> \o Listed(q)
<1>1. /\ n \in Nat /\ Listed(q) \in Seq(Element) /\ Len(Listed(q)) = n
      /\ \A i \in 1 .. n : i - 1 \in 0 .. n - 1 /\ Listed(q)[i] = At(q, i - 1)
  BY ListedSeq, Zenon
<1>2. /\ Listed(r) \in Seq(Element) /\ Len(Listed(r)) = n + 1
      /\ \A i \in 1 .. n + 1 : Listed(r)[i] = At(r, i - 1)
  BY ListedSeq
<1>3. <<e>> \in Seq(Element) /\ Len(<<e>>) = 1 /\ <<e>>[1] = e /\ 1 + n = n + 1
  BY <1>1
<1>4. /\ a \in Seq(Element) /\ Len(a) = n + 1
      /\ \A i \in 1 .. n + 1 : a[i] = IF i <= 1 THEN <<e>>[i] ELSE Listed(q)[i - 1]
  BY <1>1, <1>3
<1> HIDE DEF a, n
<1>5. ASSUME NEW i \in 1 .. n + 1 PROVE Listed(r)[i] = a[i]
  <2>1. CASE i = 1
    <3>1. i - 1 = 0 /\ i <= 1
      BY <2>1
    <3>2. QED
      BY <1>2, <1>3, <1>4, <2>1, <3>1, Zenon DEF n
  <2>2. CASE i # 1
    <3>1. i - 1 \in 1 .. n /\ (i - 1) - 1 \in 0 .. n - 1 /\ ((i - 1) - 1) + 1 = i - 1 /\ ~(i <= 1)
      BY <1>1, <2>2
    <3>2. At(r, i - 1) = At(q, (i - 1) - 1)
      BY <3>1, Zenon DEF n
    <3>3. QED
      BY <1>1, <1>2, <1>4, <3>1, <3>2, Zenon
  <2>3. QED
    BY <2>1, <2>2, Zenon
<1>6. Listed(r) = a
  BY <1>2, <1>4, <1>5, SameList, Zenon
<1>7. QED
  BY <1>6, Zenon DEF a

\* A ring that lost its first element lists the rest: what Poll promises.
LEMMA ListedPoll ==
    ASSUME NEW q, RingInv(q), NEW r, RingInv(r), Length(q) # 0, Length(r) = Length(q) - 1,
           \A i \in 0 .. Length(q) - 2 : At(r, i) = At(q, i + 1)
    PROVE  Listed(q) # <<>> /\ Head(Listed(q)) = At(q, 0) /\ Listed(r) = Tail(Listed(q))
<1> DEFINE n == Length(q)
           l == Listed(q)
           a == Tail(l)
<1>1. /\ n \in Nat /\ l \in Seq(Element) /\ Len(l) = n
      /\ \A i \in 1 .. n : l[i] = At(q, i - 1)
  BY ListedSeq, Zenon
<1>2. /\ Listed(r) \in Seq(Element) /\ Len(Listed(r)) = n - 1
      /\ \A i \in 1 .. n - 1 : Listed(r)[i] = At(r, i - 1)
  BY ListedSeq
<1> HIDE DEF l
<1>3. l # <<>>
  BY <1>1, Zenon
<1>4. Head(l) = At(q, 0)
  <2>1. 1 \in 1 .. n /\ 1 - 1 = 0
    BY <1>1
  <2>2. Head(l) = l[1]
    BY <1>1, <1>3
  <2>3. QED
    BY <1>1, <2>1, <2>2, Zenon
<1>5. a \in Seq(Element) /\ Len(a) = n - 1 /\ \A i \in 1 .. n - 1 : a[i] = l[i + 1]
  BY <1>1, <1>3
<1> HIDE DEF a, n
<1>6. ASSUME NEW i \in 1 .. n - 1 PROVE Listed(r)[i] = a[i]
  <2>1. i - 1 \in 0 .. n - 2 /\ i + 1 \in 1 .. n /\ (i - 1) + 1 = (i + 1) - 1
    BY <1>1
  <2>2. At(r, i - 1) = At(q, (i - 1) + 1)
    BY <2>1, Zenon DEF n
  <2>3. QED
    BY <1>1, <1>2, <1>5, <2>1, <2>2, Zenon
<1>7. Listed(r) = a
  BY <1>2, <1>5, <1>6, SameList, Zenon
<1>8. QED
  BY <1>3, <1>4, <1>7, Zenon DEF a, l

\* The list of a ring that keeps the order of another one.
LEMMA ListedKeeps ==
    ASSUME NEW q, RingInv(q), NEW r, RingInv(r), Keeps(q, r)
    PROVE  \A i, j \in DOMAIN Listed(r) : i < j =>
             \E a, b \in DOMAIN Listed(q) :
               a < b /\ Listed(q)[a] = Listed(r)[i] /\ Listed(q)[b] = Listed(r)[j]
<1> DEFINE n == Length(q)
           m == Length(r)
<1>1. n \in Nat /\ DOMAIN Listed(q) = 1 .. n /\ \A i \in 1 .. n : Listed(q)[i] = At(q, i - 1)
  BY ListedSeq, Zenon
<1>2. m \in Nat /\ DOMAIN Listed(r) = 1 .. m /\ \A i \in 1 .. m : Listed(r)[i] = At(r, i - 1)
  BY ListedSeq, Zenon
<1>3. \A i, j \in 0 .. m - 1 : i < j =>
        \E a, b \in 0 .. n - 1 : a < b /\ At(q, a) = At(r, i) /\ At(q, b) = At(r, j)
  BY Zenon DEF Keeps
<1> HIDE DEF n, m
<1>4. ASSUME NEW i \in 1 .. m, NEW j \in 1 .. m, i < j
      PROVE  \E a, b \in 1 .. n : a < b /\ Listed(q)[a] = Listed(r)[i] /\ Listed(q)[b] = Listed(r)[j]
  <2>1. i - 1 \in 0 .. m - 1 /\ j - 1 \in 0 .. m - 1 /\ i - 1 < j - 1
    BY <1>2, <1>4
  <2>2. PICK a, b \in 0 .. n - 1 : a < b /\ At(q, a) = At(r, i - 1) /\ At(q, b) = At(r, j - 1)
    BY <1>3, <2>1, Zenon
  <2>3. /\ a + 1 \in 1 .. n /\ b + 1 \in 1 .. n /\ a + 1 < b + 1
        /\ (a + 1) - 1 = a /\ (b + 1) - 1 = b
    BY <1>1, <2>2
  <2>4. Listed(q)[a + 1] = Listed(r)[i] /\ Listed(q)[b + 1] = Listed(r)[j]
    BY <1>1, <1>2, <2>2, <2>3, Zenon
  <2>5. QED
    BY <2>3, <2>4, Zenon
<1>5. \A i, j \in 1 .. m : i < j =>
        \E a, b \in 1 .. n : a < b /\ Listed(q)[a] = Listed(r)[i] /\ Listed(q)[b] = Listed(r)[j]
  BY <1>4, Zenon
<1>6. DOMAIN Listed(q) = 1 .. n /\ DOMAIN Listed(r) = 1 .. m
  BY <1>1, <1>2, Zenon
<1>7. QED
  BY <1>5, <1>6

\* Each method keeps the invariant of the ring and does what the method of that
\* name does on the list of its elements.
LEMMA SameRing ==
    ASSUME UNCHANGED <<data, head, tail, capacity, idmap>> PROVE Ring' = Ring
  BY Zenon DEF Ring

\* Push is a Push of the list: refused when e is in the idmap, else e goes to the
\* end.
LEMMA PushStep ==
    ASSUME RingInv(Ring), NEW e \in Element, Push(e) PROVE RingInv(Ring)' /\ D!Push(e)
<1> DEFINE r == Pushed(MakeRoom(Ring), e)
<1>1. Ring.idmap = idmap /\ D!Members = idmap
  BY ListedSeq, Zenon DEF Ring, D!Members, Contents, Listed
<1>2. CASE e \in idmap
  <2>1. Ring' = Ring /\ ret' = <<"ok", FALSE>>
    BY <1>2, SameRing, Zenon DEF Push
  <2>2. Contents' = Contents
    BY <2>1, Zenon DEF Contents
  <2>3. QED
    BY <1>1, <1>2, <2>1, <2>2, Zenon DEF D!Push, D!Add
<1>3. CASE e \notin idmap
  <2>1. Becomes(r) /\ ret' = <<"ok", TRUE>>
    BY <1>3, Zenon DEF Push, Pushed
  <2>2. /\ RingInv(r) /\ Length(r) = Length(Ring) + 1 /\ At(r, Length(Ring)) = e
        /\ \A i \in 0 .. Length(Ring) - 1 : At(r, i) = At(Ring, i)
    BY <1>1, <1>3, PushInv, Zenon
  <2> HIDE DEF r
  <2>3. Ring' = r
    BY <2>1, <2>2, NextRing, Zenon DEF RingInv
  <2>4. Listed(r) = Append(Listed(Ring), e)
    BY <2>2, ListedPush, Zenon
  <2>5. Contents' = Append(Contents, e)
    BY <2>3, <2>4, Zenon DEF Contents, Listed
  <2>6. QED
    BY <1>1, <1>3, <2>1, <2>2, <2>3, <2>5, Zenon DEF D!Push, D!Add
<1>4. QED
  BY <1>2, <1>3, Zenon

\* PushFront is a PushFront of the list: refused when e is in the idmap, else e
\* goes to the front.
LEMMA PushFrontStep ==
    ASSUME RingInv(Ring), NEW e \in Element, PushFront(e) PROVE RingInv(Ring)' /\ D!PushFront(e)
<1> DEFINE r == PushedFront(MakeRoom(Ring), e)
<1>1. Ring.idmap = idmap /\ D!Members = idmap
  BY ListedSeq, Zenon DEF Ring, D!Members, Contents, Listed
<1>2. CASE e \in idmap
  <2>1. Ring' = Ring /\ ret' = <<"ok", FALSE>>
    BY <1>2, SameRing, Zenon DEF PushFront
  <2>2. Contents' = Contents
    BY <2>1, Zenon DEF Contents
  <2>3. QED
    BY <1>1, <1>2, <2>1, <2>2, Zenon DEF D!PushFront, D!Add
<1>3. CASE e \notin idmap
  <2>1. Becomes(r) /\ ret' = <<"ok", TRUE>>
    BY <1>3, Zenon DEF PushFront, PushedFront
  <2>2. /\ RingInv(r) /\ Length(r) = Length(Ring) + 1 /\ At(r, 0) = e
        /\ \A i \in 0 .. Length(Ring) - 1 : At(r, i + 1) = At(Ring, i)
    BY <1>1, <1>3, PushFrontInv, Zenon
  <2> HIDE DEF r
  <2>3. Ring' = r
    BY <2>1, <2>2, NextRing, Zenon DEF RingInv
  <2>4. Listed(r) = <<e>> \o Listed(Ring)
    BY <2>2, ListedPushFront, Zenon
  <2>5. Contents' = <<e>> \o Contents
    BY <2>3, <2>4, Zenon DEF Contents, Listed
  <2>6. QED
    BY <1>1, <1>3, <2>1, <2>2, <2>3, <2>5, Zenon DEF D!PushFront, D!Add
<1>4. QED
  BY <1>2, <1>3, Zenon

\* Poll is a Poll of the list: it fails on an empty ring, else returns the element
\* at the head.
LEMMA PollStep ==
    ASSUME RingInv(Ring), Poll PROVE RingInv(Ring)' /\ D!Poll
<1> DEFINE r == Polled(Ring)
<1>1. Contents = Listed(Ring) /\ Len(Contents) = Length(Ring) /\ Contents \in Seq(Element)
  BY ListedSeq, Zenon DEF Contents, Listed
<1>2. CASE Length(Ring) = 0
  <2>1. Becomes(Ring) /\ ret' = <<"element", Nil>>
    BY <1>2, Zenon DEF Poll
  <2>2. Ring' = Ring
    BY <2>1, NextRing, Zenon DEF RingInv
  <2>3. Contents' = Contents
    BY <2>2, Zenon DEF Contents
  <2>4. Contents = <<>>
    BY <1>1, <1>2, EmptyList, Zenon
  <2>5. QED
    BY <2>1, <2>2, <2>3, <2>4, Zenon DEF D!Poll
<1>3. CASE Length(Ring) # 0
  <2>1. Becomes(r) /\ ret' = <<"element", data[head]>> /\ data[head] = Ring.data[Ring.head]
    BY <1>3, Zenon DEF Poll, Polled, Ring
  <2>2. /\ RingInv(r) /\ Length(r) = Length(Ring) - 1 /\ data[head] = At(Ring, 0)
        /\ \A i \in 0 .. Length(Ring) - 2 : At(r, i) = At(Ring, i + 1)
    BY <1>3, <2>1, PollInv, Zenon
  <2> HIDE DEF r
  <2>3. Ring' = r
    BY <2>1, <2>2, NextRing, Zenon DEF RingInv
  <2>4. Contents # <<>> /\ Head(Contents) = data[head] /\ Listed(r) = Tail(Contents)
    BY <1>1, <1>3, <2>2, ListedPoll, Zenon
  <2>5. Contents' = Tail(Contents)
    BY <2>3, <2>4, Zenon DEF Contents, Listed
  <2>6. QED
    BY <2>1, <2>2, <2>3, <2>4, <2>5, Zenon DEF D!Poll
<1>4. QED
  BY <1>2, <1>3, Zenon

\* The ring r of the next state lost the members of C.
LEMMA LosesStep ==
    ASSUME RingInv(Ring), NEW r, RingInv(r), Ring' = r, NEW C, r.idmap = idmap \ C, Keeps(Ring, r)
    PROVE  D!Loses(C)
<1>1. Contents = Listed(Ring) /\ Contents' = Listed(r)
  BY Zenon DEF Contents, Listed
<1>2. Listed(r) \in Seq(Element) /\ {Listed(r)[i] : i \in DOMAIN Listed(r)} = r.idmap
  BY ListedSeq, Zenon
<1>3. {Listed(Ring)[i] : i \in DOMAIN Listed(Ring)} = idmap
  <2>1. Ring.idmap = idmap
    BY Zenon DEF Ring
  <2>2. QED
    BY <2>1, ListedSeq, Zenon
<1>4. D!Members = idmap /\ D!Members' = idmap \ C
  BY <1>1, <1>2, <1>3, Zenon DEF D!Members
<1>5. \A i, j \in DOMAIN Contents' : i < j =>
        \E a, b \in DOMAIN Contents : a < b /\ Contents[a] = Contents'[i] /\ Contents[b] = Contents'[j]
  BY <1>1, ListedKeeps
<1>6. QED
  BY <1>1, <1>2, <1>4, <1>5, Zenon DEF D!Loses

\* Remove is a Remove of the list: the slot found holds e, and the slots behind it
\* move up.
LEMMA RemoveStep ==
    ASSUME RingInv(Ring), NEW e \in Element, Remove(e) PROVE RingInv(Ring)' /\ D!Remove(e)
<1>1. Ring.idmap = idmap /\ Ring.data = data /\ D!Members = idmap
  BY ListedSeq, Zenon DEF Ring, D!Members, Contents, Listed
<1>2. /\ Ring \in Rings /\ idmap = {At(Ring, i) : i \in 0 .. Length(Ring) - 1}
      /\ \A i \in 0 .. Length(Ring) - 1 : Slot(Ring, i) \in Positions(Ring) /\ data[Slot(Ring, i)] = At(Ring, i)
  BY <1>1, Zenon DEF RingInv, Positions, Slot, At
<1>3. Keeps(Ring, Ring)
  BY Zenon DEF Keeps
<1>4. CASE \A pos \in Positions(Ring) : data[pos] # e
  <2>1. Ring' = Ring /\ ret' = <<"ok", FALSE>>
    BY <1>4, SameRing, Zenon DEF Remove
  <2>2. e \notin idmap
    BY <1>2, <1>4, Zenon
  <2>3. D!Loses({e})
    <3>1. Ring.idmap = idmap \ {e}
      BY <1>1, <2>2, Zenon
    <3>2. QED
      BY <1>3, <2>1, <3>1, LosesStep, Zenon
  <2>4. (e \in D!Members) = FALSE
    BY <1>1, <2>2, IsMember, Zenon
  <2>5. QED
    BY <2>1, <2>3, <2>4, Zenon DEF D!Remove
<1>5. CASE \E pos \in Positions(Ring) : data[pos] = e
  <2>1. PICK pos \in Positions(Ring) : data[pos] = e /\ ret' = <<"ok", TRUE>> /\ Becomes(remove(Ring, pos))
    BY <1>5, Zenon DEF Remove
  <2>2. PICK k \in 0 .. Length(Ring) - 1 : pos = Slot(Ring, k)
    BY <2>1, Zenon DEF Positions, Slot
  <2> DEFINE r == remove(Ring, pos)
  <2>3. At(Ring, k) = e /\ e \in idmap
    BY <1>2, <2>1, <2>2, Zenon
  <2>4. /\ RingInv(r) /\ Length(r) = Length(Ring) - 1 /\ r.idmap = idmap \ {e}
        /\ \A i \in 0 .. Length(Ring) - 2 : At(r, i) = At(Ring, IF i < k THEN i ELSE i + 1)
    BY <1>1, <2>2, <2>3, RemoveInv, Zenon
  <2> HIDE DEF r
  <2>5. Ring' = r
    BY <2>1, <2>4, NextRing, Zenon DEF RingInv, r
  <2>6. Keeps(Ring, r)
    BY <1>2, <1>3, <2>4, KeepsOneLess, Zenon
  <2>7. D!Loses({e})
    BY <2>4, <2>5, <2>6, LosesStep, Zenon
  <2>8. (e \in D!Members) = TRUE
    BY <1>1, <2>3, IsMember, Zenon
  <2>9. QED
    BY <2>1, <2>4, <2>5, <2>7, <2>8, Zenon DEF D!Remove
<1>6. QED
  BY <1>4, <1>5, Zenon

\* A new queue is an empty ring.
LEMMA NewRing ==
    ASSUME NewQueue PROVE RingInv(Ring) /\ D!Init
<1>1. InitCapacity \in Nat \ {0}
  BY RingAssumption, Zenon
<1>2. /\ Ring.data = [i \in 0 .. InitCapacity - 1 |-> Nil] /\ Ring.head = 0 /\ Ring.tail = 0
      /\ Ring.capacity = InitCapacity /\ Ring.idmap = {} /\ ret = <<"new", Nil>>
  BY Zenon DEF NewQueue, Ring
<1>3. 0 \in 0 .. InitCapacity - 1
  BY <1>1
<1>4. Ring \in Shape(InitCapacity)
  BY <1>3, Zenon DEF NewQueue, Ring, Shape
<1>5. Ring \in Rings
  BY <1>1, <1>4, Zenon DEF Rings
<1>6. Length(Ring) = 0
  BY <1>2 DEF Length
<1>7. 0 .. Length(Ring) - 1 = {}
  BY <1>6
<1>8. RingInv(Ring)
  BY <1>2, <1>5, <1>7 DEF RingInv
<1>9. Contents = <<>>
  <2>1. Contents \in Seq(Element) /\ Len(Contents) = 0
    BY <1>6, <1>8, ListedSeq, Zenon DEF Contents, Listed
  <2>2. QED
    BY <2>1, EmptyList, Zenon
<1>10. QED
  BY <1>2, <1>8, <1>9, Zenon DEF D!Init

\* The invariant of the ring says what IdmapExact says of its slots.
LEMMA RingInvExact ==
    ASSUME RingInv(Ring) PROVE IdmapExact
<1>1. Ring.idmap = idmap /\ Ring.data = data
  BY Zenon DEF Ring
<1>2. \A i \in 0 .. Length(Ring) - 1 : data[Slot(Ring, i)] = At(Ring, i)
  BY <1>1, Zenon DEF At, Slot
<1>3. Positions(Ring) = {Slot(Ring, i) : i \in 0 .. Length(Ring) - 1}
  BY Zenon DEF Positions, Slot
<1>4. /\ idmap = {At(Ring, i) : i \in 0 .. Length(Ring) - 1}
      /\ \A i, j \in 0 .. Length(Ring) - 1 : At(Ring, i) = At(Ring, j) => i = j
  BY <1>1, Zenon DEF RingInv
<1>5. idmap = {data[pos] : pos \in Positions(Ring)}
  BY <1>2, <1>3, <1>4
<1>6. QED
  BY <1>4, <1>5, Zenon DEF IdmapExact

-----------------------------------------------------------------------------
(* The loop of ForEachRemove *)

INSTANCE WellFoundedInduction

\* A set of naturals that is not empty has a least member.
LEMMA Least ==
    ASSUME NEW T \in SUBSET Nat, T # {} PROVE \E m \in T : \A k \in T : ~(k < m)
<1>1. PICK m \in T : \A k \in T : ~(<<k, m>> \in OpToRel(<, Nat))
  BY WFMin, NatLessThanWellFounded, Zenon
<1>2. QED
  BY <1>1, Zenon DEF OpToRel

\* The turns follow one another: the recursion of Walk has a solution.
LEMMA WalkTurns ==
    ASSUME NEW q \in Rings, NEW C
    PROVE  /\ Walk(q, C)[0] = [q |-> q, pos |-> q.head, cnt |-> 0]
           /\ \A n \in 1 .. q.capacity : Walk(q, C)[n] = Turn(C, Walk(q, C)[n - 1])
<1> DEFINE start == [q |-> q, pos |-> q.head, cnt |-> 0]
           turn(f, n) == IF n = 0 THEN start ELSE Turn(C, f[n - 1])
           solves(f, m) == f = [n \in 0 .. m |-> turn(f, n)]
           none == {m \in Nat : ~ \E f : solves(f, m)}
<1> HIDE DEF start
<1>1. none = {}
  <2>1. SUFFICES ASSUME NEW m \in none, \A k \in none : ~(k < m) PROVE FALSE
    BY Least, Zenon
  <2>2. m \in Nat /\ ~ \E f : solves(f, m)
    BY Zenon
  <2>3. CASE m = 0
    <3> DEFINE f == [n \in 0 .. m |-> start]
    <3>1. \A n \in 0 .. m : n = 0
      BY <2>3
    <3>2. solves(f, m)
      BY <3>1, Zenon
    <3>3. QED
      BY <2>2, <3>2, Zenon
  <2>4. CASE m # 0
    <3>1. m - 1 \in Nat /\ m - 1 < m
      BY <2>2, <2>4
    <3>2. m - 1 \notin none
      BY <2>1, <3>1, Zenon
    <3>3. PICK g : solves(g, m - 1)
      BY <3>1, <3>2, Zenon
    <3> DEFINE f == [n \in 0 .. m |-> IF n = m THEN Turn(C, g[m - 1]) ELSE g[n]]
    <3>4. ASSUME NEW n \in 0 .. m PROVE f[n] = turn(f, n)
      <4>1. CASE n = m
        <5>1. n # 0 /\ n - 1 \in 0 .. m /\ n - 1 # m /\ n - 1 = m - 1
          BY <2>2, <2>4, <4>1
        <5>2. f[n - 1] = g[m - 1] /\ f[n] = Turn(C, g[m - 1])
          BY <4>1, <5>1, Zenon
        <5> HIDE DEF f
        <5>3. QED
          BY <5>1, <5>2, Zenon
      <4>2. CASE n # m
        <5>1. n \in 0 .. m - 1 /\ (n # 0 => n - 1 \in 0 .. m /\ n - 1 # m)
          BY <2>2, <4>2
        <5>2. g[n] = turn(g, n)
          BY <3>3, <5>1, Zenon
        <5>3. f[n] = g[n] /\ (n # 0 => f[n - 1] = g[n - 1])
          BY <4>2, <5>1, Zenon
        <5> HIDE DEF f
        <5>4. QED
          BY <5>2, <5>3, Zenon
      <4>3. QED
        BY <4>1, <4>2, Zenon
    <3>5. f = [n \in 0 .. m |-> f[n]]
      BY Zenon
    <3> HIDE DEF f
    <3>6. solves(f, m)
      BY <3>4, <3>5, Zenon
    <3>7. QED
      BY <2>2, <3>6, Zenon
  <2>5. QED
    BY <2>3, <2>4, Zenon
<1>2. q.capacity \in Nat
  BY Fields
<1>3. \E f : solves(f, q.capacity)
  BY <1>1, <1>2, Zenon
<1>4. Walk(q, C) = CHOOSE f : solves(f, q.capacity)
  BY Zenon DEF Walk, start
<1>5. solves(Walk(q, C), q.capacity)
  BY <1>3, <1>4, Zenon
<1>6. \A n \in 0 .. q.capacity : Walk(q, C)[n] = turn(Walk(q, C), n)
  BY <1>5, Zenon
<1>7. 0 \in 0 .. q.capacity /\ \A n \in 1 .. q.capacity : n \in 0 .. q.capacity /\ n # 0
  BY <1>2
<1>8. QED
  BY <1>6, <1>7, Zenon DEF start

\* After capacity turns the walk is over: the elements of C are gone, and no others.
LEMMA WalkEnd ==
    ASSUME NEW q, RingInv(q), NEW C
    PROVE  LET s == Walk(q, C)[q.capacity]
           IN  /\ RingInv(s.q) /\ s.q.idmap = q.idmap \ C /\ Keeps(q, s.q)
               /\ s.cnt = Length(q) - Length(s.q)
<1> DEFINE W == Walk(q, C)
           bad == {n \in 0 .. q.capacity : ~WalkInv(q, C, n, W[n])}
<1>1. q \in Rings /\ q.capacity \in Nat \ {0} /\ q.head \in 0 .. q.capacity - 1
  BY Fields, Zenon DEF RingInv
<1>2. W[0] = [q |-> q, pos |-> q.head, cnt |-> 0] /\ \A n \in 1 .. q.capacity : W[n] = Turn(C, W[n - 1])
  BY <1>1, WalkTurns, Zenon
<1> HIDE DEF W
<1>3. Length(q) \in 0 .. q.capacity - 1 /\ Slot(q, 0) = q.head
  BY <1>1, Slots, Zenon
<1>4. WalkInv(q, C, 0, W[0])
  <2>1. q.head \in Nat /\ 0 \in 0 .. Length(q) /\ 0 .. 0 - 1 = {} /\ 0 + 0 = 0 /\ 0 = Length(q) - Length(q) /\ 0 \in Nat
    BY <1>1, <1>3
  <2>2. Keeps(q, q)
    BY Zenon DEF Keeps
  <2>3. /\ W[0] \in [q : Rings, pos : Nat, cnt : Nat]
        /\ W[0].q = q /\ W[0].pos = q.head /\ W[0].cnt = 0
    BY <1>1, <1>2, <2>1
  <2>4. \E d \in 0 .. Length(q) :
          q.head = Slot(q, d) /\ (\A i \in 0 .. d - 1 : At(q, i) \notin C) /\ (d = Length(q) \/ d + 0 = 0)
    BY <1>3, <2>1
  <2>5. QED
    BY <2>1, <2>2, <2>3, <2>4, Zenon DEF WalkInv
<1>5. bad = {}
  <2>1. SUFFICES ASSUME NEW n \in bad, \A k \in bad : ~(k < n) PROVE FALSE
    <3>1. bad \in SUBSET Nat
      BY <1>1
    <3>2. QED
      BY <3>1, Least, Zenon
  <2>2. n \in 0 .. q.capacity /\ ~WalkInv(q, C, n, W[n])
    BY Zenon
  <2>3. n # 0
    BY <1>4, <2>2, Zenon
  <2>4. /\ n - 1 \in 0 .. q.capacity /\ n - 1 < n /\ n - 1 \in Nat /\ (n - 1) + 1 = n
        /\ n \in 1 .. q.capacity
    BY <1>1, <2>2, <2>3
  <2>5. WalkInv(q, C, n - 1, W[n - 1])
    BY <2>1, <2>4, Zenon
  <2>6. WalkInv(q, C, (n - 1) + 1, Turn(C, W[n - 1]))
    BY <1>1, <2>4, <2>5, TurnInv, Zenon
  <2>7. QED
    BY <1>2, <2>2, <2>4, <2>6, Zenon
<1> DEFINE s == W[q.capacity]
           p == s.q
<1>6. WalkInv(q, C, q.capacity, s)
  <2>1. q.capacity \in 0 .. q.capacity
    BY <1>1
  <2>2. QED
    BY <1>5, <2>1, Zenon
<1> HIDE DEF s
<1>7. /\ RingInv(p) /\ q.idmap \ C \subseteq p.idmap /\ p.idmap \subseteq q.idmap
      /\ s.cnt = Length(q) - Length(p) /\ Keeps(q, p)
  BY <1>6, Zenon DEF WalkInv
<1>8. PICK d \in 0 .. Length(p) :
        /\ \A i \in 0 .. d - 1 : At(p, i) \notin C
        /\ d = Length(p) \/ d + s.cnt = q.capacity
  BY <1>6, Zenon DEF WalkInv
<1>9. d = Length(p)
  <2>1. Length(p) \in 0 .. p.capacity - 1 /\ p.capacity \in Nat \ {0}
    BY <1>7, Slots, Fields, Zenon DEF RingInv
  <2>2. s.cnt = Length(q) - Length(p)
    BY <1>7, Zenon
  <2>3. QED
    BY <1>1, <1>3, <1>8, <2>1, <2>2
<1>10. p.idmap = {At(p, i) : i \in 0 .. Length(p) - 1}
  BY <1>7, Zenon DEF RingInv
<1>11. \A x \in p.idmap : x \notin C
  BY <1>8, <1>9, <1>10, Zenon
<1>12. p.idmap = q.idmap \ C
  BY <1>7, <1>11, Zenon
<1>13. QED
  BY <1>7, <1>12, Zenon DEF W, s

-----------------------------------------------------------------------------
(* The theorems *)

\* ForEachRemove is a ForEachRemove of the list: the walk takes out every element
\* its callback chooses and counts them.
LEMMA ForEachRemoveStep ==
    ASSUME RingInv(Ring), NEW C, ForEachRemove(C) PROVE RingInv(Ring)' /\ D!ForEachRemove(C)
<1> DEFINE s == Walk(Ring, C)[Ring.capacity]
           r == s.q
<1>1. Ring.idmap = idmap /\ Ring.capacity = capacity
  BY Zenon DEF Ring
<1>2. Becomes(r) /\ ret' = <<"count", s.cnt>>
  BY <1>1, Zenon DEF ForEachRemove
<1>3. RingInv(r) /\ r.idmap = idmap \ C /\ Keeps(Ring, r) /\ s.cnt = Length(Ring) - Length(r)
  BY <1>1, WalkEnd, Zenon
<1> HIDE DEF s
<1>4. Ring' = r
  BY <1>2, <1>3, NextRing, Zenon DEF RingInv
<1>5. D!Loses(C)
  BY <1>3, <1>4, LosesStep, Zenon
<1>6. Contents = Listed(Ring) /\ Contents' = Listed(r)
  BY <1>4, Zenon DEF Contents, Listed
<1>7. Len(Contents) = Length(Ring) /\ Len(Contents') = Length(r)
  BY <1>3, <1>6, ListedSeq, Zenon
<1>8. QED
  BY <1>2, <1>3, <1>4, <1>5, <1>7, Zenon DEF D!ForEachRemove

\* One step of the queue: the invariant holds after it, and it is one of Deque.
LEMMA RingStep ==
    ASSUME RingInv(Ring), [RingNext]_ringVars
    PROVE  RingInv(Ring)' /\ [D!Next]_<<Contents, ret>>
<1>1. ASSUME NEW e \in Element, Push(e) \/ PushFront(e) \/ Remove(e)
      PROVE  RingInv(Ring)' /\ (D!Push(e) \/ D!PushFront(e) \/ D!Remove(e))
  BY <1>1, PushStep, PushFrontStep, RemoveStep, Zenon
<1>2. ASSUME NEW C \in SUBSET Element, ForEachRemove(C) PROVE RingInv(Ring)' /\ D!ForEachRemove(C)
  BY <1>2, ForEachRemoveStep, Zenon
<1>3. CASE RingNext
  BY <1>1, <1>2, <1>3, PollStep, Zenon DEF RingNext, D!Next
<1>4. CASE UNCHANGED ringVars
  <2>1. Ring' = Ring /\ ret' = ret
    BY <1>4, SameRing, Zenon DEF ringVars
  <2>2. QED
    BY <2>1, Zenon DEF Contents
<1>5. QED
  BY <1>3, <1>4, Zenon

\* Push, PushFront, Poll, Remove and ForEachRemove of lib/queue.go keep idmap the
\* set of the elements between head and tail, each of them once, for every initial
\* capacity and every set of workers.
THEOREM IdmapIsExact == RingSpec => []IdmapExact
<1>1. NewQueue => RingInv(Ring)
  BY NewRing, Zenon
<1>2. RingInv(Ring) /\ [RingNext]_ringVars => RingInv(Ring)'
  BY RingStep, Zenon
<1>3. RingInv(Ring) => IdmapExact
  BY RingInvExact, Zenon
<1>4. QED
  BY <1>1, <1>2, <1>3, PTL DEF RingSpec

\* The ring of lib/queue.go implements the double-ended queue its interface Queue
\* promises: every call returns and leaves behind what the same call on the list of
\* its elements does, through every wrap, doubling and removal.
THEOREM RingImplementsDeque == RingSpec => IsDeque
<1>1. NewQueue => RingInv(Ring) /\ D!Init
  BY NewRing, Zenon
<1>2. RingInv(Ring) /\ [RingNext]_ringVars => RingInv(Ring)' /\ [D!Next]_<<Contents, ret>>
  BY RingStep, Zenon
<1>3. QED
  BY <1>1, <1>2, PTL DEF RingSpec, IsDeque, D!Spec

===============================================================================
