-------------------------------- MODULE Taf ---------------------------------
(***************************************************************************)
(* The failover statistic of one shard (lib/taf.go): pct, the chance that  *)
(* a request goes to the primary database, and deltaPct, by how much an    *)
(* error changes it.  Coordinators (Reporter) report outcomes              *)
(* concurrently; every atomic load and store is a step, since "we ignore   *)
(* race condition".  The primary database is up or down, and a request to  *)
(* it ends well or badly accordingly.                                      *)
(***************************************************************************)
EXTENDS Integers

CONSTANTS
  Reporter,
  tafMaxPct, tafMinPct,          \* 110 and 1 in the code
  tafPctChange,                  \* 10
  tafDeltaPctMin, tafDeltaPctMax,\* 1 and 64
  Percent                        \* 100, the argument of rand.Intn

PowersOfTwo == {1, 2, 4, 8, 16, 32, 64}

ASSUME TafAssumption ==
  /\ tafMinPct \in Nat \ {0} /\ tafMaxPct \in Nat /\ tafPctChange \in Nat \ {0}
  /\ tafMinPct + tafPctChange <= tafMaxPct
  /\ tafDeltaPctMin = 1 /\ tafDeltaPctMax \in PowersOfTwo
  /\ Percent \in tafMinPct .. tafMaxPct

VARIABLES
  pct, deltaPct,
  up,             \* the primary database answers well
  step,           \* where a coordinator is
  good,           \* the outcome it reports: NotifyOK or NotifyError
  myPct, myDelta  \* what it has loaded

tafVars == <<pct, deltaPct, up, step, good, myPct, myDelta>>

Steps == {"idle", "request", "loadDelta", "storePct", "storeDelta"}

\* InitTAF
InitTAF ==
  /\ pct = tafMaxPct /\ deltaPct = 1
  /\ up = TRUE
  /\ step = [c \in Reporter |-> "idle"]
  /\ good = [c \in Reporter |-> TRUE]
  /\ myPct = [c \in Reporter |-> tafMaxPct]
  /\ myDelta = [c \in Reporter |-> 1]

-----------------------------------------------------------------------------
(* What NotifyOK and NotifyError store                                     *)

Smaller(a, b) == IF a < b THEN a ELSE b

\* NotifyError: pct - deltaPct, at least tafMinPct.
FloorZero(p, d) == IF p > Smaller(d, tafPctChange)                \* mutant
                   THEN p - Smaller(d, tafPctChange) ELSE 0
StopsShort(p, d) == IF p > tafMinPct + Smaller(d, tafPctChange)   \* mutant
                    THEN p - Smaller(d, tafPctChange) ELSE p
Lowered(p, d) ==
  IF p > tafMinPct + Smaller(d, tafPctChange)
  THEN p - Smaller(d, tafPctChange) ELSE tafMinPct

\* NotifyOK: pct + tafPctChange, at most tafMaxPct.
NotToTheTop(p) == IF p < tafMaxPct - tafPctChange                 \* mutant
                  THEN p + tafPctChange ELSE p
Raised(p) == IF p < tafMaxPct - tafPctChange THEN p + tafPctChange ELSE tafMaxPct

\* The tests before each store, on the values loaded.
PctMoves(c) == IF good[c] THEN myPct[c] < tafMaxPct ELSE myPct[c] > tafMinPct
AtTheEnd(c, d) == IF good[c] THEN d >= tafDeltaPctMin              \* mutant
                  ELSE d < tafDeltaPctMax
DeltaMoves(c, d) == IF good[c] THEN d > tafDeltaPctMin ELSE d < tafDeltaPctMax

-----------------------------------------------------------------------------
(* Steps                                                                   *)

\* UsePrimary draws a number below pct; otherwise the request goes to the
\* fallback and nothing is reported.
UsePrimary(c) ==
  /\ step[c] = "idle"
  /\ \E r \in 0 .. Percent - 1 : r < pct
  /\ step' = [step EXCEPT ![c] = "request"]
  /\ UNCHANGED <<pct, deltaPct, up, good, myPct, myDelta>>

\* DispatchTAFSession has the outcome and calls NotifyOK or NotifyError,
\* which loads pct.
Notify(c) ==
  /\ step[c] = "request"
  /\ good' = [good EXCEPT ![c] = up]
  /\ myPct' = [myPct EXCEPT ![c] = pct]
  /\ step' = [step EXCEPT ![c] = "loadDelta"]
  /\ UNCHANGED <<pct, deltaPct, up, myDelta>>

\* It loads deltaPct; both functions then skip the stores that change nothing.
LoadDelta(c) ==
  /\ step[c] = "loadDelta"
  /\ myDelta' = [myDelta EXCEPT ![c] = deltaPct]
  /\ step' = [step EXCEPT ![c] = IF PctMoves(c) THEN "storePct"
                                 ELSE IF DeltaMoves(c, deltaPct) THEN "storeDelta" ELSE "idle"]
  /\ UNCHANGED <<pct, deltaPct, up, good, myPct>>

StorePct(c) ==
  /\ step[c] = "storePct"
  /\ pct' = IF good[c] THEN Raised(myPct[c]) ELSE Lowered(myPct[c], myDelta[c])
  /\ step' = [step EXCEPT ![c] = IF DeltaMoves(c, myDelta[c]) THEN "storeDelta" ELSE "idle"]
  /\ UNCHANGED <<deltaPct, up, good, myPct, myDelta>>

StoreDelta(c) ==
  /\ step[c] = "storeDelta"
  /\ deltaPct' = IF good[c] THEN myDelta[c] \div 2 ELSE 2 * myDelta[c]
  /\ step' = [step EXCEPT ![c] = "idle"]
  /\ UNCHANGED <<pct, up, good, myPct, myDelta>>

\* The primary database fails or comes back.
Switch ==
  /\ up' = ~up
  /\ UNCHANGED <<pct, deltaPct, step, good, myPct, myDelta>>

ReporterStep(c) == UsePrimary(c) \/ Notify(c) \/ LoadDelta(c) \/ StorePct(c) \/ StoreDelta(c)

TafNext == Switch \/ \E c \in Reporter : ReporterStep(c)

TafSpec == InitTAF /\ [][TafNext]_tafVars

\* Requests keep coming and end; one in a hundred at least goes to the
\* primary, so that UsePrimary is true again and again.
FairSpec == TafSpec /\ \A c \in Reporter : WF_tafVars(ReporterStep(c))

-----------------------------------------------------------------------------
(* Properties                                                              *)

\* The variables have their types; the unsigned ones never go below zero.
TypeOK ==
  /\ pct \in Nat /\ deltaPct \in Nat
  /\ up \in BOOLEAN
  /\ step \in [Reporter -> Steps] /\ good \in [Reporter -> BOOLEAN]
  /\ myPct \in [Reporter -> Nat] /\ myDelta \in [Reporter -> Nat]

\* taf.go:60, "It is in [1..110] range": no interleaving of loads and stores
\* of NotifyOK and NotifyError takes pct out of it, and the primary never loses
\* its one percent of health checks.
PctInRange == pct \in tafMinPct .. tafMaxPct

\* deltaPct stays a power of two between its bounds, whatever is lost in the
\* race: it never becomes 0 (no error would count any more) and its doubling
\* never passes the maximum.
DeltaInRange == deltaPct \in PowersOfTwo /\ deltaPct <= tafDeltaPctMax

\* A primary that stays down loses all but the health checks in the end,
\* although NotifyError stores values computed from stale loads.
FailsOver == <>[]~up => <>[](pct = tafMinPct)

\* A primary that stays up gets all the requests back in the end, even from
\* the lowest pct.
Recovers == <>[]up => <>[](pct = tafMaxPct)
=============================================================================
