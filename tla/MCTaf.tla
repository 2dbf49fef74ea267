-------------------------------- MODULE MCTaf -------------------------------
(* Failover: the statistic with two callers that race (part "statistic"), and *)
(* the dispatch that only asks for its answer (part "dispatch").  A behaviour *)
(* is one of either part.  The constants keep the proportions of the code.    *)
EXTENDS Taf, TafDispatch

VARIABLE part

OneOfEach == [p |-> "primary", f |-> "fallback"]
Ids == DOMAIN OneOfEach

FailoverInit == part \in {"statistic", "dispatch"} /\ InitTAF /\ Init

InStatistic(A) == part = "statistic" /\ A /\ UNCHANGED <<part, vars>>
InDispatch(A) == part = "dispatch" /\ A /\ UNCHANGED <<part, tafVars>>

FailoverNext == InStatistic(TafNext) \/ InDispatch(Next)

\* The fairness of FairSpec and of Spec.
FailoverSpec ==
  /\ FailoverInit /\ [][FailoverNext]_<<part, vars, tafVars>>
  /\ \A c \in Reporter : WF_tafVars(InStatistic(ReporterStep(c)))
  /\ \A c \in Caller : WF_vars(InDispatch(Locked(c))) /\ WF_vars(InDispatch(Step(c)))
  /\ \A w \in Worker : WF_vars(InDispatch(Recovered(w)))
=============================================================================
