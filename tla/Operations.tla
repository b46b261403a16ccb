----------------------------- MODULE Operations -----------------------------
(***************************************************************************)
(* Health and operations (src/ops/health.cpp): the health monitor that     *)
(* says whether trading may go on, the circuit breaker in front of a       *)
(* venue, and the alert manager.  They share a clock and nothing else.     *)
(***************************************************************************)
EXTENDS Integers, Sequences, SequencesExt, TLC

CONSTANTS Components, Critical,      \* registered components; those that gate trading
          StalenessTimeout, FailuresBeforeUnhealthy,     \* HealthConfig
          FailureThreshold, RatePercent, RateSamples, BreakerWindow,
          OpenDuration, ProbesToClose,                   \* CircuitBreakerConfig
          AlertKeys, MaxActive,                          \* AlertConfig; keys in map order
          MaxOpsTime, MaxReports, MaxInFlight   \* bounds

ASSUME OperationsBounds ==
  /\ Critical \subseteq Components /\ AlertKeys \subseteq Nat
  /\ {FailuresBeforeUnhealthy, FailureThreshold, ProbesToClose, BreakerWindow, MaxActive}
     \subseteq Nat \ {0}
  /\ {StalenessTimeout, OpenDuration} \subseteq Nat

VARIABLES opsNow,      \* the clock
          health,      \* HealthMonitor::components_: the stored status and failures
          reports,     \* history: what each component reported, and when
          breaker,     \* CircuitBreaker
          inFlight,    \* operations allowed and not yet back, since the last trip or before it
          results,     \* history: results recorded since the last trip
          early,       \* history: an operation was allowed while it should have been refused
          alerts       \* AlertManager::active_

monitorVars == <<health, reports>>
breakerVars == <<breaker, inFlight, results, early>>
operationsVars == <<opsNow, monitorVars, breakerVars, alerts>>

Tick == opsNow < MaxOpsTime /\ opsNow' = opsNow + 1 /\ UNCHANGED <<monitorVars, breakerVars, alerts>>

-----------------------------------------------------------------------------
(* HealthMonitor.                                                          *)

Reportable == {"healthy", "degraded", "unhealthy"}

StoredAfter(c, status) ==
  LET failures == IF status = "healthy" THEN 0 ELSE health[c].failures + 1
  IN  [failures |-> failures, last |-> opsNow,
       status |-> IF status = "degraded" /\ failures >= FailuresBeforeUnhealthy
                  THEN "unhealthy" ELSE status]

Report(c, status) ==
  /\ Len(reports[c]) < MaxReports
  /\ health' = [health EXCEPT ![c] = StoredAfter(c, status)]
  /\ reports' = [reports EXCEPT ![c] = Append(@, [status |-> status, at |-> opsNow])]
  /\ UNCHANGED <<opsNow, breakerVars, alerts>>

Unreported == [status |-> "unknown", failures |-> 0, last |-> -1]

\* Mutant of EffectiveStatus: a stale green stays green.
StoredStatus(c) == health[c].status

EffectiveStatus(c) ==
  IF health[c].last = -1 \/ opsNow - health[c].last > StalenessTimeout
  THEN "unknown" ELSE health[c].status

Severity == [healthy |-> 0, degraded |-> 1, unknown |-> 2, unhealthy |-> 3]

\* critical_status and trading_permitted.
TradingPermitted ==
  Critical # {} /\ \A c \in Critical : Severity[EffectiveStatus(c)] <= Severity.degraded

-----------------------------------------------------------------------------
(* CircuitBreaker.                                                         *)

ClosedBreaker == [state |-> "closed", window |-> <<>>, failures |-> 0, probes |-> 0, openedAt |-> -1]

NoResults == [good |-> 0, late |-> 0]

Elapsed == opsNow - breaker.openedAt >= OpenDuration

\* allow(): half open, every caller is let through.
Allow ==
  /\ inFlight.old + inFlight.new < MaxInFlight
  /\ breaker.state = "open" => Elapsed
  /\ breaker' = IF breaker.state = "open"
                THEN [breaker EXCEPT !.state = "halfOpen", !.probes = 0] ELSE breaker
  /\ inFlight' = [inFlight EXCEPT !.new = @ + 1]
  /\ early' = (early \/ (breaker.openedAt # -1 /\ ~Elapsed))
  /\ UNCHANGED <<opsNow, monitorVars, results, alerts>>

Pushed(ok) ==
  LET longer == Append(breaker.window, ok)
  IN  IF Len(longer) > BreakerWindow THEN Tail(longer) ELSE longer

FailedIn(window) == Len(SelectSeq(window, LAMBDA ok : ~ok))

Tripped(b) == [b EXCEPT !.state = "open", !.openedAt = opsNow, !.probes = 0]

AfterSuccess ==
  LET b == [breaker EXCEPT !.failures = 0, !.window = Pushed(TRUE)]
  IN  IF b.state # "halfOpen" THEN b
      ELSE IF b.probes + 1 >= ProbesToClose
           THEN [b EXCEPT !.state = "closed", !.window = <<>>, !.probes = 0]
           ELSE [b EXCEPT !.probes = @ + 1]

\* Mutant of AfterFailure: a failed probe does not open the breaker again.
AfterFailureProbingOn ==
  LET b == [breaker EXCEPT !.failures = @ + 1, !.window = Pushed(FALSE)]
  IN  IF b.state = "closed" /\ b.failures >= FailureThreshold THEN Tripped(b) ELSE b

AfterFailure ==
  LET b == [breaker EXCEPT !.failures = @ + 1, !.window = Pushed(FALSE)]
      tooMany == \/ b.failures >= FailureThreshold
                 \/ /\ Len(b.window) >= RateSamples
                    /\ 100 * FailedIn(b.window) >= RatePercent * Len(b.window)
  IN  IF b.state = "halfOpen" \/ (b.state = "closed" /\ tooMany) THEN Tripped(b) ELSE b

\* An operation comes back; it may have been allowed before the last trip.
ResultArrives ==
  \E epoch \in {"old", "new"}, ok \in BOOLEAN :
    /\ inFlight[epoch] > 0
    /\ breaker' = IF ok THEN AfterSuccess ELSE AfterFailure
    /\ LET left == [inFlight EXCEPT ![epoch] = @ - 1]
           trips == breaker'.state = "open" /\ breaker.state # "open"
       IN  /\ inFlight' = IF trips THEN [old |-> left.old + left.new, new |-> 0] ELSE left
           /\ results' = IF trips THEN NoResults
                         ELSE [good |-> IF ok /\ epoch = "new" /\ results.good < ProbesToClose
                                        THEN results.good + 1
                                        ELSE IF ok THEN results.good ELSE 0,
                               late |-> IF epoch = "old" /\ breaker.state = "halfOpen"
                                        THEN 1 ELSE results.late]
    /\ UNCHANGED <<opsNow, monitorVars, early, alerts>>

\* reset(), after manual intervention.
ResetBreaker ==
  /\ breaker' = ClosedBreaker
  /\ results' = NoResults
  /\ UNCHANGED <<opsNow, monitorVars, inFlight, early, alerts>>

-----------------------------------------------------------------------------
(* AlertManager: severities are 0 (info) to 3 (critical).                  *)

SmallestKey(keys) == CHOOSE k \in keys : \A other \in keys : k <= other

\* Beyond the bound the map gives up its first key.
Bounded(active) ==
  IF Cardinality(DOMAIN active) <= MaxActive THEN active
  ELSE [k \in DOMAIN active \ {SmallestKey(DOMAIN active)} |-> active[k]]

Raise(key, severity) ==
  /\ IF key \in DOMAIN alerts
     THEN alerts' = [alerts EXCEPT ![key].severity = IF severity > @ THEN severity ELSE @]
     ELSE alerts' = Bounded((key :> [severity |-> severity, raisedAt |-> opsNow]) @@ alerts)
  /\ UNCHANGED <<opsNow, monitorVars, breakerVars>>

Resolve(key) ==
  /\ key \in DOMAIN alerts
  /\ alerts' = [k \in DOMAIN alerts \ {key} |-> alerts[k]]
  /\ UNCHANGED <<opsNow, monitorVars, breakerVars>>

-----------------------------------------------------------------------------
OperationsInit ==
  /\ opsNow = 0
  /\ health = [c \in Components |-> Unreported] /\ reports = [c \in Components |-> <<>>]
  /\ breaker = ClosedBreaker /\ inFlight = [old |-> 0, new |-> 0] /\ results = NoResults
  /\ early = FALSE /\ alerts = <<>>

MonitorNext == \E c \in Components, status \in Reportable : Report(c, status)
BreakerNext == Allow \/ ResultArrives \/ ResetBreaker
AlertNext == \E key \in AlertKeys : Resolve(key) \/ \E severity \in 0..3 : Raise(key, severity)

OperationsNext == Tick \/ MonitorNext \/ BreakerNext \/ AlertNext

OperationsSpec == OperationsInit /\ [][OperationsNext]_operationsVars

-----------------------------------------------------------------------------
FailingFor(log) ==
  CHOOSE n \in 0..Len(log) :
    /\ \A i \in (Len(log) - n + 1)..Len(log) : log[i].status # "healthy"
    /\ n < Len(log) => log[Len(log) - n].status = "healthy"

\* Trading is permitted only while every critical component is vouched for: it
\* has reported within the timeout, its last word was not that it is unhealthy,
\* and its reports have not failed as often in a row as makes it unhealthy.
TradingVouched ==
  TradingPermitted =>
    /\ Critical # {}
    /\ \A c \in Critical :
         /\ reports[c] # <<>>
         /\ opsNow - Last(reports[c]).at <= StalenessTimeout
         /\ Last(reports[c]).status # "unhealthy"
         /\ FailingFor(reports[c]) < FailuresBeforeUnhealthy

\* After a trip nothing is let through before the breaker has been open for its
\* time, and it closes only after as many operations in a row as it wants, all
\* let through since the trip, have succeeded: unless results of operations from
\* before the trip came in while it was probing, which it counts as probes.
BreakerShields ==
  [][/\ ~early'
     /\ breaker.state = "halfOpen" /\ breaker'.state = "closed" /\ breaker' # ClosedBreaker
          => results'.late = 1 \/ results'.good >= ProbesToClose]_operationsVars

\* The monitor and the breaker together: trading is on only while what it relies
\* on is alive, and an open breaker lets nothing through before its time.
OperationsShieldTrading == []TradingVouched /\ BreakerShields
=============================================================================
