------------------------- MODULE ServiceSupervision -------------------------
(***************************************************************************)
(* The supervisor of the service (ServiceSupervisor, src/ops/diagnostics.cpp) *)
(* with the process that drives it, and the latency histogram and CPU      *)
(* gauge of its metrics (src/ops/metrics.cpp).  The process starts the     *)
(* service again when the supervisor says so, and stops it as soon as its  *)
(* drain is complete; time does not pass in between.                       *)
(***************************************************************************)
EXTENDS Integers, Sequences, FiniteSets, FiniteSetsExt, SequencesExt

CONSTANTS MaxRestarts, RestartWindow, DrainTimeout,   \* SupervisorConfig
          MaxWork,          \* orders in flight
          MaxServiceTime, MaxFailures,   \* bounds
          BucketBounds,     \* upper bounds of the histogram's buckets
          Latencies,        \* latencies recorded; a negative one is a bug upstream
          MaxSamples,       \* bound
          CpuReadings       \* CPU seconds of a reading, or NotAvailable

ASSUME SupervisionAssumption ==
  /\ MaxRestarts \in Nat /\ RestartWindow \in Nat /\ DrainTimeout \in Nat
  /\ BucketBounds \in Seq(Nat) /\ BucketBounds # <<>> /\ Latencies \subseteq Int
  /\ \A b, c \in DOMAIN BucketBounds : b <= c => BucketBounds[b] <= BucketBounds[c]

VARIABLES svcNow, svcState, failuresKept, drainBegan,   \* ServiceSupervisor
          work,                    \* orders in flight
          failedAt, restartedAfter,\* histories: times of all failures, and which a restart followed
          cutOff,                  \* history: a drain was ended with work in flight, after this time
          buckets, samples,        \* LatencyHistogram::counts_, and a history of what was recorded
          lastReading, cpuFraction \* ResourceMonitor::last_

supervisorVars == <<svcNow, svcState, failuresKept, drainBegan, work, failedAt, restartedAfter, cutOff>>
histogramVars == <<buckets, samples>>
cpuVars == <<lastReading, cpuFraction>>
supervisionVars == <<supervisorVars, histogramVars, cpuVars>>

NotAvailable == -1
NoTime == -1

-----------------------------------------------------------------------------
(* ServiceSupervisor.                                                      *)

\* Slip: the drain ends when the work does.
DrainedOnly == svcState # "draining" \/ work = 0

DrainComplete ==
  svcState # "draining" \/ work = 0 \/ svcNow - drainBegan >= DrainTimeout

\* auto_restart is on.  The failures counted are those of the last pruning.
ShouldRestart == svcState = "failed" /\ Len(failuresKept) <= MaxRestarts

\* start(), refused while shutting down; from failed it is not asked why.
StartService(automatic) ==
  /\ svcState \in {"stopped", "failed"}
  /\ automatic => ShouldRestart
  /\ svcState' = "running"
  /\ restartedAfter' = IF automatic THEN restartedAfter \union {Len(failedAt)}
                       ELSE restartedAfter
  /\ UNCHANGED <<svcNow, failuresKept, drainBegan, work, failedAt, cutOff, histogramVars, cpuVars>>

BeginDrain ==
  /\ svcState = "running"
  /\ svcState' = "draining" /\ drainBegan' = svcNow
  /\ UNCHANGED <<svcNow, failuresKept, work, failedAt, restartedAfter, cutOff, histogramVars, cpuVars>>

\* stop() by a process that waits for its drain.
StopService ==
  /\ svcState = "draining" /\ DrainComplete
  /\ svcState' = "stopped" /\ work' = 0
  /\ cutOff' = IF work > 0 THEN svcNow - drainBegan ELSE cutOff
  /\ UNCHANGED <<svcNow, failuresKept, drainBegan, failedAt, restartedAfter, histogramVars, cpuVars>>

\* prune_restarts(): a window that includes its beginning.
Recent(at) == svcNow - at <= RestartWindow
Keeping(failures, at) == IF Recent(at) THEN Append(failures, at) ELSE failures
Pruned(failures) == FoldLeft(Keeping, <<>>, failures)

RecordFailure ==
  /\ svcState \in {"running", "draining"} /\ Len(failedAt) < MaxFailures
  /\ svcState' = "failed" /\ work' = 0
  /\ failuresKept' = Pruned(Append(failuresKept, svcNow))
  /\ failedAt' = Append(failedAt, svcNow)
  /\ UNCHANGED <<svcNow, drainBegan, restartedAfter, cutOff, histogramVars, cpuVars>>

WorkArrives ==
  /\ svcState = "running" /\ work < MaxWork /\ work' = work + 1
  /\ UNCHANGED <<svcNow, svcState, failuresKept, drainBegan, failedAt, restartedAfter, cutOff,
                 histogramVars, cpuVars>>

WorkFinishes ==
  /\ svcState \in {"running", "draining"} /\ work > 0 /\ work' = work - 1
  /\ UNCHANGED <<svcNow, svcState, failuresKept, drainBegan, failedAt, restartedAfter, cutOff,
                 histogramVars, cpuVars>>

\* The process acts on a complete drain before time passes.
TimePasses ==
  /\ svcNow < MaxServiceTime /\ ~(svcState = "draining" /\ DrainComplete)
  /\ svcNow' = svcNow + 1
  /\ UNCHANGED <<svcState, failuresKept, drainBegan, work, failedAt, restartedAfter, cutOff,
                 histogramVars, cpuVars>>

-----------------------------------------------------------------------------
(* LatencyHistogram: an outlier counts in the last bucket.                 *)

BucketOf(latency) ==
  LET holding == {b \in DOMAIN BucketBounds : latency <= BucketBounds[b]}
  IN  IF holding = {} THEN Len(BucketBounds) ELSE CHOOSE b \in holding : \A c \in holding : b <= c

Observe(latency) ==
  /\ Len(samples) < MaxSamples
  /\ IF latency < 0 THEN UNCHANGED histogramVars
     ELSE /\ buckets' = [buckets EXCEPT ![BucketOf(latency)] = @ + 1]
          /\ samples' = Append(samples, latency)
  /\ UNCHANGED <<supervisorVars, cpuVars>>

UpTo(b) == LET CountOf(c) == buckets[c] IN MapThenSumSet(CountOf, 1..b)

\* Slip: the bucket after the one that reaches the rank.
PassesRank(b, percent) == 100 * UpTo(b) > percent * Len(samples)

ReachesRank(b, percent) == 100 * UpTo(b) >= percent * Len(samples)

\* quantile_micros() for a percentage above zero, as a fraction: within its bucket by rank.
Quantile(percent) ==
  LET reaching == {b \in DOMAIN BucketBounds : ReachesRank(b, percent)}
      bucket == CHOOSE b \in reaching : \A c \in reaching : b <= c
      lower == IF bucket = 1 THEN 0 ELSE BucketBounds[bucket - 1]
      upper == BucketBounds[bucket]
      rank == percent * Len(samples) - 100 * (UpTo(bucket) - buckets[bucket])
  IN  IF reaching = {} \/ samples = <<>> THEN [top |-> 0, bottom |-> 1]
      ELSE [top |-> lower * 100 * buckets[bucket] + (upper - lower) * rank,
            bottom |-> 100 * buckets[bucket]]

-----------------------------------------------------------------------------
(* ResourceMonitor::sample: the load is a difference, so the first reading *)
(* and the one after an unavailable one have none.                         *)

CpuLoad(reading) ==
  IF /\ lastReading.cpu # NotAvailable /\ reading # NotAvailable
     /\ svcNow > lastReading.at /\ reading > lastReading.cpu
  THEN reading - lastReading.cpu ELSE 0

TakeSample(reading) ==
  /\ reading = NotAvailable \/ reading >= lastReading.cpu
  /\ cpuFraction' = [load |-> CpuLoad(reading), over |-> svcNow - lastReading.at]
  /\ lastReading' = [at |-> svcNow, cpu |-> reading]
  /\ UNCHANGED <<supervisorVars, histogramVars>>

-----------------------------------------------------------------------------
SupervisionInit ==
  /\ svcNow = 0 /\ svcState = "stopped" /\ failuresKept = <<>> /\ drainBegan = NoTime
  /\ work = 0 /\ failedAt = <<>> /\ restartedAfter = {} /\ cutOff = NoTime
  /\ buckets = [b \in DOMAIN BucketBounds |-> 0] /\ samples = <<>>
  /\ lastReading = [at |-> 0, cpu |-> NotAvailable] /\ cpuFraction = [load |-> 0, over |-> 0]

SupervisorNext ==
  \/ \E automatic \in BOOLEAN : StartService(automatic)
  \/ BeginDrain \/ StopService \/ RecordFailure
  \/ WorkArrives \/ WorkFinishes \/ TimePasses

HistogramNext == \E latency \in Latencies : Observe(latency)

ResourcesNext == TimePasses \/ \E reading \in CpuReadings : TakeSample(reading)

SupervisionSpec ==
  SupervisionInit /\ [][SupervisorNext \/ HistogramNext \/ ResourcesNext]_supervisionVars

-----------------------------------------------------------------------------
\* "A service that fails repeatedly needs a human", and a graceful shutdown never
\* becomes a hang: a restart follows a failure by itself only when that was at most
\* the MaxRestarts-th of its window, however the failures before were pruned; a
\* drain lasts no longer than its timeout, and leaves work behind only then.
SupervisorHoldsBack ==
  /\ \A i \in restartedAfter :
       Cardinality({j \in 1..i : failedAt[i] - failedAt[j] <= RestartWindow}) <= MaxRestarts
  /\ svcState = "draining" => svcNow - drainBegan <= DrainTimeout
  /\ cutOff # NoTime => cutOff >= DrainTimeout

\* A quantile is where the recorded latency of its rank is: in the bucket of that
\* latency, however the samples are spread and wherever they are cut; the median is
\* never above the 95th percentile, nor that above the 99th.
QuantilesFollowSamples ==
  LET n == Len(samples)
      Rank(percent) == ((percent * n) + 99) \div 100
      Statistic(rank) ==
        CHOOSE x \in {samples[i] : i \in DOMAIN samples} :
          /\ Cardinality({i \in DOMAIN samples : samples[i] < x}) < rank
          /\ Cardinality({i \in DOMAIN samples : samples[i] <= x}) >= rank
      Lower(b) == IF b = 1 THEN 0 ELSE BucketBounds[b - 1]
      AtMost(q, r) == q.top * r.bottom <= r.top * q.bottom
  IN  n > 0 =>
        /\ \A percent \in {50, 95, 99} :
             LET q == Quantile(percent)
                 b == BucketOf(Statistic(Rank(percent)))
             IN  Lower(b) * q.bottom <= q.top /\ q.top <= BucketBounds[b] * q.bottom
        /\ AtMost(Quantile(50), Quantile(95)) /\ AtMost(Quantile(95), Quantile(99))
=============================================================================
