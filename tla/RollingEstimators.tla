------------------------- MODULE RollingEstimators -------------------------
(***************************************************************************)
(* The streaming estimators of the features (include/ptl/features/         *)
(* rolling.hpp, bivariate.hpp, intraday.hpp): constant work per update,    *)
(* over a ring buffer.  Values are integers; a shifted sum is kept times   *)
(* the window, so that the mean it is shifted by is an integer too.        *)
(***************************************************************************)
EXTENDS Integers, Sequences, FiniteSets, SequencesExt

CONSTANTS Window,          \* of every estimator, at least two
          Observations,    \* records [x, y, volume]: two series, and a volume
          Minutes,         \* slots of the volume profile
          MaxObservations  \* bound

VARIABLES rings,       \* RingBuffer per series
          means,       \* RollingMean of x, also RollingTwap and the spread's
          moments,     \* RollingCovariance of x and y
          extrema,     \* RollingExtrema of x
          vwap,        \* RollingVwap and SessionVwap of x
          profile,     \* MinuteOfDayVolumeProfile
          observed, opened, volumes  \* histories: since the reset, the session's first, and per minute

estimatorVars == <<rings, means, moments, extrema, vwap, profile, observed, opened, volumes>>

-----------------------------------------------------------------------------
(* RingBuffer: slots 1..Window; "head" is the next one written.            *)

EmptyRing == [data |-> [i \in 1..Window |-> 0], head |-> 1, size |-> 0]

Full(ring) == ring.size = Window

\* push(): what it evicts, zero while the ring fills.
Evicted(ring) == IF Full(ring) THEN ring.data[ring.head] ELSE 0

Pushed(ring, x) ==
  [data |-> [ring.data EXCEPT ![ring.head] = x],
   head |-> (ring.head % Window) + 1,
   size |-> IF Full(ring) THEN Window ELSE ring.size + 1]

AtLag(ring, k) ==
  IF k >= ring.size THEN 0 ELSE ring.data[((ring.head - 2 - k + 2 * Window) % Window) + 1]

SumOver(ring, Of(_)) ==
  FoldLeft(LAMBDA sum, k : sum + Of(k), 0, [k \in 1..ring.size |-> k - 1])

-----------------------------------------------------------------------------
(* RollingMean.                                                            *)

\* The sum after "ring" became "after", made anew from it every Window updates.
MeanUpdated(mean, ring, after, x) ==
  IF mean.since + 1 >= Window
  THEN [sum |-> LET Of(k) == AtLag(after, k) IN SumOver(after, Of), since |-> 0]
  ELSE [sum |-> mean.sum + x - Evicted(ring), since |-> mean.since + 1]

-----------------------------------------------------------------------------
(* RollingCovariance; RollingStdev is the same of one series, RollingBeta  *)
(* and RollingCorrelation its quotients.                                   *)

NoMoments == [refX |-> 0, refY |-> 0, sx |-> 0, sy |-> 0, sxx |-> 0, syy |-> 0, sxy |-> 0,
              haveRef |-> FALSE, evicting |-> FALSE, since |-> 0]

\* The moments of a pair of deviations, added or (sign -1) taken away.
Adding(m, dx, dy, sign) ==
  [m EXCEPT !.sx = @ + sign * dx, !.sy = @ + sign * dy, !.sxx = @ + sign * dx * dx,
            !.syy = @ + sign * dy * dy, !.sxy = @ + sign * dx * dy]

\* Slip: the placeholder of a ring that still fills is taken away too.
TakesAway(m) == m.haveRef

EvictsNow(m) == m.evicting

\* recompute(): the references become the means, and the sums are made anew.
Recomputed(m, xs, ys) ==
  LET X(k) == AtLag(xs, k)
      Y(k) == AtLag(ys, k)
      refX == SumOver(xs, X)      \* Window times the mean: the ring is full
      refY == SumOver(ys, Y)
      blank == [m EXCEPT !.refX = refX, !.refY = refY, !.since = 0,
                         !.sx = 0, !.sy = 0, !.sxx = 0, !.syy = 0, !.sxy = 0]
  IN  FoldLeft(LAMBDA acc, k : Adding(acc, Window * X(k) - refX, Window * Y(k) - refY, 1),
               blank, [k \in 1..xs.size |-> k - 1])

CovarianceUpdated(m0, xs, ys, newXs, newYs, x, y) ==
  LET m == IF m0.haveRef THEN m0
           ELSE [m0 EXCEPT !.refX = Window * x, !.refY = Window * y, !.haveRef = TRUE]
      without == IF EvictsNow(m)
                 THEN Adding(m, Window * Evicted(xs) - m.refX, Window * Evicted(ys) - m.refY, -1)
                 ELSE m
      with == [Adding(without, Window * x - m.refX, Window * y - m.refY, 1)
                 EXCEPT !.evicting = @ \/ Full(newXs), !.since = @ + 1]
  IN  IF with.since >= Window THEN Recomputed(with, newXs, newYs) ELSE with

\* value() times Window^2 * n * (n - 1), zero below two observations.
Covariance(m, n) == IF n < 2 THEN 0 ELSE n * m.sxy - m.sx * m.sy

\* var_from() by the same factor, clamped at zero.
Variance(sumsq, sum, n) ==
  LET spread == n * sumsq - sum * sum IN IF n < 2 \/ spread < 0 THEN 0 ELSE spread

\* RollingBeta::value() as a fraction, zero when the market does not move.
Beta(m, n) ==
  IF Variance(m.sxx, m.sx, n) <= 0 THEN [top |-> 0, bottom |-> 1]
  ELSE [top |-> Covariance(m, n), bottom |-> Variance(m.sxx, m.sx, n)]

-----------------------------------------------------------------------------
(* RollingExtrema: the candidates for minimum and maximum, oldest first.   *)

NoExtrema == [low |-> <<>>, high |-> <<>>, index |-> 0]

Expired(at, index) == at <= index - Window

\* update(): candidates the new value beats leave at the back, old ones at the front.
Candidates(queue, x, index, sign) ==
  LET Kept(c) == sign * c.value < sign * x
      Young(c) == ~Expired(c.at, index)
  IN  SelectSeq(Append(SelectSeq(queue, Kept), [at |-> index, value |-> x]), Young)

ExtremaUpdated(e, x) ==
  LET index == e.index + 1
  IN  [low |-> Candidates(e.low, x, index, 1), high |-> Candidates(e.high, x, index, -1),
       index |-> index]

-----------------------------------------------------------------------------
(* Volume-weighted prices: over the window, and since the session opened.  *)

NoVwap == [pv |-> 0, volume |-> 0, sessionPv |-> 0, sessionVolume |-> 0, last |-> 0]

VwapUpdated(v, pvRing, volRing, o) ==
  [pv |-> v.pv + o.x * o.volume - Evicted(pvRing), volume |-> v.volume + o.volume - Evicted(volRing),
   sessionPv |-> v.sessionPv + o.x * o.volume, sessionVolume |-> v.sessionVolume + o.volume,
   last |-> o.x]

\* The last price where nothing traded.
RollingVwap(v) == IF v.volume <= 0 THEN [top |-> v.last, bottom |-> 1]
                  ELSE [top |-> v.pv, bottom |-> v.volume]

\* on_session_open().
SessionVwapOpened(v) == [v EXCEPT !.sessionPv = 0, !.sessionVolume = 0]

-----------------------------------------------------------------------------
(* MinuteOfDayVolumeProfile: one RollingMean per minute of the session.    *)

EmptySlot == [ring |-> EmptyRing, mean |-> [sum |-> 0, since |-> 0]]

SlotOf(minute) == minute

\* update(): a minute outside the session is ignored.
ProfileUpdated(p, minute, volume) ==
  IF minute \notin Minutes THEN p
  ELSE LET slot == p[SlotOf(minute)]
           after == Pushed(slot.ring, volume)
       IN  [p EXCEPT ![SlotOf(minute)] =
              [ring |-> after, mean |-> MeanUpdated(slot.mean, slot.ring, after, volume)]]

\* baseline(), as a fraction; zero without history.
Baseline(minute) ==
  IF minute \notin Minutes \/ profile[minute].ring.size = 0 THEN [top |-> 0, bottom |-> 1]
  ELSE [top |-> profile[minute].mean.sum, bottom |-> profile[minute].ring.size]

-----------------------------------------------------------------------------
EmptyRings == [x |-> EmptyRing, y |-> EmptyRing, pv |-> EmptyRing, volume |-> EmptyRing]

EstimatorsInit ==
  /\ rings = EmptyRings
  /\ means = [sum |-> 0, since |-> 0] /\ moments = NoMoments /\ extrema = NoExtrema
  /\ vwap = NoVwap /\ profile = [m \in Minutes |-> EmptySlot]
  /\ observed = <<>> /\ opened = 1 /\ volumes = [m \in Minutes |-> <<>>]

\* A bar reaches every estimator of its instrument.
Estimate(o, minute) ==
  /\ Len(observed) < MaxObservations
  /\ LET after == [x |-> Pushed(rings.x, o.x), y |-> Pushed(rings.y, o.y),
                   pv |-> Pushed(rings.pv, o.x * o.volume),
                   volume |-> Pushed(rings.volume, o.volume)]
     IN  /\ rings' = after
         /\ means' = MeanUpdated(means, rings.x, after.x, o.x)
         /\ moments' = CovarianceUpdated(moments, rings.x, rings.y, after.x, after.y, o.x, o.y)
  /\ extrema' = ExtremaUpdated(extrema, o.x)
  /\ vwap' = VwapUpdated(vwap, rings.pv, rings.volume, o)
  /\ profile' = ProfileUpdated(profile, minute, o.volume)
  /\ observed' = Append(observed, o)
  /\ volumes' = IF minute \in Minutes THEN [volumes EXCEPT ![minute] = Append(@, o.volume)]
                ELSE volumes
  /\ UNCHANGED opened

SessionOpens ==
  /\ vwap' = SessionVwapOpened(vwap) /\ opened' = Len(observed) + 1
  /\ UNCHANGED <<rings, means, moments, extrema, profile, observed, volumes>>

\* reset() of each of them.
ResetEstimators ==
  /\ rings' = EmptyRings
  /\ means' = [sum |-> 0, since |-> 0] /\ moments' = NoMoments /\ extrema' = NoExtrema
  /\ vwap' = NoVwap /\ profile' = [m \in Minutes |-> EmptySlot]
  /\ observed' = <<>> /\ opened' = 1 /\ volumes' = [m \in Minutes |-> <<>>]

EstimatorsNext ==
  \/ \E o \in Observations, minute \in Minutes \union {-1} : Estimate(o, minute)
  \/ SessionOpens
  \/ ResetEstimators

EstimatorsSpec == EstimatorsInit /\ [][EstimatorsNext]_estimatorVars

-----------------------------------------------------------------------------
\* The last Window elements of a sequence.
LastOf(s) == SubSeq(s, IF Len(s) > Window THEN Len(s) - Window + 1 ELSE 1, Len(s))

SumBy(s, Of(_)) == FoldLeft(LAMBDA sum, e : sum + Of(e), 0, s)

\* What the incremental estimators hold is what recomputing them from the last
\* Window observations gives: the mean's sum and the lags, covariance, both
\* variances and beta, the extrema and the two volume-weighted prices, and per
\* minute its own volumes (features/rolling.hpp, bivariate.hpp, intraday.hpp).
EstimatesMatchWindow ==
  LET last == LastOf(observed)
      n == Len(last)
      session == SubSeq(observed, opened, Len(observed))
      X(o) == o.x
      Y(o) == o.y
      XX(o) == o.x * o.x
      XY(o) == o.x * o.y
      PV(o) == o.x * o.volume
      Vol(o) == o.volume
      Own(v) == v
      values == {last[i].x : i \in 1..n}
  IN  /\ rings.x.size = n
      /\ \A k \in 0..n-1 : AtLag(rings.x, k) = last[n - k].x
      /\ means.sum = SumBy(last, X)
      /\ n >= 2 => /\ Covariance(moments, n)
                        = Window * Window * (n * SumBy(last, XY) - SumBy(last, X) * SumBy(last, Y))
                   /\ Variance(moments.sxx, moments.sx, n)
                        = Window * Window * (n * SumBy(last, XX) - SumBy(last, X) * SumBy(last, X))
                   /\ Cardinality(values) = 1 => Beta(moments, n).top = 0
      /\ n > 0 => /\ \A v \in values : extrema.low[1].value <= v /\ v <= extrema.high[1].value
                  /\ {extrema.low[1].value, extrema.high[1].value} \subseteq values
                  /\ RollingVwap(vwap) = IF SumBy(last, Vol) = 0 THEN [top |-> last[n].x, bottom |-> 1]
                                         ELSE [top |-> SumBy(last, PV), bottom |-> SumBy(last, Vol)]
      /\ vwap.sessionPv = SumBy(session, PV) /\ vwap.sessionVolume = SumBy(session, Vol)
      /\ \A m \in Minutes : volumes[m] # <<>> =>
           Baseline(m) = [top |-> SumBy(LastOf(volumes[m]), Own), bottom |-> Len(LastOf(volumes[m]))]
=============================================================================
