--------------------------- MODULE StrategyEvidence ---------------------------
(***************************************************************************)
(* The deterministic evidence of one symbol: candles are sorted, the       *)
(* regime is classified against the volatilities of the earlier builds,    *)
(* and ten strategies each propose a side with a confidence, which the     *)
(* regime scales to a fit.                                                 *)
(*                                                                         *)
(* A market is what the features say of it. Ratios (returns, distances of  *)
(* the price, trend = (ema20 - ema50) / ema50, funding, basis) and         *)
(* confidences are in 1/10000; z-score and volume ratio in 1/100.          *)
(***************************************************************************)
EXTENDS Integers, SequencesExt

CONSTANTS
  Markets,     \* the markets considered
  Volatility,  \* the volatilities they may have
  Candles(_),  \* the answers of the exchange from which a market may be built
  MinHistory,  \* candles that a build needs (30)
  Calm,        \* volatilities that a regime needs before it ranks one (10)
  MaxBuilds    \* bound: builds of one engine

ASSUME EvidenceAssumption == {MinHistory, Calm, MaxBuilds} \subseteq Nat /\ MinHistory > 0

Features == [trend : Int, return_1 : Int, return_5 : Int, return_20 : Int, above_ema20 : Int,
             zscore : Int, above_high : Int, above_low : Int, volume_ratio : Nat, funding : Int,
             basis : Int, derivatives : BOOLEAN, volatility : Volatility]
Row == [ts : Int, close : Int]

\* The highest price of a window is not below its lowest.
ASSUME MarketsAssumption ==
  /\ Markets \subseteq Features /\ \A m \in Markets : m.above_high <= m.above_low
  /\ \A m \in Markets, v \in Volatility : Candles([m EXCEPT !.volatility = v]) \subseteq Seq(Row)

VARIABLES
  market,    \* of the newest candles
  given,     \* candles of the build, as the exchange has answered
  vol_hist,  \* RegimeEngine._vol_hist
  package    \* the last StrategyEvidencePackage

evidenceVars == <<market, given, vol_hist, package>>

Least(a, b) == IF a <= b THEN a ELSE b
Abs(x) == IF x < 0 THEN -x ELSE x

NoPackage == [regime |-> "none", candidates |-> <<>>, best |-> 0, bars |-> <<>>]

-----------------------------------------------------------------------------
(* The candles: the provider sorts what the exchange answers, newest first *)
(* or not, and the market data engine takes strictly ascending bars.       *)

\* Of two rows of the same minute the later one is kept.
by_open_time(rows) == {rows[i] : i \in {i \in DOMAIN rows :
                                         \A j \in i + 1..Len(rows) : rows[j].ts # rows[i].ts}}

\* The n-th of them has n - 1 earlier ones.
_live_candle_provider(rows) ==
  LET S == by_open_time(rows)
  IN  [n \in 1..Cardinality(S) |-> CHOOSE c \in S : Cardinality({d \in S : d.ts < c.ts}) = n - 1]

\* A candle without a price is skipped.
Usable(c) == c.close > 0

\* ingest: a bar that is not newer than the last raises, and the build skips the candle.
ingest(bars, c) == IF bars # <<>> /\ c.ts <= bars[Len(bars)].ts THEN bars ELSE Append(bars, c)

Ingested(rows) ==
  FoldLeft(LAMBDA bars, c : IF Usable(c) THEN ingest(bars, c) ELSE bars,
           <<>>, _live_candle_provider(rows))

\* returns(n) takes n + 1 closes, so it has n elements at most.
returns(n, bars) == Least(n, Len(bars) - 1)

\* realized_vol: of the last n of returns(1); fewer than two have no deviation.
realized_vol(n, m, bars) == IF Least(n, returns(1, bars)) < 2 THEN 0 ELSE m.volatility

-----------------------------------------------------------------------------
(* RegimeEngine.classify, in percent.                                      *)

percentile_for(hist, vol) ==
  (100 * Cardinality({i \in DOMAIN hist : hist[i] <= vol})) \div Len(hist)

classify(m, hist) ==
  LET pct == IF Len(hist) < Calm THEN 50 ELSE percentile_for(hist, hist[Len(hist)])
  IN  IF pct >= 95 THEN "EXTREME_RISK"
      ELSE IF pct >= 80 THEN "HIGH_VOL"
      ELSE IF m.trend > 100 THEN "BULL"
      ELSE IF m.trend < -100 THEN "BEAR" ELSE "RANGE"

-----------------------------------------------------------------------------
(* The strategies. AlphaSignal: the side of a long or of a short setup.    *)

AlphaSignal(long, short, confidence) ==
  IF long THEN [side |-> "LONG", confidence |-> confidence]
  ELSE IF short THEN [side |-> "SHORT", confidence |-> confidence]
  ELSE [side |-> "NO_TRADE", confidence |-> 0]

trend_following(m) == AlphaSignal(m.trend > 20, m.trend < -20, Least(9000, 5000 + 100 * Abs(m.trend)))

momentum(m) == AlphaSignal(m.return_5 > 40, m.return_5 < -40, Least(8500, 5000 + 40 * Abs(m.return_5)))

breakout(m) == AlphaSignal(m.above_high > 2, m.above_low < -2, 8000)

mean_reversion(m) == AlphaSignal(m.zscore < -150, m.zscore > 150, Least(8000, 4500 + 20 * Abs(m.zscore)))

\* Funding and basis are read only when both are there.
funding_basis(m) ==
  LET score == m.funding + m.basis
  IN  AlphaSignal(m.derivatives /\ score < -5, m.derivatives /\ score > 5,
             Least(7500, 4000 + 300 * Abs(score)))

\* The price against ema50, to first order.
above_ema50(m) == m.above_ema20 + m.trend

\* Variant: the z-score of a short setup is compared as that of a long one.
PullbackOneSided(m) ==
  AlphaSignal(/\ m.trend > 40 /\ m.return_20 > 0
         /\ above_ema50(m) >= 0 /\ m.above_ema20 <= 60 /\ m.zscore <= 75,
         /\ m.trend < -40 /\ m.return_20 < 0
         /\ above_ema50(m) <= 0 /\ m.above_ema20 >= -60 /\ m.zscore <= 75,
         Least(8800, 5500 + 35 * Abs(m.trend)))

trend_pullback(m) ==
  AlphaSignal(/\ m.trend > 40 /\ m.return_20 > 0
         /\ above_ema50(m) >= 0 /\ m.above_ema20 <= 60 /\ m.zscore <= 75,
         /\ m.trend < -40 /\ m.return_20 < 0
         /\ above_ema50(m) <= 0 /\ m.above_ema20 >= -60 /\ m.zscore >= -75,
         Least(8800, 5500 + 35 * Abs(m.trend)))

near_high(m, tolerance) == Abs(m.above_high) <= tolerance
near_low(m, tolerance)  == Abs(m.above_low) <= tolerance

breakout_retest(m) ==
  AlphaSignal(/\ near_high(m, 60) /\ m.return_20 > 0 /\ m.return_1 > 0
         /\ m.volume_ratio >= 80 /\ m.zscore < 250,
         /\ near_low(m, 60) /\ m.return_20 < 0 /\ m.return_1 < 0
         /\ m.volume_ratio >= 80 /\ m.zscore > -250,
         Least(8600, 5400 + 8 * Least(m.volume_ratio, 200)))

liquidity_sweep(m) ==
  AlphaSignal(near_low(m, 40) /\ m.zscore <= -150 /\ m.return_1 > 0 /\ m.volume_ratio >= 120,
         near_high(m, 40) /\ m.zscore >= 150 /\ m.return_1 < 0 /\ m.volume_ratio >= 120,
         Least(8000, 5000 + 8 * Least(Abs(m.zscore), 300)))

support_resistance_reversal(m) ==
  AlphaSignal(near_low(m, 60) /\ m.zscore <= -75 /\ m.return_1 > 0,
         near_high(m, 60) /\ m.zscore >= 75 /\ m.return_1 < 0,
         Least(8200, 5200 + 8 * Least(Abs(m.zscore), 250)))

market_structure(m) ==
  AlphaSignal(/\ m.trend > 30 /\ m.return_5 > 0 /\ m.return_20 > 0
         /\ m.above_ema20 >= 0 /\ m.zscore < 250,
         /\ m.trend < -30 /\ m.return_5 < 0 /\ m.return_20 < 0
         /\ m.above_ema20 <= 0 /\ m.zscore > -250,
         Least(9000, 5500 + 35 * Abs(m.trend)))

\* StrategyEvidenceBuilder.strategies, in its order.
strategies(m) ==
  <<trend_following(m), momentum(m), breakout(m), mean_reversion(m), funding_basis(m),
    trend_pullback(m), breakout_retest(m), liquidity_sweep(m),
    support_resistance_reversal(m), market_structure(m)>>

-----------------------------------------------------------------------------
(* Fit: confidence scaled by the regime, in percent, rounded to 1/10000.   *)

REGIME_FIT_MULTIPLIERS ==
  [BULL         |-> <<125, 110,  90,  70,  90, 125, 105,  85,  75, 120>>,
   BEAR         |-> <<120, 100,  90,  80, 100, 125, 105,  90,  80, 120>>,
   RANGE        |-> << 60,  80,  70, 140, 100,  65,  75, 125, 135,  70>>,
   HIGH_VOL     |-> << 80,  90, 130, 100, 100,  75, 115, 125, 105,  85>>,
   EXTREME_RISK |-> << 70,  80, 110,  90, 110,  65,  85,  90,  80,  65>>]

funding_dislocation(m) == m.derivatives /\ Abs(m.funding + m.basis) > 5

fit(m, i, confidence, regime) ==
  LET mult   == REGIME_FIT_MULTIPLIERS[regime][i]
      scaled == IF i = 5 /\ funding_dislocation(m) THEN (mult * 3) \div 2 ELSE mult
  IN  Least(10000, (confidence * scaled + 50) \div 100)

candidates(m, regime) ==
  LET s == strategies(m)
  IN  [i \in DOMAIN s |-> [side |-> s[i].side, confidence |-> s[i].confidence,
                           fit |-> fit(m, i, s[i].confidence, regime)]]

\* max() keeps the first of equals.
Best(cs) == CHOOSE i \in DOMAIN cs :
              /\ \A j \in DOMAIN cs : cs[j].fit <= cs[i].fit
              /\ \A j \in 1..(i - 1) : cs[j].fit < cs[i].fit

-----------------------------------------------------------------------------

EvidenceInit ==
  /\ market \in Markets /\ given = <<>> /\ vol_hist = <<>> /\ package = NoPackage

\* Too few bars: an empty package, and the regime engine learns nothing.
BuildsNothing ==
  /\ \E c \in Candles(market) :
       /\ Len(Ingested(c)) < MinHistory
       /\ given' = c /\ package' = [NoPackage EXCEPT !.regime = "UNKNOWN", !.bars = Ingested(c)]
  /\ UNCHANGED <<market, vol_hist>>

\* A fresh market data engine, the regime engine of the earlier builds.
build ==
  /\ Len(vol_hist) < MaxBuilds
  /\ \E c \in Candles(market) :
       /\ Len(Ingested(c)) >= MinHistory
       /\ given' = c
       /\ vol_hist' = Append(vol_hist, realized_vol(20, market, Ingested(c)))
       /\ LET regime == classify(market, vol_hist')
              cs     == candidates(market, regime)
          IN  package' = [regime |-> regime, candidates |-> cs, best |-> Best(cs), bars |-> Ingested(c)]
  /\ UNCHANGED market

\* Between two builds the candles begin to swing more, or less.
VolatilityMoves ==
  /\ \E v \in Volatility \ {market.volatility} : market' = [market EXCEPT !.volatility = v]
  /\ UNCHANGED <<given, vol_hist, package>>

EvidenceNext == BuildsNothing \/ build \/ VolatilityMoves

-----------------------------------------------------------------------------

Regimes == DOMAIN REGIME_FIT_MULTIPLIERS

\* The evidence's share of the type invariant.
EvidenceTypeOK ==
  /\ market.volatility \in Volatility /\ given \in Candles(market) \cup {<<>>}
  /\ Len(vol_hist) <= MaxBuilds
  /\ package.regime \in Regimes \cup {"none", "UNKNOWN"}
  /\ \A i \in DOMAIN package.candidates :
       /\ package.candidates[i].side \in {"LONG", "SHORT", "NO_TRADE"}
       /\ package.candidates[i].fit \in 0..10000

\* Every minute that the exchange has a price for is one bar, in ascending order, however its
\* answer is ordered and though the engine drops each bar that is not newer than the last.
EveryCandleCounts ==
  package.regime # "none" =>
    /\ Range(package.bars) = {c \in by_open_time(given) : Usable(c)}
    /\ \A i, j \in DOMAIN package.bars : i < j => package.bars[i].ts < package.bars[j].ts

\* A market turned upside down: the ratios change their sign, and the boundaries their place.
Mirror(m) ==
  [m EXCEPT !.trend = -m.trend, !.return_1 = -m.return_1, !.return_5 = -m.return_5,
            !.return_20 = -m.return_20, !.above_ema20 = -m.above_ema20, !.zscore = -m.zscore,
            !.above_high = -m.above_low, !.above_low = -m.above_high,
            !.funding = -m.funding, !.basis = -m.basis]

Opposite == [LONG |-> "SHORT", SHORT |-> "LONG", NO_TRADE |-> "NO_TRADE"]

\* Long and short are symmetric: upside down, every strategy takes the other side with the same
\* confidence, and in the same regime with the same fit.
MirrorImage ==
  package.candidates # <<>> =>
  LET mirrored == candidates(Mirror(market), package.regime)
  IN  \A i \in DOMAIN package.candidates :
        mirrored[i] = [package.candidates[i] EXCEPT !.side = Opposite[@]]

\* The strategies that follow the trend never propose opposite sides.
TrendFamilyAgrees ==
  package.candidates # <<>> =>
    Cardinality({package.candidates[i].side : i \in {1, 6, 10}} \ {"NO_TRADE"}) <= 1

\* The regime scales a proposal and never silences it: the candidate that supplies the dominant
\* factors proposes a side whenever any of the ten does.
DominantCandidateTrades ==
  (\E i \in DOMAIN package.candidates : package.candidates[i].side # "NO_TRADE") =>
    package.candidates[package.best].side # "NO_TRADE"

\* What the regime's name says: the last volatility stands out among those of the builds so far.
ExtremeStandsOut ==
  package.regime = "EXTREME_RISK" =>
    \E i \in DOMAIN vol_hist : vol_hist[i] < vol_hist[Len(vol_hist)]
=============================================================================
