------------------------- MODULE TechnicalIndicators -------------------------
(***************************************************************************)
(* The technical indicators that a decision is shown, of the candles of    *)
(* one symbol. A value is a fraction <<numerator, denominator>>, <<>> is   *)
(* None; where the code takes a mean of fractions or a square root, the    *)
(* value is what it is taken of. Percentages are left as fractions.        *)
(***************************************************************************)
EXTENDS Integers, SequencesExt

CONSTANTS
  Bars,      \* candles: [high, low, close, volume, readable]
  MaxChart,  \* candles that the provider returns (200)
  Period,    \* of every windowed indicator (14; 20, 26, 52 ...)
  Macd       \* <<fast, slow, signal>> (<<12, 26, 9>>)

ASSUME IndicatorsAssumption ==
  /\ MaxChart \in Nat /\ Period \in Nat \ {0}
  /\ \A i \in 1..3 : Macd[i] \in Nat \ {0}
  /\ Macd[1] <= Macd[2]
  /\ Bars \subseteq [high : Int, low : Int, close : Int, volume : Nat, readable : BOOLEAN]
  /\ IsFiniteSet(Bars)
  /\ \A b \in Bars : b.low <= b.close /\ b.close <= b.high

VARIABLES
  chart,      \* the candles, oldest first
  indicators  \* calculated from them

indicatorVars == <<chart, indicators>>

None == <<>>
Newest(s, n) == SubSeq(s, Len(s) - n + 1, Len(s))
SumOf(s) == FoldLeft(LAMBDA a, b : a + b, 0, s)
Magnitude(x) == IF x < 0 THEN -x ELSE x

\* A number of each candle.
Each(c, F(_)) == [i \in DOMAIN c |-> F(c[i])]
close(c)   == Each(c, LAMBDA b : b.close)
high(c)    == Each(c, LAMBDA b : b.high)
low(c)     == Each(c, LAMBDA b : b.low)
typical(c) == Each(c, LAMBDA b : b.high + b.low + b.close)   \* times 3

Highest(c) == Max(Range(high(Newest(c, Period))))
Lowest(c)  == Min(Range(low(Newest(c, Period))))

-----------------------------------------------------------------------------
(* Averages *)

_sma(v, n) == IF Len(v) < n THEN None ELSE <<SumOf(Newest(v, n)), n>>

Whole(v) == [i \in DOMAIN v |-> <<v[i], 1>>]

Add(a, b) == <<a[1] * b[2] + b[1] * a[2], a[2] * b[2]>>

\* alpha = 2 / (n + 1) of a further value.
Blend(e, x, n) == <<2 * x[1] * e[2] + (n - 1) * e[1] * x[2], (n + 1) * e[2] * x[2]>>

\* The mean of the first n, and what each further value makes of it.
_ema_series(v, n) ==
  IF Len(v) < n THEN <<>>
  ELSE LET first == FoldLeft(Add, <<0, 1>>, SubSeq(v, 1, n))
       IN  FoldLeft(LAMBDA s, x : Append(s, Blend(s[Len(s)], x, n)),
                    <<<<first[1], n * first[2]>>>>, SubSeq(v, n + 1, Len(v)))

_ema(v, n) == LET e == _ema_series(v, n) IN IF e = <<>> THEN None ELSE e[Len(e)]

\* The lines are aligned at their newest end.
MacdLines(v) ==
  LET slow == _ema_series(Whole(v), Macd[2])
      fast == Newest(_ema_series(Whole(v), Macd[1]), Len(slow))
  IN  [i \in DOMAIN slow |-> <<fast[i][1] * slow[i][2] - slow[i][1] * fast[i][2],
                               fast[i][2] * slow[i][2]>>]

-----------------------------------------------------------------------------
(* Momentum and direction *)

Changes(v) == [i \in 1..(Len(v) - 1) |-> v[i + 1] - v[i]]

\* 100 - 100 / (1 + up / down) = 100 up / (up + down), which is 100 without down; 50 when flat.
Strength(up, down) == IF up + down = 0 THEN <<1, 2>> ELSE <<up, up + down>>

Gain(s) == SumOf([i \in DOMAIN s |-> IF s[i] > 0 THEN s[i] ELSE 0])
Loss(s) == Gain([i \in DOMAIN s |-> -s[i]])

_rsi(v) ==
  IF Len(v) < Period + 1 THEN None
  ELSE LET window == Newest(Changes(v), Period) IN Strength(Gain(window), Loss(window))

\* The first candle has no close before it.
_true_ranges(c) ==
  [i \in DOMAIN c |->
     IF i = 1 THEN c[1].high - c[1].low
     ELSE Max({c[i].high - c[i].low, Magnitude(c[i].high - c[i - 1].close),
               Magnitude(c[i].low - c[i - 1].close)})]

_atr(c) == _sma(_true_ranges(c), Period)

Up(c, i)   == c[i].high - c[i - 1].high
Down(c, i) == c[i - 1].low - c[i].low

plus_dm(c)  == [i \in DOMAIN c |-> IF i > 1 /\ Up(c, i) > Down(c, i) /\ Up(c, i) > 0
                                   THEN Up(c, i) ELSE 0]
minus_dm(c) == [i \in DOMAIN c |-> IF i > 1 /\ Down(c, i) > Up(c, i) /\ Down(c, i) > 0
                                   THEN Down(c, i) ELSE 0]

In(v, end) == SumOf(SubSeq(v, end - Period + 1, end))

\* The windows, by their last candle; one in which nothing moved is passed over.
Windows(t) == {end \in Period..Len(t) : In(t, end) > 0}

_di(c, dm) ==
  LET t == _true_ranges(c)
      last == Max(Windows(t))
  IN  IF Len(c) < Period + 1 \/ Windows(t) = {} THEN None ELSE <<In(dm, last), In(t, last)>>

dx(c, end) ==
  LET p == In(plus_dm(c), end)
      q == In(minus_dm(c), end)
  IN  IF p + q = 0 THEN <<0, 1>> ELSE <<Magnitude(p - q), p + q>>

\* The window that has n later ones.
Before(w, n) == CHOOSE end \in w : Cardinality({later \in w : later > end}) = n

\* The terms of the mean.
_adx(c) ==
  LET w == Windows(_true_ranges(c))
  IN  IF Len(c) < Period + 1 \/ Cardinality(w) < Period THEN None
      ELSE [i \in 1..Period |-> dx(c, Before(w, Period - i))]

InRange(c, end) ==
  LET w  == SubSeq(c, 1, end)
  IN  IF Highest(w) = Lowest(w) THEN <<1, 2>>
      ELSE <<c[end].close - Lowest(w), Highest(w) - Lowest(w)>>

_stochastic_k(c) == IF Len(c) < Period THEN None ELSE InRange(c, Len(c))
\* The terms of the mean.
_stochastic_d(c) ==
  IF Len(c) < Period + 2 THEN None ELSE [i \in 1..3 |-> InRange(c, Len(c) - 3 + i)]

-----------------------------------------------------------------------------
(* Volume *)

_obv(c) ==
  <<SumOf([i \in DOMAIN c |->
       IF i = 1 \/ c[i].close = c[i - 1].close THEN 0
       ELSE IF c[i].close > c[i - 1].close THEN c[i].volume ELSE -c[i].volume]), 1>>

\* A flow is that of a candle whose typical price moved the way of sign.
Flow(w, sign) ==
  SumOf([i \in 1..Period |-> IF sign * (typical(w)[i + 1] - typical(w)[i]) > 0
                             THEN typical(w)[i + 1] * w[i + 1].volume ELSE 0])

_mfi(c) ==
  LET w == Newest(c, Period + 1)
  IN  IF Len(c) < Period + 1 THEN None ELSE Strength(Flow(w, 1), Flow(w, -1))

Volume(w)   == SumOf([i \in DOMAIN w |-> w[i].volume])
Turnover(w) == SumOf([i \in DOMAIN w |-> typical(w)[i] * w[i].volume])

_vwap(c) ==
  LET w == Newest(c, Period)
  IN  IF Len(c) < Period \/ Volume(w) <= 0 THEN None ELSE <<Turnover(w), 3 * Volume(w)>>

\* From the mean, times Period.
Off(v)     == [i \in DOMAIN v |-> Period * v[i] - SumOf(v)]
Sizes(v)   == [i \in DOMAIN v |-> Magnitude(v[i])]
Squares(v) == [i \in DOMAIN v |-> v[i] * v[i]]

\* In units of 1 / 0.015.
_cci(c) ==
  LET off == Off(Newest(typical(c), Period))
      dev == SumOf(Sizes(off))
  IN  IF Len(c) < Period THEN None
      ELSE IF dev = 0 THEN <<0, 1>> ELSE <<Period * off[Period], dev>>

-----------------------------------------------------------------------------
(* The newest price against its window: of the bands and the z-score, the  *)
(* distance from the mean and the variance.                                *)
Deviation(v) ==
  LET w == Newest(v, Period)
  IN  IF Len(v) < Period THEN None
      ELSE <<Off(w)[Period], Period * SumOf(Squares(w)) - SumOf(w) * SumOf(w)>>

\* Ichimoku's lines.
midpoint(c) == IF Len(c) < Period THEN None ELSE <<Highest(c) + Lowest(c), 2>>

Of(c) ==
  [sma |-> _sma(close(c), Period), ema |-> _ema(Whole(close(c)), Period), atr |-> _atr(c),
   macd |-> IF MacdLines(close(c)) = <<>> THEN None ELSE MacdLines(close(c))[Len(MacdLines(close(c)))],
   macd_signal |-> _ema(MacdLines(close(c)), Macd[3]),
   rsi |-> _rsi(close(c)), plus_di |-> _di(c, plus_dm(c)), minus_di |-> _di(c, minus_dm(c)),
   adx |-> _adx(c), stochastic_k |-> _stochastic_k(c), stochastic_d |-> _stochastic_d(c),
   obv |-> _obv(c), mfi |-> _mfi(c), vwap |-> _vwap(c), cci |-> _cci(c),
   deviation |-> Deviation(close(c)), tenkan |-> midpoint(c),
   donchian_high |-> IF Len(c) < Period THEN None ELSE <<Highest(c), 1>>,
   donchian_low  |-> IF Len(c) < Period THEN None ELSE <<Lowest(c), 1>>,
   momentum |-> IF Len(c) < Period + 1 THEN None
                ELSE <<c[Len(c)].close - c[Len(c) - Period].close, 1>>]

\* One candle that cannot be read empties the series, and with them the snapshot.
Unavailable == [n \in {} |-> None]
Calculated(c) == IF \A i \in DOMAIN c : c[i].readable THEN Of(c) ELSE Unavailable

-----------------------------------------------------------------------------

IndicatorsInit == chart = <<>> /\ indicators = Unavailable

\* The provider returns the newest candles, and the snapshot is of all of them.
calculate_technical_indicators ==
  \E b \in Bars :
    LET all == Append(chart, b)
    IN  /\ chart' = IF Len(all) > MaxChart THEN Newest(all, MaxChart) ELSE all
        /\ indicators' = Calculated(chart')

-----------------------------------------------------------------------------

Fraction(x) == x = None \/ x[2] > 0
Share(x) == x = None \/ (0 <= x[1] /\ x[1] <= x[2] /\ x[2] > 0)

\* The indicators' share of the type invariant: the oscillators stay within 0 and 100.
IndicatorsTypeOK ==
  /\ Len(chart) <= MaxChart
  /\ indicators # Unavailable =>
       /\ \A n \in {"sma", "ema", "atr", "macd", "macd_signal", "vwap", "cci"} : Fraction(indicators[n])
       /\ \A n \in {"rsi", "plus_di", "minus_di", "stochastic_k", "mfi"} : Share(indicators[n])
       /\ \A n \in {"adx", "stochastic_d"} : \A i \in DOMAIN indicators[n] : Share(indicators[n][i])

\* The chart upside down, at a height where the prices stay positive.
Height == Max({b.high : b \in Bars}) + Min({b.low : b \in Bars})
UpsideDown(c) ==
  [i \in DOMAIN c |-> [c[i] EXCEPT !.high = Height - c[i].low, !.low = Height - c[i].high,
                                   !.close = Height - c[i].close]]

Negated(x)   == IF x = None THEN None ELSE <<-x[1], x[2]>>
Reflected(x) == IF x = None THEN None ELSE <<Height * x[2] - x[1], x[2]>>
Remainder(x) == IF x = None THEN None ELSE <<x[2] - x[1], x[2]>>

\* Long and short evidence weigh the same: upside down, a rise is shown as strongly as the fall
\* was, the levels change places and the ranges stay.
IndicatorsMirror ==
  indicators # Unavailable =>
  LET down == Of(UpsideDown(chart))
      Same(n, m, F(_)) == down[n] = F(indicators[m])
      Id(x) == x
  IN  /\ \A n \in {"atr", "adx"} : Same(n, n, Id)
      /\ Same("plus_di", "minus_di", Id) /\ Same("minus_di", "plus_di", Id)
      /\ \A n \in {"sma", "ema", "vwap", "tenkan"} : Same(n, n, Reflected)
      /\ Same("donchian_high", "donchian_low", Reflected)
      /\ Same("donchian_low", "donchian_high", Reflected)
      /\ \A n \in {"macd", "macd_signal", "momentum", "cci", "obv"} : Same(n, n, Negated)
      /\ Same("deviation", "deviation", Negated)
      /\ \A n \in {"rsi", "stochastic_k"} : Same(n, n, Remainder)

\* An indicator of a window says the same whatever came before the window, so two snapshots whose
\* histories begin at different candles agree about the market they both end in.
WindowedForget ==
  indicators # Unavailable =>
  \A k \in (Period + 1)..Len(chart) :
    LET shorter == Of(Newest(chart, k))
    IN  \A n \in {"sma", "rsi", "atr", "stochastic_k", "mfi", "vwap", "cci", "deviation", "tenkan",
                  "donchian_high", "donchian_low", "momentum"} : shorter[n] = indicators[n]
=============================================================================
