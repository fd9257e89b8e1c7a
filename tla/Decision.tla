------------------------------- MODULE Decision -------------------------------
(***************************************************************************)
(* What one instrument is worth on one day: compute_features               *)
(* (quant/features.py), the scanner's gates and ranking (quant/scanner.py), *)
(* the risk engine (risk_engine.py), position sizing (sizing.py) and the   *)
(* recommendation record (recommendation.py).  All of it computes from its *)
(* arguments and keeps nothing.                                            *)
(*                                                                         *)
(* Abstracted: floating-point figures are integers, in percent unless said *)
(* otherwise and rounded down; the wording of reasons and details is left  *)
(* out, and of the entry band only its middle is kept.                     *)
(***************************************************************************)
EXTENDS Integers, Sequences, FiniteSets, SequencesExt

CONSTANTS
  Lookback, VolumeWindow, LiquidityWindow, VolWindow, \* compute_features, scan
  MinTurnover, MinVolumeRatio, MinMomentum,           \* ScanConfig
  RiskLimits,  \* RiskConfig: [turnover, spread, vol, manipulation, uncertainty, band]
  Sizing,      \* SizingConfig: [capital, risk (per mille), allocation, reserve,
               \*                participation, sector]
  NoFigure     \* a figure that is missing

-----------------------------------------------------------------------------
(* features.py: bars are a sequence of [day, close, volume, turnover].     *)

Recent(bars, n) == SubSeq(bars, Len(bars) - n + 1, Len(bars))
Sum(s) ==
  LET total[n \in 0..Len(s)] == IF n = 0 THEN 0 ELSE total[n - 1] + s[n]
  IN total[Len(s)]
Mean(s) == Sum(s) \div Len(s)
Turnover(b) == IF b.turnover = NoFigure THEN b.close * b.volume ELSE b.turnover

TotalReturn(bars) ==
  IF Len(bars) < Lookback + 1 \/ bars[Len(bars) - Lookback].close = 0 THEN NoFigure
  ELSE (100 * Last(bars).close) \div bars[Len(bars) - Lookback].close - 100

\* Today's volume against the mean of the window before it.
VolumeRatio(bars) ==
  LET prior == Sum([k \in 1..VolumeWindow |-> Recent(bars, VolumeWindow + 1)[k].volume])
  IN IF Len(bars) < VolumeWindow + 1 \/ prior = 0 THEN NoFigure
     ELSE (100 * VolumeWindow * Last(bars).volume) \div prior

AvgTurnover(bars) ==
  IF Len(bars) < LiquidityWindow THEN NoFigure
  ELSE Mean([k \in 1..LiquidityWindow |-> Turnover(Recent(bars, LiquidityWindow)[k])])

\* The daily returns of a slice; a day after a zero close has none.
DailyReturns(bars) ==
  LET days == SetToSortSeq({k \in 2..Len(bars) : bars[k - 1].close # 0}, <)
  IN [k \in 1..Len(days) |-> (100 * bars[days[k]].close) \div bars[days[k] - 1].close - 100]

\* The square of the realized volatility.
RealizedVariance(bars) ==
  LET rs == DailyReturns(Recent(bars, VolWindow + 1))
  IN IF Len(bars) < VolWindow + 1 \/ Len(rs) < 2 THEN NoFigure
     ELSE Mean([k \in 1..Len(rs) |-> rs[k] * rs[k]]) - Mean(rs) * Mean(rs)

\* compute_features; the caller has checked that there is a bar.
Features(bars) ==
  [momentum |-> TotalReturn(bars), volumeRatio |-> VolumeRatio(bars),
   turnover |-> AvgTurnover(bars), variance |-> RealizedVariance(bars),
   close |-> Last(bars).close]

-----------------------------------------------------------------------------
(* scanner.py: F is a function from the instruments with bars to Features, *)
(* Order their place in the master.                                        *)

Passes(f) ==
  /\ NoFigure \notin {f.momentum, f.volumeRatio, f.turnover}
  /\ f.turnover >= MinTurnover /\ f.volumeRatio >= MinVolumeRatio /\ f.momentum > MinMomentum

Passing(F) == {i \in DOMAIN F : Passes(F[i])}

\* The share of the passing set it outruns, and the composite score.
Percentile(F, i) ==
  LET below == {j \in Passing(F) : F[j].momentum < F[i].momentum}
      n == Cardinality(Passing(F))
  IN IF n > 1 THEN (100 * Cardinality(below)) \div (n - 1) ELSE 100

Score(F, i) ==
  LET abnormal == (100 * F[i].volumeRatio) \div (2 * MinVolumeRatio)
  IN 70 * Percentile(F, i) + 30 * (IF abnormal < 100 THEN abnormal ELSE 100)

Ahead(F, Order, i, j) ==
  LET a == <<Score(F, i), F[i].momentum, Order[j]>>
      b == <<Score(F, j), F[j].momentum, Order[i]>>
  IN \E k \in 1..3 : a[k] > b[k] /\ \A l \in 1..k - 1 : a[l] = b[l]

\* The k best; top_k = 0 means no limit, like None.
Scan(F, Order, k) ==
  {i \in Passing(F) : k = 0 \/ Cardinality({j \in Passing(F) : Ahead(F, Order, j, i)}) < k}

-----------------------------------------------------------------------------
(* risk_engine.py: r is RiskInputs.                                        *)

Hard(r) ==
  [LIQUIDITY |-> r.turnover < RiskLimits.turnover,
   SPREAD |-> r.spread > RiskLimits.spread,
   DATA_QUALITY |-> ~r.qualityOk,
   MANIPULATION |-> r.manipulation > RiskLimits.manipulation,
   STALE |-> r.age > r.expiry,
   CIRCUIT |-> r.locked]

Soft(r) ==
  [VOLATILITY |-> r.variance > RiskLimits.vol * RiskLimits.vol,
   EVENT_UNCERTAINTY |-> r.uncertainty > RiskLimits.uncertainty,
   GAP |-> r.gap,
   CIRCUIT_BAND |-> r.band # NoFigure /\ r.band <= RiskLimits.band]

Raised(flags) == {c \in DOMAIN flags : flags[c]}
RiskFlags(r) == Raised(Hard(r)) \cup Raised(Soft(r))
AssessRisk(r) ==
  IF Raised(Hard(r)) # {} THEN "VETO" ELSE IF Raised(Soft(r)) # {} THEN "REVIEW" ELSE "PASS"

-----------------------------------------------------------------------------
(* sizing.py                                                               *)

Throttle(drawdown) == IF drawdown <= -10 THEN 25 ELSE IF drawdown <= -5 THEN 50 ELSE 100

\* The limits a quantity keeps to; the least of them binds.
Caps(entry, stop, turnover, drawdown, sector) ==
  LET left == (Sizing.sector * Sizing.capital) \div 100 - sector
  IN [risk |-> (Sizing.capital * Sizing.risk * Throttle(drawdown)) \div (100000 * (entry - stop)),
      allocation |-> (Sizing.capital * Sizing.allocation) \div (100 * entry),
      cash |-> (Sizing.capital * (100 - Sizing.reserve)) \div (100 * entry),
      sector |-> (IF left > 0 THEN left ELSE 0) \div entry,
      liquidity |-> (Sizing.participation * turnover) \div (100 * entry)]

SizePosition(entry, stop, turnover, drawdown, sector) ==
  IF entry <= stop \/ entry <= 0 THEN 0
  ELSE LET caps == Caps(entry, stop, turnover, drawdown, sector)
           least == CHOOSE q \in {caps[c] : c \in DOMAIN caps} : \A c \in DOMAIN caps : q <= caps[c]
       IN IF least > 0 THEN least ELSE 0

-----------------------------------------------------------------------------
(* recommendation.py                                                       *)

Recommendation(action, name, asOf, entry, stop, goal, horizon, quantity, prob, verdict, evidence, model) ==
  [action |-> action, name |-> name, asOf |-> asOf, entry |-> entry,
   target |-> (entry * (100 + goal)) \div 100,
   invalidation |-> (entry * (100 - stop)) \div 100,
   horizon |-> horizon, quantity |-> quantity, allocation |-> quantity * entry, prob |-> prob,
   net |-> (prob * goal - (100 - prob) * stop) \div 100,
   verdict |-> verdict, evidence |-> evidence, model |-> model, expires |-> asOf + 2 * horizon]

\* missing_fields; the action and its fields are what build_recommendation was given.
Missing(rec) ==
  IF rec.action \notin {"BUY", "ROTATE"} THEN {}
  ELSE {f \in {"entry", "target", "invalidation", "horizon", "prob", "verdict", "model"} :
          rec[f] = NoFigure}
       \cup {f \in {"quantity", "allocation"} : rec[f] <= 0}
       \cup (IF rec.evidence = {} THEN {"evidence"} ELSE {})
===============================================================================
