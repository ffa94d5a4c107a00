-------------------------- MODULE EnhancedFeatures --------------------------
(***************************************************************************)
(* pretouch_refinement/enhanced_features.py: six groups of features of an  *)
(* event, from the bars of its symbol, and the audit of what each one      *)
(* reads.  A feature is None where the code has a NaN.  Ratios are in      *)
(* hundredths; the realised volatility is the variance of the closes.      *)
(***************************************************************************)
EXTENDS DelayStudy

CONSTANTS VolumeBars,               \* the bars a volume is compared with
          HalfHour, MinVolatility,  \* the last half hour, and how many bars it needs
          Day,                      \* how far back a level is looked for
          Pattern, Consistency,     \* the bars of the two patterns
          Minute, MinSeconds,       \* a minute, and the bars the regime needs
          Period,                   \* of the directional index
          HourOf                    \* the hour of a time

Groups ==
  << <<"time_of_day", <<"hour_utc", "session_overlap">> >>,
     <<"volume", <<"volume_ratio", "volume_percentile">> >>,
     <<"volatility", <<"realized_vol", "vol_cluster">> >>,
     <<"level", <<"prior_touches", "level_type">> >>,
     <<"prev_bars", <<"range_derivative", "body_wick_ratio", "direction_consistency">> >>,
     <<"regime_transition", <<"adx", "regime_state">> >> >>

AllEnhanced == FlattenSeq([g \in 1..Len(Groups) |-> Groups[g][2]])
GroupOf(feature) == Groups[CHOOSE g \in 1..Len(Groups) : feature \in Range(Groups[g][2])][1]

Before_at(bars, time) == SelectSeq(bars, LAMBDA b : b.t <= time)
Before(bars, time) == SelectSeq(bars, LAMBDA b : b.t < time)

LastOf(bars, n) == SubSeq(bars, Max({1, Len(bars) - n + 1}), Len(bars))
BarsAt(cache, symbol, month) == IF <<symbol, month>> \in DOMAIN cache THEN cache[<<symbol, month>>] ELSE << >>
MonthOf(time) == time \div 100
Some(v) == <<v>>

---------------------------------------------------------------------------
(* The bars of the day before every event: its months, and those between.  *)
(* A month without a file is left out; any error leaves an empty cache.    *)

load_monthly_bars_from_cache_dir(files, key) == IF key \in DOMAIN files THEN Some(files[key]) ELSE None

load_extended_bars_cache_impl(events, files) ==
  LET keys == UNION {{e.symbol} \X (MonthOf(e.touch - Day)..MonthOf(e.touch)) : e \in Range(events)}
      found == {k \in keys : load_monthly_bars_from_cache_dir(files, k) # None}
  IN [k \in found |-> load_monthly_bars_from_cache_dir(files, k)[1]]

load_extended_bars_cache(events, files, broken) ==
  IF broken THEN << >> ELSE load_extended_bars_cache_impl(events, files)

---------------------------------------------------------------------------
SESSION_OVERLAP_MAP ==
  [h \in 0..23 |-> CASE h \in 6..9 -> "asia_europe" [] h \in 13..16 -> "europe_us"
                     [] h \in {0, 21, 22, 23} -> "us_asia" [] OTHER -> "none"]

compute_time_of_day_features(events) ==
  [i \in 1..Len(events) |->
     [hour_utc |-> Some(HourOf[events[i].touch]),
      session_overlap |-> Some(SESSION_OVERLAP_MAP[HourOf[events[i].touch]])]]

\* The volume of the bar at the touch, or the last before it, over the mean
\* of the known ones among the bars before that.
RatioOf(signal, known) ==
  LET total == SumOf(known, LAMBDA b : b.v[1])
  IN IF signal.v = None \/ known = << >> \/ total <= 0 THEN None
     ELSE Some((100 * signal.v[1] * Len(known)) \div total)

VolumeRatio(bars, e) ==
  LET upto == SelectSeq(bars, LAMBDA b : b.t <= e.touch)
  IN IF upto = << >> THEN None
     ELSE RatioOf(Last(upto), SelectSeq(LastOf(Front(upto), VolumeBars), LAMBDA b : b.v # None))

\* The average rank among all events with a ratio, in hundredths.
RankOf(ratios, r) ==
  LET below == Len(SelectSeq(ratios, LAMBDA x : x # None /\ x[1] < r))
      same == Len(SelectSeq(ratios, LAMBDA x : x = Some(r)))
      all == Len(SelectSeq(ratios, LAMBDA x : x # None))
  IN (50 * (2 * below + same + 1)) \div all

Ranked(ratios) ==
  [i \in 1..Len(ratios) |->
     [volume_ratio |-> ratios[i],
      volume_percentile |-> IF ratios[i] = None THEN None ELSE Some(RankOf(ratios, ratios[i][1]))]]

compute_volume_features(events, cache) ==
  Ranked([i \in 1..Len(events) |-> VolumeRatio(Bars(cache, events[i]), events[i])])

Variance(seq) ==
  LET n == Len(seq)
  IN (n * SumOf(seq, LAMBDA b : b.c * b.c) - SumOf(seq, LAMBDA b : b.c) * SumOf(seq, LAMBDA b : b.c))
       \div (n * (n - 1))

Cluster(pct) == IF pct <= 33 THEN 0 ELSE IF pct <= 67 THEN 1 ELSE 2

RealizedVol(window) == IF Len(window) >= MinVolatility THEN Some(Variance(window)) ELSE None

compute_volatility_features(events, cache) ==
  [i \in 1..Len(events) |->
     LET e == events[i]
     IN [realized_vol |-> RealizedVol(From(Before(Bars(cache, e), e.touch), e.touch - HalfHour)),
         vol_cluster |-> IF e.pct = None THEN None ELSE Some(Cluster(e.pct[1]))]]

\* Months are joined in order; of two bars of a time the first is kept.
get_bars_for_period(symbol, start, end, cache) ==
  LET months == MonthOf(start)..MonthOf(end)
      bars == FlattenSeq([k \in 1..Cardinality(months) |-> BarsAt(cache, symbol, MonthOf(start) + k - 1)])
      Once(acc, b) == IF \E k \in 1..Len(acc) : acc[k].t = b.t THEN acc ELSE Append(acc, b)
      joined == SortSeq(FoldLeft(Once, << >>, bars), LAMBDA a, b : a.t < b.t)
  IN From(Before(joined, end), start)

\* A bar touches the level when it comes within half an ATR of it.
Touches(bars, e) ==
  Len(SelectSeq(bars, LAMBDA b : 2 * b.h >= 2 * e.level - e.atr /\ 2 * b.l <= 2 * e.level + e.atr))

LevelType(n) == IF n = 0 THEN 0 ELSE IF n <= 2 THEN 1 ELSE 2

LevelOf(bars, e) ==
  IF bars = << >> THEN [prior_touches |-> None, level_type |-> None]
  ELSE [prior_touches |-> Some(Touches(bars, e)), level_type |-> Some(LevelType(Touches(bars, e)))]

compute_level_features(events, cache) ==
  [i \in 1..Len(events) |->
     LET e == events[i] IN LevelOf(get_bars_for_period(e.symbol, e.touch - Day, e.touch, cache), e)]

Height(b) == b.h - b.l
Body(b) == Span(b.c, b.o)

\* The mean of the differences is the last range less the first.
RangeDerivative(last) ==
  IF Len(last) < Pattern THEN None
  ELSE Some((100 * (Height(Last(last)) - Height(Head(last)))) \div (Pattern - 1))

BodyWick(last) ==
  LET bodies == SumOf(last, Body) wicks == SumOf(last, Height) - SumOf(last, Body)
  IN IF Len(last) < Pattern \/ wicks <= 0 THEN None ELSE Some((100 * bodies) \div wicks)

SameWay(last, side) ==
  IF Len(last) < Consistency THEN None
  ELSE Some((100 * Len(SelectSeq(last, LAMBDA b : Dir(side) * (b.c - b.o) > 0))) \div Consistency)

compute_prev_bars_pattern_features(events, cache) ==
  [i \in 1..Len(events) |->
     LET e == events[i] pre == Before(Bars(cache, e), e.touch)
     IN [range_derivative |-> RangeDerivative(LastOf(pre, Pattern)), body_wick_ratio |-> BodyWick(LastOf(pre, Pattern)),
         direction_consistency |-> SameWay(LastOf(pre, Consistency), e.side)]]

\* The month before is joined when the half hour begins in it.
get_bars_for_event(symbol, touch, cache) ==
  IF MonthOf(touch - HalfHour) = MonthOf(touch) THEN BarsAt(cache, symbol, MonthOf(touch))
  ELSE BarsAt(cache, symbol, MonthOf(touch - HalfHour)) \o BarsAt(cache, symbol, MonthOf(touch))

aggregate_to_1min(bars) ==
  LET minutes == SetToSortSeq({b.t \div Minute : b \in Range(bars)}, LAMBDA x, y : x < y)
      Of(m) == SelectSeq(bars, LAMBDA b : b.t \div Minute = m)
  IN [k \in 1..Len(minutes) |->
        LET own == Of(minutes[k])
        IN [t |-> minutes[k] * Minute, o |-> Head(own).o, h |-> Max({b.h : b \in Range(own)}),
            l |-> Min({b.l : b \in Range(own)}), c |-> Last(own).c]]

\* True range and the two directional movements of bar i, which is not the first.
Movement(bars, i) ==
  LET b == bars[i] p == bars[i - 1]
      up == b.h - p.h down == p.l - b.l
  IN [tr |-> Max({b.h - b.l, Span(b.h, p.c), Span(b.l, p.c)}),
      plus |-> IF up > down /\ up > 0 THEN up ELSE 0, minus |-> IF down > up /\ down > 0 THEN down ELSE 0]

\* The share of the stronger direction; the true range cancels out of it.
DX(m) == IF m.tr > 0 /\ m.plus + m.minus > 0 THEN (100 * Span(m.plus, m.minus)) \div (m.plus + m.minus) ELSE 0

\* Sums over the first Period movements, then smoothed: scaled by 100.
FirstSmoothed(ms) ==
  [f \in {"tr", "plus", "minus"} |-> 100 * SumOf(SubSeq(ms, 1, Period), LAMBDA m : m[f])]
Smooth(prev, m) == [f \in {"tr", "plus", "minus"} |-> prev[f] - prev[f] \div Period + 100 * m[f]]

Smoothed(ms) ==
  FoldLeft(LAMBDA acc, m : Append(acc, Smooth(Last(acc), m)), <<FirstSmoothed(ms)>>,
           SubSeq(ms, Period + 1, Len(ms)))

\* The mean of the first Period indices, then smoothed.
Adx(dxs) ==
  FoldLeft(LAMBDA acc, x : (acc * (Period - 1) + x) \div Period,
           SumOf(SubSeq(dxs, 1, Period), LAMBDA x : x) \div Period, SubSeq(dxs, Period + 1, Len(dxs)))

DxOf(smoothed) == [i \in 1..Len(smoothed) |-> DX(smoothed[i])]

compute_adx(bars) ==
  IF Len(bars) < 2 * Period THEN None
  ELSE Some(Adx(DxOf(Smoothed([i \in 1..(Len(bars) - 1) |-> Movement(bars, i + 1)]))))

RegimeState(adx) == IF adx > 25 THEN 2 ELSE IF adx > 20 THEN 1 ELSE 0

RegimeOf(adx) ==
  [adx |-> adx, regime_state |-> IF adx = None THEN None ELSE Some(RegimeState(adx[1]))]

RegimeIn(window) ==
  IF Len(window) < MinSeconds THEN RegimeOf(None) ELSE RegimeOf(compute_adx(aggregate_to_1min(window)))

compute_regime_transition_features(events, cache) ==
  [i \in 1..Len(events) |->
     LET e == events[i]
     IN RegimeIn(From(Before(get_bars_for_event(e.symbol, e.touch, cache), e.touch), e.touch - HalfHour))]

---------------------------------------------------------------------------
\* The rows of a group.
Computed(group, events, cache, extended) ==
  CASE group = "time_of_day" -> compute_time_of_day_features(events)
    [] group = "volume" -> compute_volume_features(events, cache)
    [] group = "volatility" -> compute_volatility_features(events, cache)
    [] group = "level" -> compute_level_features(events, extended)
    [] group = "prev_bars" -> compute_prev_bars_pattern_features(events, cache)
    [] OTHER -> compute_regime_transition_features(events, cache)

Holes(group, n) == [i \in 1..n |-> [f \in Range(Groups[group][2]) |-> None]]

\* A group that raises is a column of holes.
GroupRows(g, events, cache, extended, broken) ==
  IF Groups[g][1] \in broken THEN Holes(g, Len(events)) ELSE Computed(Groups[g][1], events, cache, extended)

Joined(events, tables) ==
  [i \in 1..Len(events) |->
     [f \in Range(AllEnhanced) |->
        tables[CHOOSE g \in 1..Len(Groups) : f \in Range(Groups[g][2])][i][f]]]

infer_data_source(feature) ==
  CASE GroupOf(feature) = "time_of_day" -> "touch" [] GroupOf(feature) = "volume" -> "bars_20"
    [] GroupOf(feature) = "volatility" -> "half_hour" [] GroupOf(feature) = "level" -> "day"
    [] GroupOf(feature) = "prev_bars" -> "bars_n" [] OTHER -> "half_hour_minutes"

infer_pit_details(feature) == IF GroupOf(feature) = "time_of_day" THEN "touch_time" ELSE "before_touch"

\* Only a group that raised does not pass.
PITAuditEntry(feature, broken) ==
  IF GroupOf(feature) \in broken
  THEN [feature |-> feature, source |-> "unknown", boundary |-> "error", passed |-> FALSE]
  ELSE [feature |-> feature, source |-> infer_data_source(feature), boundary |-> infer_pit_details(feature),
        passed |-> TRUE]

log_feature_statistics(rows, used) ==
  [f \in Range(used) |-> Len(SelectSeq(rows, LAMBDA x : x[f] = None))]

Extracted(rows, n, broken) ==
  LET Bad(f) == GroupOf(f) \in broken \/ 2 * Len(SelectSeq(rows, LAMBDA x : x[f] = None)) > n
  IN [rows |-> rows, used |-> SelectSeq(AllEnhanced, LAMBDA f : ~Bad(f)),
      excluded |-> SelectSeq(AllEnhanced, Bad),
      audit |-> [k \in 1..Len(AllEnhanced) |-> PITAuditEntry(AllEnhanced[k], broken)]]

extract_enhanced_features(events, cache, extended, broken) ==
  Extracted(Joined(events, [g \in 1..Len(Groups) |-> GroupRows(g, events, cache, extended, broken)]),
            Len(events), broken)

generate_pit_audit_report(audit) ==
  [total |-> Len(audit), passed |-> Len(SelectSeq(audit, LAMBDA a : a.passed))]
============================================================================
