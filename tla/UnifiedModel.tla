---------------------------- MODULE UnifiedModel ----------------------------
(***************************************************************************)
(* timing_probability_unified: what its programs share.  A pool of events  *)
(* is split by time; a tree says whether to enter and how late, a forest   *)
(* how much, a gate asks for speed, and the trades are summed by month.    *)
(*                                                                         *)
(* What a fitted tree answers is one of the rules of DelayStudy; a fitted  *)
(* forest gives the share of the ones, or the label of the nearest row,    *)
(* whichever the environment chose.  A probability and a multiplier are in *)
(* percent, a base share too, so the weighted profit of a trade is in      *)
(* units of a bps by a share by a multiplier.                              *)
(***************************************************************************)
EXTENDS BreakoutEvents

Ordered(events) == SortSeq(events, LAMBDA a, b : a.touch < b.touch)

---------------------------------------------------------------------------
(* event_source_builder.py                                                 *)

\* A file may cover more than its month; the middle of the month decides.
find_bars_cache_file(ranges, key) ==
  {r \in DOMAIN ranges : r[1] = key[1] /\ r[2] <= 100 * key[2] + 50 /\ 100 * key[2] + 50 <= r[3]}

load_monthly_bars(files, ranges, key) ==
  IF key \in DOMAIN files THEN files[key]
  ELSE IF find_bars_cache_file(ranges, key) = {} THEN << >>
  ELSE ranges[CHOOSE r \in find_bars_cache_file(ranges, key) : TRUE]

Keys(events) == {Key(e) : e \in Range(events)}

load_bars_cache_for_events(events, files, ranges) ==
  [k \in {x \in Keys(events) : load_monthly_bars(files, ranges, x) # << >>} |-> load_monthly_bars(files, ranges, k)]

split_events_by_time_whole(events, forward_start) ==
  LET sorted == Ordered(events)
      n == (6 * Len(sorted)) \div 10
  IN [train |-> SubSeq(sorted, 1, n), test |-> SubSeq(sorted, n + 1, Len(sorted)),
      forward |-> SelectSeq(sorted, LAMBDA e : e.touch >= forward_start)]
split_events_by_time(events, forward_start) ==
  LET sorted == Ordered(events)
      full == SelectSeq(sorted, LAMBDA e : e.touch < forward_start)
      n == (6 * Len(full)) \div 10
  IN [train |-> SubSeq(full, 1, n), test |-> SubSeq(full, n + 1, Len(full)),
      forward |-> SelectSeq(sorted, LAMBDA e : e.touch >= forward_start)]

HowMany(events, P(_)) == Len(SelectSeq(events, P))

compute_event_pool_stats(events) ==
  [total |-> Len(events), btc |-> HowMany(events, LAMBDA e : e.symbol = "BTC"),
   eth |-> HowMany(events, LAMBDA e : e.symbol = "ETH"), long |-> HowMany(events, LAMBDA e : e.side = "long"),
   short |-> HowMany(events, LAMBDA e : e.side = "short"),
   range |-> IF events = << >> THEN None ELSE <<Head(events).touch, Last(events).touch>>]

filter_events_by_bars_cache(events, cache) ==
  [valid |-> SelectSeq(events, LAMBDA e : Key(e) \in DOMAIN cache),
   skipped |-> SelectSeq(events, LAMBDA e : Key(e) \notin DOMAIN cache)]

Pooled(kept, cache, forward_start) ==
  [raised |-> kept.valid = << >>, events |-> Ordered(kept.valid), cache |-> cache, skipped |-> kept.skipped,
   splits |-> split_events_by_time(kept.valid, forward_start),
   stats |-> compute_event_pool_stats(Ordered(kept.valid))]

\* Raises without an event, and without a bar for any of them.
build_event_pool(events, files, ranges, forward_start) ==
  LET cache == load_bars_cache_for_events(events, files, ranges)
  IN Pooled(filter_events_by_bars_cache(events, cache), cache, forward_start)

---------------------------------------------------------------------------
(* quality_filter.py, speed_gate.py                                        *)

\* A hundred times the quantile, linear between the two nearest.
Quantile100(values, p) ==
  LET o == SortSeq(values, <)
      at == p * (Len(o) - 1)
      lo == at \div 100 + 1
  IN 100 * o[lo] + (at % 100) * (o[Min({lo + 1, Len(o)})] - o[lo])

Speeds(events, V(_)) == [i \in 1..Len(events) |-> V(events[i])]

SpeedThreshold(learned_from) ==
  IF learned_from = << >> THEN 0 ELSE Quantile100(Speeds(learned_from, LAMBDA e : Span(e.speed, 0)), 25)

Fast100(events, threshold) == SelectSeq(events, LAMBDA e : 100 * Span(e.speed, 0) >= threshold)

apply_t3_quality_filter(events, learned_from, late) ==
  [events |-> SelectSeq(Fast100(events, SpeedThreshold(learned_from)), LAMBDA e : e.pre <= late),
   params |-> [threshold |-> SpeedThreshold(learned_from), before |-> Len(events),
               after_speed |-> Len(Fast100(events, SpeedThreshold(learned_from)))]]

GateThreshold(learned_from) == Quantile100(Speeds(learned_from, LAMBDA e : e.speed), 10)
GatePass(events, threshold) == [i \in 1..Len(events) |-> 100 * events[i].speed >= threshold]

compute_speed_gate(events, learned_from) ==
  [pass |-> GatePass(events, GateThreshold(learned_from)), threshold |-> GateThreshold(learned_from)]

---------------------------------------------------------------------------
(* timing_classifier.py                                                    *)

\* The best any of the delays earned, far below every trade without one.
BestTraded(results, delays) ==
  LET earned == {r.trade.realistic : r \in {x \in Range(results) : x.label \in delays /\ x.trade # None}}
  IN IF earned = {} THEN -1000000 ELSE Max(earned)

generate_regime_labels(results) ==
  [i \in 1..Len(results) |-> RegimeLabel(BestTraded(results[i], Fast), BestTraded(results[i], Slow))]

PnlOf(r) == IF r.trade = None THEN 0 ELSE r.trade.realistic

\* The delay of the regime that turned out best; without a trade it earns 0.
get_selected_delay_pnl(prediction, results) ==
  LET own == SelectSeq(results, LAMBDA r : r.label \in (IF prediction = "fast" THEN Fast ELSE Slow))
      best == Max({PnlOf(r) : r \in Range(own)})
  IN IF prediction = "skip" \/ own = << >> THEN [delay |-> "none", pnl |-> 0]
     ELSE [delay |-> Head(SelectSeq(own, LAMBDA r : PnlOf(r) = best)).label, pnl |-> best]

Silos(rows) == {<<r.symbol, r.touch \div 100>> : r \in Range(rows)}
silo_calendar_sum(pnls, events) ==
  MapThenSumSet(LAMBDA k : SumOf(SelectSeq([i \in 1..Len(pnls) |-> <<Key(events[i]), pnls[i]>>],
                                           LAMBDA x : x[1] = k), LAMBDA x : x[2]), Silos(events))

PnlsOf(predictions, results) ==
  [i \in 1..Len(predictions) |-> get_selected_delay_pnl(predictions[i], results[i]).pnl]

loocv_calendar_sum_3regime(rule, X, y, results, events) ==
  silo_calendar_sum(PnlsOf([i \in 1..Len(y) |-> predict(rule, RemoveAt(X, i), RemoveAt(y, i), X[i])], results), events)

select_best_depth(three, four) == IF four > three THEN 4 ELSE 3

evaluate_timing_predictions(predictions, results, events) == silo_calendar_sum(PnlsOf(predictions, results), events)

TimingResult(trees, depth, three, four, X, y, Xt) ==
  [depth |-> depth, three |-> three, four |-> four,
   on_train |-> predict_all(trees[depth], X, y, X), on_test |-> predict_all(trees[depth], X, y, Xt)]

Selected(trees, three, four, X, y, Xt) ==
  TimingResult(trees, select_best_depth(three, four), three, four, X, y, Xt)

train_and_select(trees, X, y, results, events, Xt) ==
  Selected(trees, loocv_calendar_sum_3regime(trees[3], X, y, results, events),
           loocv_calendar_sum_3regime(trees[4], X, y, results, events), X, y, Xt)

---------------------------------------------------------------------------
(* probability_model.py                                                    *)

generate_rf_binary_labels(predictions, pnls) ==
  [i \in 1..Len(predictions) |-> IF predictions[i] # "skip" /\ pnls[i] > 0 THEN 1 ELSE 0]

\* What a fitted forest answers, when it saw both classes.
Probability(rule, X, y, x) ==
  IF rule = "share" THEN (100 * Count(y, 1)) \div Len(y) ELSE 100 * Nearest1(X, y, x)

TwoClasses(y) == Cardinality(Range(y)) = 2
Probabilities(rule, X, y, rows) ==
  [i \in 1..Len(rows) |-> IF TwoClasses(y) THEN Probability(rule, X, y, rows[i]) ELSE 50]

\* Of the pairs of a one and a zero, twice those in the right order and one
\* for each tie: less than their number is an AUC below one half.
Ranked2(y, p) ==
  MapThenSumSet(LAMBDA ij : IF p[ij[1]] > p[ij[2]] THEN 2 ELSE IF p[ij[1]] = p[ij[2]] THEN 1 ELSE 0,
                {ij \in (1..Len(y)) \X (1..Len(y)) : y[ij[1]] = 1 /\ y[ij[2]] = 0})
Pairs(y) == Count(y, 1) * Count(y, 0)
roc_auc(y, p) == IF TwoClasses(y) THEN (50 * Ranked2(y, p)) \div Pairs(y) ELSE 50

train_rf_probability(rule, X, y, Xt, yt) ==
  LET on_test == Probabilities(rule, X, y, Xt)
  IN [on_train |-> Probabilities(rule, X, y, X), on_test |-> on_test, test_auc |-> roc_auc(yt, on_test),
      train_auc |-> roc_auc(y, Probabilities(rule, X, y, X)),
      no_signal |-> TwoClasses(yt) /\ Ranked2(yt, on_test) < Pairs(yt)]

compute_sizing_multiplier(probabilities) == [i \in 1..Len(probabilities) |-> Min({200, 2 * probabilities[i]})]

\* A forest that ranks worse than chance sizes everything alike.
Multipliers(probabilities, no_signal) ==
  IF no_signal THEN [i \in 1..Len(probabilities) |-> 100] ELSE compute_sizing_multiplier(probabilities)

---------------------------------------------------------------------------
(* combined_executor.py                                                    *)

UnifiedTrade(e, prediction, chosen, multiplier, share, pass) ==
  [id |-> e.id, symbol |-> e.symbol, side |-> e.side, touch |-> e.touch, prediction |-> prediction,
   delay |-> chosen.delay, multiplier |-> multiplier, pnl |-> chosen.pnl, pass |-> pass,
   weighted |-> IF prediction = "skip" THEN 0 ELSE chosen.pnl * share * multiplier]

compute_combined_positions(events, predictions, multipliers, results, pass, share) ==
  [i \in 1..Len(events) |->
     UnifiedTrade(events[i], predictions[i], get_selected_delay_pnl(predictions[i], results[i]),
                  multipliers[i], share, pass[i])]

GateOn(trades) == SelectSeq(trades, LAMBDA t : t.pass)
Active(trades) == SelectSeq(trades, LAMBDA t : t.prediction # "skip" /\ t.pass)
Filtered(trades, gated) == IF gated THEN GateOn(trades) ELSE trades
Weighted(trades) == SumOf(trades, LAMBDA t : t.weighted)
InMonth(trades, m) == SelectSeq(trades, LAMBDA t : t.touch \div 100 = m)
TradeMonths(trades) == {t.touch \div 100 : t \in Range(trades)}

calendar_sum(trades, gated) ==
  MapThenSumSet(LAMBDA k : Weighted(SelectSeq(Filtered(trades, gated), LAMBDA t : <<t.symbol, t.touch \div 100>> = k)),
                Silos(Filtered(trades, gated)))

MonthSums(trades) == {Weighted(InMonth(trades, m)) : m \in TradeMonths(trades)}
compute_worst_sm(trades, gated) ==
  IF Filtered(trades, gated) = << >> THEN 0 ELSE Min(MonthSums(Filtered(trades, gated)))

NegativeMonths(trades) == {m \in TradeMonths(GateOn(trades)) : Weighted(InMonth(GateOn(trades), m)) < 0}

SummaryRow(name, trades) ==
  [name |-> name, sum |-> calendar_sum(trades, TRUE), worst |-> compute_worst_sm(trades, TRUE),
   count |-> Len(Active(trades)),
   mean |-> IF Active(trades) = << >> THEN 0 ELSE Weighted(Active(trades)) \div Len(Active(trades))]

run_sensitivity_analysis(events, predictions, multipliers, results, pass) ==
  [k \in 1..4 |->
     SummaryRow(20 + 5 * k, compute_combined_positions(events, predictions, multipliers, results, pass, 20 + 5 * k))]

MeanOf(trades) == IF trades = << >> THEN 0 ELSE Weighted(trades) \div Len(trades)
analyze_speed_gate(trades, gate) ==
  [threshold |-> gate.threshold, passed |-> Len(GateOn(trades)), of |-> Len(trades),
   on |-> calendar_sum(trades, TRUE), off |-> calendar_sum(trades, FALSE),
   on_worst |-> compute_worst_sm(trades, TRUE), off_worst |-> compute_worst_sm(trades, FALSE),
   retained |-> MeanOf(GateOn(trades)), filtered |-> MeanOf(SelectSeq(trades, LAMBDA t : ~t.pass)),
   aggressive |-> 10 * Len(GateOn(trades)) < 7 * Len(trades)]

---------------------------------------------------------------------------
(* adverse_fill.py                                                         *)

Scenario(name, next, adverse, slip) == [name |-> name, next |-> next, adverse |-> adverse, slip |-> slip]
STANDARD_FILL_SCENARIOS ==
  <<Scenario("same_close", FALSE, FALSE, 0), Scenario("next_close", TRUE, FALSE, 0)>>
  \o [k \in 1..6 |-> Scenario("next_adverse", TRUE, TRUE, <<0, 1, 3, 5, 7, 10>>[k])]

\* The price that is worse for the side, in signed prices; a basis point of
\* slippage is one unit of price.
FillPrice(bar, side, scenario) ==
  (IF scenario.adverse THEN Favourable(bar, side) ELSE Dir(side) * bar.c) + scenario.slip

FillBar(bars, at, scenario) ==
  IF scenario.next THEN FirstFrom(bars, at + 1)
  ELSE SelectSeq(bars, LAMBDA b : b.t = at)

adjust_entry_price(bars, at, side, scenario) ==
  IF FillBar(bars, at, scenario) = None THEN None ELSE <<FillPrice(Head(FillBar(bars, at, scenario)), side, scenario)>>

Repriced_short(r, side, filled) ==
  IF r.trade = None \/ filled = None THEN r
  ELSE [r EXCEPT !.trade.realistic = @ - Dir(side) * (filled[1] - Dir(side) * r.entry[2])]
Repriced(r, side, filled) ==
  IF r.trade = None \/ filled = None THEN r
  ELSE [r EXCEPT !.trade.realistic = @ - (filled[1] - Dir(side) * r.entry[2])]

RepricedEvent(results, e, bars, scenario) ==
  [k \in 1..Len(results) |->
     IF results[k].entry = None THEN results[k]
     ELSE Repriced(results[k], e.side, adjust_entry_price(bars, results[k].entry[1], e.side, scenario))]

reprice_delay_results(results, events, cache, scenario) ==
  [i \in 1..Len(events) |->
     IF Bars(cache, events[i]) = << >> THEN results[i]
     ELSE RepricedEvent(results[i], events[i], Bars(cache, events[i]), scenario)]

SymbolSum(trades, symbol) == Weighted(SelectSeq(GateOn(trades), LAMBDA t : t.symbol = symbol))
FillRow(scenario, trades) ==
  [scenario |-> scenario, on |-> calendar_sum(trades, TRUE), off |-> calendar_sum(trades, FALSE),
   worst |-> compute_worst_sm(trades, TRUE), btc |-> SymbolSum(trades, "BTC"), eth |-> SymbolSum(trades, "ETH"),
   negative |-> Cardinality({k \in Silos(GateOn(trades)) :
                  Weighted(SelectSeq(GateOn(trades), LAMBDA t : <<t.symbol, t.touch \div 100>> = k)) < 0}),
   count |-> Len(GateOn(trades))]

evaluate_fill_scenarios(results, events, cache, predictions, multipliers, pass, share) ==
  [k \in 1..Len(STANDARD_FILL_SCENARIOS) |->
     FillRow(STANDARD_FILL_SCENARIOS[k],
             compute_combined_positions(events, predictions, multipliers,
               reprice_delay_results(results, events, cache, STANDARD_FILL_SCENARIOS[k]), pass, share))]

---------------------------------------------------------------------------
(* How the programs learn: a column of the earlier events that the later   *)
(* ones mostly lack is emptied, and every hole is filled with the median   *)
(* of the earlier ones.                                                    *)

Used(events) == Range(extract_features(events).used)
Aligned(rows, used) ==
  [i \in 1..Len(rows) |->
     [rows[i] EXCEPT !.features = [c \in used |-> IF c \in Used(rows) THEN rows[i].features[c] ELSE None]]]

Medians(rows, used) == [c \in used |-> Median2(Values(rows, c))]
LaterRows(rows, learned_from, used) == ImputedRows(rows, used, Medians(learned_from, used))

FeaturesOf(rows, learned_from) == LaterRows(Aligned(rows, Used(learned_from)), learned_from, Used(learned_from))

Learned(X, y, Xt, timing, rfy, rft, forest) ==
  [X |-> X, y |-> y, Xt |-> Xt, timing |-> timing, rfy |-> rfy,
   rf |-> train_rf_probability(forest, X, rfy, Xt, rft)]

LearnForest(X, y, Xt, timing, early, late, forest) ==
  Learned(X, y, Xt, timing, generate_rf_binary_labels(timing.on_train, PnlsOf(timing.on_train, early)),
          generate_rf_binary_labels(timing.on_test, PnlsOf(timing.on_test, late)), forest)

LearnTiming(X, y, Xt, early, late, events, env) ==
  LearnForest(X, y, Xt, train_and_select(env.trees, X, y, early, events, Xt), early, late, env.forest)

Learn(splits, early, late, env) ==
  LearnTiming(FeaturesOf(splits.train, splits.train), generate_regime_labels(early),
              FeaturesOf(splits.test, splits.train), early, late, splits.train, env)
============================================================================
