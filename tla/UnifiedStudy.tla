---------------------------- MODULE UnifiedStudy ----------------------------
(***************************************************************************)
(* timing_probability_unified: its three programs.  "unified" learns from  *)
(* one pool and checks what it learned on the events after forward_start   *)
(* (unified_runner.py, robustness.py, report_generator.py); "union" learns *)
(* from the T2 and the T3 events apart and joins the trades, for one or    *)
(* for several windows (union_strategy_runner.py); "frames" compares time  *)
(* frames (multi_timeframe_runner.py).  The steps of their mains are the   *)
(* actions; a program that raises stops as "failed".                       *)
(***************************************************************************)
EXTENDS UnifiedModel

CONSTANTS ForwardStart,                 \* where the unseen events begin
          WideTrail, UnionHold,         \* what the programs put for the default execution
          MinTrain,                     \* the events a pool needs to be learned from
          T3Late, QualityLate,          \* how late a touch may come
          GoodSum, FloorSum, ForwardSum, MildLoss, HardLoss, \* the bounds of the decision
          Environments

VARIABLE s

\* The programs overwrite the global execution parameters and put them back.
Overridden(trail, hold) == INSTANCE DelayStudy WITH TrailStart <- trail, MaxHold <- hold

FullShare == 80
DefaultShare == 30
Full(splits) == splits.train \o splits.test
Trainable(splits) == Len(splits.train) > 1 /\ Len(splits.test) > 0
EthOnly(events) == SelectSeq(events, LAMBDA e : e.symbol = "ETH")

---------------------------------------------------------------------------
(* unified_runner.py                                                       *)

Build ==
  /\ s.at = "pool" /\ s.env.program = "unified"
  /\ \E pool \in {build_event_pool(s.env.events, s.env.files, s.env.ranges, ForwardStart)} :
       s' = [s EXCEPT !.at = IF pool.raised THEN "failed" ELSE "prepare", !.pool = <<pool>>]

\* The median of the costs that are known; no cut when none is.
CostThreshold(events) ==
  LET known == SelectSeq(events, LAMBDA e : e.cost # None)
  IN IF known = << >> THEN None ELSE <<Quantile100([i \in 1..Len(known) |-> known[i].cost[1]], 50)>>

\* Features are filled for all symbols, then only ETH stays; the pool is
\* split again, and the cost threshold is that of the earlier events.
Prepare ==
  /\ s.at = "prepare"
  /\ \E events \in {EthOnly(fill_missing_features(s.pool[1].events, s.pool[1].cache))} :
       \E splits \in {split_events_by_time(events, ForwardStart)} :
         s' = [s EXCEPT !.at = IF Trainable(splits) THEN "simulate" ELSE "failed",
                        !.events = events, !.splits = <<splits>>,
                        !.cut = IF splits.train = << >> THEN None ELSE CostThreshold(splits.train)]

Simulate ==
  /\ s.at = "simulate"
  /\ s' = [s EXCEPT !.at = "learn",
                    !.results = Overridden(WideTrail, MaxHold)!simulate(Full(s.splits[1]), s.pool[1].cache)]

NoBars(events, cache) == SelectSeq(events, LAMBDA e : Bars(cache, e) = << >>)
compute_delay_traded_stats(results) ==
  [label \in Range(Labels) |->
     [total |-> Len(results),
      traded |-> Cardinality({i \in 1..Len(results) : find_delay_result(results[i], label).trade # None})]]

TrainResults == SubSeq(s.results, 1, Len(s.splits[1].train))
TestResults == SubSeq(s.results, Len(s.splits[1].train) + 1, Len(s.results))

LearnModels ==
  /\ s.at = "learn"
  /\ s' = [s EXCEPT !.at = "position", !.learned = <<Learn(s.splits[1], TrainResults, TestResults, s.env)>>]

FullPredictions(learned) == learned.timing.on_train \o learned.timing.on_test
FullMultipliers(learned) == Multipliers(learned.rf.on_train \o learned.rf.on_test, learned.rf.no_signal)

\* An event whose costs are not below the median is taken at half its size.
CostCut(multipliers, events, cut) ==
  [i \in 1..Len(events) |->
     IF cut # None /\ events[i].cost # None /\ 100 * events[i].cost[1] >= cut[1]
     THEN multipliers[i] \div 2 ELSE multipliers[i]]

Positioned(events, predictions, multipliers, gate) ==
  [s EXCEPT !.at = "fill", !.predictions = predictions, !.multipliers = multipliers, !.gate = <<gate>>,
            !.trades = compute_combined_positions(events, predictions, multipliers, s.results, gate.pass, FullShare),
            !.sensitivity = run_sensitivity_analysis(events, predictions, multipliers, s.results, gate.pass)]

Position ==
  /\ s.at = "position"
  /\ \E multipliers \in {CostCut(FullMultipliers(s.learned[1]), Full(s.splits[1]), s.cut)} :
       \E gate \in {compute_speed_gate(Full(s.splits[1]), s.splits[1].train)} :
         s' = Positioned(Full(s.splits[1]), FullPredictions(s.learned[1]), multipliers, gate)

Fill ==
  /\ s.at = "fill"
  /\ s' = [s EXCEPT !.at = "check", !.speed = <<analyze_speed_gate(s.trades, s.gate[1])>>,
                    !.fills = evaluate_fill_scenarios(s.results, Full(s.splits[1]), s.pool[1].cache, s.predictions,
                                                      s.multipliers, s.gate[1].pass, FullShare)]

---------------------------------------------------------------------------
(* robustness.py                                                           *)

bootstrap_calendar_sum(trades, draw) == Weighted(Resample(trades, draw))
BootstrapOf(trades, draws) ==
  IF trades = << >> THEN [mean |-> 0, low |-> 0, high |-> 0]
  ELSE LET sums == SortSeq([k \in 1..Len(draws) |-> bootstrap_calendar_sum(trades, draws[k])], <)
       IN [mean |-> SumOf(sums, LAMBDA x : x) \div Len(sums), low |-> percentile(sums, 5), high |-> percentile(sums, 95)]

run_bootstrap(trades, draws) ==
  [all |-> BootstrapOf(trades, draws), btc |-> BootstrapOf(SelectSeq(trades, LAMBDA t : t.symbol = "BTC"), draws),
   eth |-> BootstrapOf(SelectSeq(trades, LAMBDA t : t.symbol = "ETH"), draws)]

simulate_forward_delays(events, cache) == simulate(events, cache)

\* The holes of the unseen events are filled with their own medians.
ForwardRows(events) == ImputedRows(events, Used(events), Medians(events, Used(events)))

Same(n, v) == [i \in 1..n |-> v]

\* Without any column every event is skipped, at even odds.
ForwardTrades(events, learned, threshold, cache, rules) ==
  LET n == Len(events)
      blind == Used(events) = {}
      rows == ForwardRows(events)
  IN compute_combined_positions(events,
       IF blind THEN Same(n, "skip") ELSE predict_all(rules.trees[learned.timing.depth], learned.X, learned.y, rows),
       compute_sizing_multiplier(IF blind THEN Same(n, 50) ELSE Probabilities(rules.forest, learned.X, learned.rfy, rows)),
       simulate_forward_delays(events, cache), GatePass(events, threshold), DefaultShare)

ForwardResult(trades, full) ==
  [sum |-> calendar_sum(trades, TRUE), worst |-> compute_worst_sm(trades, TRUE), count |-> Len(Active(trades)),
   overfitting |-> 2 * calendar_sum(trades, TRUE) < full, risk |-> compute_worst_sm(trades, TRUE) < -HardLoss,
   under |-> calendar_sum(trades, TRUE) < ForwardSum]

run_forward_validation(events, learned, threshold, cache, full, rules) ==
  IF events = << >>
  THEN [sum |-> 0, worst |-> 0, count |-> 0, overfitting |-> TRUE, risk |-> FALSE, under |-> TRUE]
  ELSE ForwardResult(ForwardTrades(events, learned, threshold, cache, rules), full)

\* A fitted model refuses rows of other columns than it was fitted to.
Accepts(events, learned_from) == events = << >> \/ Used(events) \in {{}, Used(learned_from)}

EnterAll(predictions) == [i \in 1..Len(predictions) |-> IF predictions[i] = "skip" THEN "fast" ELSE predictions[i]]

run_ablation_study(events, predictions, multipliers, results, pass) ==
  LET n == Len(events)
      Row(name, p, m, g) == SummaryRow(name, compute_combined_positions(events, p, m, results, g, DefaultShare))
  IN <<Row("timing_only", predictions, Same(n, 100), pass), Row("probability_only", EnterAll(predictions), multipliers, pass),
       Row("no_speed_gate", predictions, multipliers, Same(n, TRUE)), Row("full_unified", predictions, multipliers, pass)>>

Check ==
  /\ s.at = "check"
  /\ \/ /\ Accepts(s.splits[1].forward, s.splits[1].train)
        /\ s' = [s EXCEPT !.at = "report",
                  !.bootstrap = <<run_bootstrap(GateOn(s.trades), s.env.draws)>>,
                  !.forward = <<run_forward_validation(s.splits[1].forward, s.learned[1], s.gate[1].threshold,
                                                       s.pool[1].cache, calendar_sum(s.trades, TRUE), s.env)>>,
                  !.ablation = run_ablation_study(Full(s.splits[1]), s.predictions, s.multipliers, s.results, s.gate[1].pass)]
     \/ /\ ~Accepts(s.splits[1].forward, s.splits[1].train)
        /\ s' = [s EXCEPT !.at = "failed"]

---------------------------------------------------------------------------
(* report_generator.py                                                     *)

compute_go_no_go_decision(sum, worst, btc, eth, forward, overfitting) ==
  IF overfitting /\ sum >= GoodSum THEN "downgraded"
  ELSE IF sum >= GoodSum /\ worst > -MildLoss /\ btc > 0 /\ eth > 0 /\ forward >= ForwardSum THEN "strong_go"
  ELSE IF sum < FloorSum \/ worst < -HardLoss THEN "no_go" ELSE "marginal_go"

RowNamed(rows, name) == Head(SelectSeq(rows, LAMBDA r : r.name = name))

\* The four hypotheses of the report.
Hypotheses(sum, bootstrap, forward, ablation, speed) ==
  [h1 |-> sum > RowNamed(ablation, "timing_only").sum /\ sum > RowNamed(ablation, "probability_only").sum,
   h2 |-> IF speed.on > speed.off /\ ~speed.aggressive THEN "confirmed"
          ELSE IF speed.aggressive THEN "inconclusive" ELSE "rejected",
   h3 |-> sum > 0, h4 |-> forward.sum >= ForwardSum /\ bootstrap.btc.mean > 0 /\ bootstrap.eth.mean > 0]

build_summary_dict(decision, learned, bootstrap, forward, ablation, sensitivity, speed, stats) ==
  [decision |-> decision, timing |-> <<learned.timing.depth, learned.timing.three, learned.timing.four>>,
   auc |-> <<learned.rf.train_auc, learned.rf.test_auc>>, bootstrap |-> bootstrap, forward |-> forward,
   ablation |-> ablation, sensitivity |-> sensitivity, speed |-> speed, stats |-> stats]

ExecutionStats ==
  [full |-> Len(s.results), errors |-> Len(NoBars(Full(s.splits[1]), s.pool[1].cache)),
   skipped |-> Len(s.pool[1].skipped), delays |-> compute_delay_traded_stats(s.results)]

generate_report(sum, worst, bootstrap, forward) ==
  [hypotheses |-> Hypotheses(sum, bootstrap, forward, s.ablation, s.speed[1]), execution |-> ExecutionStats,
   summary |-> build_summary_dict(
     compute_go_no_go_decision(sum, worst, bootstrap.btc.mean, bootstrap.eth.mean, forward.sum, forward.overfitting),
     s.learned[1], bootstrap, forward, s.ablation, s.sensitivity, s.speed[1], s.pool[1].stats)]

Report ==
  /\ s.at = "report"
  /\ s' = [s EXCEPT !.at = "end",
                    !.report = <<generate_report(calendar_sum(s.trades, TRUE), compute_worst_sm(s.trades, TRUE),
                                                 s.bootstrap[1], s.forward[1])>>]

---------------------------------------------------------------------------
(* union_strategy_runner.py                                                *)

HourOfTouch(e) == <<e.touch \div Hour, e.side>>
validate_mutual_exclusion(t2, t3) ==
  {HourOfTouch(e) : e \in Range(t2)} \cap {HourOfTouch(e) : e \in Range(t3)} = {}

\* A file counts for the month it begins in.
load_bars_cache_for_symbol(files, ranges, symbol) ==
  LET Begin(r) == <<r[1], r[2] \div 100>>
      wide == {r \in DOMAIN ranges : r[1] = symbol}
      narrow == {k \in DOMAIN files : k[1] = symbol}
  IN [k \in narrow \cup {Begin(r) : r \in wide} |->
        FoldLeft(Merge, IF k \in narrow THEN files[k] ELSE << >>, SetToSeq({ranges[r] : r \in {x \in wide : Begin(x) = k}}))]

active_trade_count(trades) == Len(Active(trades))
negative_month_count(trades) == Cardinality(NegativeMonths(trades))

Measured(result, trades) ==
  [result EXCEPT !.trades = trades, !.sum = calendar_sum(trades, TRUE), !.worst = compute_worst_sm(trades, TRUE),
                 !.count = active_trade_count(trades), !.negative = negative_month_count(trades)]

EmptyPool(name, splits) ==
  [name |-> name, raised |-> FALSE, skipped |-> TRUE, trades |-> << >>, sum |-> 0, worst |-> 0, count |-> 0,
   negative |-> 0, depth |-> 0, loocv |-> 0, auc |-> 0,
   sizes |-> <<Len(splits.train), Len(splits.test), Len(splits.forward)>>]

\* Everything is learned from the earlier events and applied to all of them;
\* the forward column of a forest of one class does not exist.
PoolTrades(splits, learned, results, gate, rows, env) ==
  compute_combined_positions(Full(splits) \o splits.forward,
    FullPredictions(learned) \o predict_all(env.trees[learned.timing.depth], learned.X, learned.y, rows),
    Multipliers(learned.rf.on_train \o learned.rf.on_test \o Probabilities(env.forest, learned.X, learned.rfy, rows),
                learned.rf.no_signal), results, gate.pass, FullShare)

PoolResult(name, splits, learned, trades, forward_start) ==
  Measured([EmptyPool(name, splits) EXCEPT !.skipped = FALSE, !.depth = learned.timing.depth,
              !.raised = splits.forward # << >> /\ ~TwoClasses(learned.rfy),
              !.loocv = learned.timing.three, !.auc = learned.rf.test_auc],
           SelectSeq(trades, LAMBDA t : t.touch >= forward_start))

PoolLearned(name, splits, results, learned, env, forward_start) ==
  PoolResult(name, splits, learned,
             PoolTrades(splits, learned, results, compute_speed_gate(Full(splits) \o splits.forward, splits.train),
                        FeaturesOf(splits.forward, splits.train), env), forward_start)

PoolSimulated(name, splits, results, env, forward_start) ==
  LET n == Len(splits.train)
  IN PoolLearned(name, splits, results,
                 Learn(splits, SubSeq(results, 1, n), SubSeq(results, n + 1, n + Len(splits.test)), env), env, forward_start)

PoolSplit(name, splits, cache, env, forward_start) ==
  IF Len(splits.train) < MinTrain THEN EmptyPool(name, splits)
  ELSE PoolSimulated(name, splits, Overridden(WideTrail, UnionHold)!simulate(Full(splits) \o splits.forward, cache),
                     env, forward_start)

run_single_pool_pipeline(name, events, cache, env, forward_start) ==
  PoolSplit(name, split_events_by_time(events, forward_start), cache, env, forward_start)

tag_pool(trades, name) == [i \in 1..Len(trades) |-> trades[i] @@ [pool |-> name]]

Joined(t2, t3) == Ordered(tag_pool(t2.trades, "T2") \o tag_pool(t3.trades, "T3"))

\* Without a column to sort by there is nothing to join.
UnionResult(forward_start, t2, t3, n2, n3, params) ==
  Measured([start |-> forward_start, raised |-> t2.raised \/ t3.raised \/ (t2.skipped /\ t3.skipped),
            t2 |-> t2, t3 |-> t3, events |-> <<n2, n3>>, params |-> params, trades |-> << >>, sum |-> 0, worst |-> 0,
            count |-> 0, negative |-> 0], Joined(t2, t3))

T3Filtered(env, forward_start, all) ==
  IF all = << >> THEN [events |-> << >>, params |-> None]
  ELSE apply_t3_quality_filter(all, split_events_by_time(all, forward_start).train, QualityLate)

UnionOf(env, forward_start, pool, t3, cache) ==
  UnionResult(forward_start, run_single_pool_pipeline("T2", EthOnly(pool.events), cache, env, forward_start),
              run_single_pool_pipeline("T3", t3.events, cache, env, forward_start),
              Len(EthOnly(pool.events)), Len(t3.events), t3.params)

Refused(pool, t3) == pool.raised \/ ~validate_mutual_exclusion(EthOnly(pool.events), t3.events)

Inside_open(trade, from, to) == from <= trade.touch
Inside(trade, from, to) == from <= trade.touch /\ trade.touch < to

slice_trades_to_window(trades, from, to) == SelectSeq(trades, LAMBDA t : Inside(t, from, to))
slice_pool_result_to_window(pool, from, to) == Measured(pool, slice_trades_to_window(pool.trades, from, to))
slice_result_to_window(u, from, to) ==
  Measured([u EXCEPT !.t2 = slice_pool_result_to_window(@, from, to), !.t3 = slice_pool_result_to_window(@, from, to)],
           slice_trades_to_window(u.trades, from, to))

\* A window ends where the next one begins, the last one after its month.
WindowEnd(months, k) == IF k < Len(months) THEN months[k + 1] ELSE months[k] + 100

WindowOf(u, months, k) == IF s.env.rolling THEN slice_result_to_window(u, months[k], WindowEnd(months, k)) ELSE u

\* One call of run_union_strategy: everything is loaded and learned anew.
Window ==
  /\ s.at = "pool" /\ s.env.program = "union"
  /\ \E start \in {s.env.months[Len(s.windows) + 1]} :
       \E pool \in {build_event_pool(s.env.events, s.env.files, s.env.ranges, start)} :
         \E t3 \in {T3Filtered(s.env, start, generate_t3_events("ETH", load_all_1s_bars(s.env.files, s.env.ranges, "ETH"), T3Late))} :
           \/ Refused(pool, t3) /\ s' = [s EXCEPT !.at = "failed"]
           \/ /\ ~Refused(pool, t3)
              /\ \E u \in {UnionOf(s.env, start, pool, t3, load_bars_cache_for_symbol(s.env.files, s.env.ranges, "ETH"))} :
                   s' = IF u.raised THEN [s EXCEPT !.at = "failed"]
                        ELSE [s EXCEPT !.windows = Append(@, WindowOf(u, s.env.months, Len(s.windows) + 1)),
                                       !.at = IF Len(s.windows) + 1 = Len(s.env.months) THEN "join" ELSE "pool"]

compute_monthly_attribution(trades) ==
  LET kept == IF GateOn(trades) = << >> THEN trades ELSE GateOn(trades)
      months == SetToSortSeq(TradeMonths(kept), <)
      Of(m, pool) == SelectSeq(InMonth(kept, m), LAMBDA t : t.pool = pool)
  IN [k \in 1..Len(months) |->
        [month |-> months[k], t2 |-> Weighted(Of(months[k], "T2")), t3 |-> Weighted(Of(months[k], "T3")),
         union |-> Weighted(InMonth(kept, months[k])), t2_trades |-> Len(Active(Of(months[k], "T2"))),
         t3_trades |-> Len(Active(Of(months[k], "T3")))]]

\* What is said of a month with trades of T3.
IncrementNote(t2, t3) ==
  CASE t2 = << >> -> "T3 alone" [] t2 # << >> /\ Weighted(t2) < 0 -> "T2 weak"
    [] t2 # << >> /\ Weighted(t2) >= 0 /\ Weighted(t3) > 0 -> "T3 adds" [] OTHER -> "T3 loses"

write_t3_increment_analysis(u) ==
  [increment |-> u.sum - u.t2.sum,
   notes |-> [m \in {t.touch \div 100 : t \in {x \in Range(GateOn(u.trades)) : x.pool = "T3"}} |->
                IncrementNote(SelectSeq(InMonth(GateOn(u.trades), m), LAMBDA t : t.pool = "T2"),
                              SelectSeq(InMonth(GateOn(u.trades), m), LAMBDA t : t.pool = "T3"))]]

pool_result_to_dict(p) ==
  [sum |-> p.sum, worst |-> p.worst, trades |-> p.count, negative |-> p.negative, depth |-> p.depth,
   loocv |-> p.loocv, auc |-> p.auc, skipped |-> p.skipped]
WindowDict(u) ==
  [start |-> u.start, t2 |-> pool_result_to_dict(u.t2), t3 |-> pool_result_to_dict(u.t3),
   union |-> <<u.sum, u.worst, u.count, u.negative>>]

generate_union_report_json(mode, windows, trades, total) ==
  [mode |-> mode, events |-> windows[1].events, windows |-> [k \in 1..Len(windows) |-> WindowDict(windows[k])],
   sum |-> calendar_sum(trades, TRUE), worst |-> compute_worst_sm(trades, TRUE), trades |-> total,
   monthly |-> compute_monthly_attribution(trades)]

generate_union_report_md(windows, monthly) ==
  [increments |-> [k \in 1..Len(windows) |-> write_t3_increment_analysis(windows[k])], monthly |-> monthly]

\* The trades of all windows, in time; each counts the trades of its own.
AllForward(windows) == Ordered(FlattenSeq([k \in 1..Len(windows) |-> windows[k].trades]))
TotalCount(windows) == SumOf(windows, LAMBDA u : u.count)

Join ==
  /\ s.at = "join"
  /\ \E json \in {generate_union_report_json(IF s.env.rolling THEN "rolling" ELSE "single", s.windows,
                                             AllForward(s.windows), TotalCount(s.windows))} :
       s' = [s EXCEPT !.at = "end", !.trades = AllForward(s.windows),
                      !.report = <<[json |-> json, md |-> generate_union_report_md(s.windows, json.monthly)]>>]

---------------------------------------------------------------------------
(* multi_timeframe_runner.py                                               *)

\* The builder leaves a file only for a frame with events.
BuildFrames ==
  /\ s.at = "pool" /\ s.env.program = "frames"
  /\ s' = [s EXCEPT !.at = "frame",
                    !.frames = build_multi_timeframe_events("ETH", s.env.frames,
                                 load_all_1s_bars(s.env.files, s.env.ranges, "ETH"))]

FrameRow(name, events, splits, results, learned, trades) ==
  [name |-> name, sizes |-> <<Len(events), Len(splits.train), Len(splits.test), Len(splits.forward)>>,
   traded |-> Cardinality({i \in 1..Len(results) : Traded(results[i]) # << >>}),
   timing |-> <<learned.timing.depth, learned.timing.three, learned.timing.four>>, auc |-> learned.rf.test_auc,
   on |-> calendar_sum(trades, TRUE), off |-> calendar_sum(trades, FALSE), worst |-> compute_worst_sm(trades, TRUE),
   count |-> Len(Active(trades)), silos |-> [m \in TradeMonths(GateOn(trades)) |-> Weighted(InMonth(GateOn(trades), m))]]

FrameTraded(name, events, splits, results, learned, gate) ==
  FrameRow(name, events, splits, results, learned,
           compute_combined_positions(Full(splits), FullPredictions(learned), FullMultipliers(learned), results,
                                      gate.pass, FullShare))

FrameLearned(name, events, splits, results, env) ==
  LET n == Len(splits.train)
  IN FrameTraded(name, events, splits, results,
                 Learn(splits, SubSeq(results, 1, n), SubSeq(results, n + 1, Len(results)), env),
                 compute_speed_gate(Full(splits), splits.train))

run_timeframe_pipeline(frame, events, splits, env) ==
  FrameLearned(frame.name, events, splits,
    Overridden(WideTrail, frame.hold)!simulate(Full(splits), load_bars_cache_for_symbol(env.files, env.ranges, "ETH")), env)

\* A frame without a file, or that cannot be learned, is left out.
Frame ==
  /\ s.at = "frame" /\ Len(s.rows) < Len(s.frames)
  /\ \E k \in {Len(s.rows) + 1} :
       \E splits \in {split_events_by_time(s.frames[k], ForwardStart)} :
         s' = [s EXCEPT !.rows = Append(@, IF ~Trainable(splits) THEN None
                                           ELSE <<run_timeframe_pipeline(s.env.frames[k], s.frames[k], splits, s.env)>>)]

generate_comparison_report(rows) ==
  [k \in 1..Len(rows) |-> [row |-> rows[k], months |-> SetToSortSeq(DOMAIN rows[k].silos, <)]]

Compare ==
  /\ s.at = "frame" /\ Len(s.rows) = Len(s.frames)
  /\ s' = [s EXCEPT !.at = "end",
                    !.report = <<generate_comparison_report(FlattenSeq(s.rows))>>]

---------------------------------------------------------------------------
Init ==
  \E env \in Environments :
    s = [at |-> "pool", env |-> env, pool |-> None, events |-> << >>, splits |-> None, cut |-> None,
         results |-> << >>, learned |-> None, predictions |-> << >>, multipliers |-> << >>, gate |-> None,
         trades |-> << >>, sensitivity |-> << >>, speed |-> None, fills |-> << >>, bootstrap |-> None,
         forward |-> None, ablation |-> << >>, report |-> None, windows |-> << >>, frames |-> << >>, rows |-> << >>]

Next == \/ Build \/ Prepare \/ Simulate \/ LearnModels \/ Position \/ Fill \/ Check \/ Report
        \/ Window \/ Join \/ BuildFrames \/ Frame \/ Compare
============================================================================
