---------------------------- MODULE PreBreakout ----------------------------
(***************************************************************************)
(* research/entry_redesign/scripts/pre_breakout_timing: a classifier       *)
(* learns from the features known at the touch which of the delays to      *)
(* take, and is compared with the second delay on the later events.        *)
(***************************************************************************)
EXTENDS Learners

CONSTANTS Timing,        \* for each feature, whether it is known at the touch
          KnownSum,      \* the sum the second delay is known to have
          Environments

VARIABLE s

---------------------------------------------------------------------------
(* run_delay_simulation.py: the matrix alone, over the events as loaded    *)

OfLabel(results, label) == [i \in 1..Len(results) |-> find_delay_result(results[i], label)]

MatrixOf(events, results, test) ==
  [all |-> [d \in Range(Labels) |-> compute_calendar_sum_from_results(OfLabel(results, d), events)],
   test |-> [d \in Range(Labels) |->
     compute_calendar_sum_from_results(
       SelectSeq(OfLabel(results, d), LAMBDA r : \E i \in 1..Len(test) : test[i].id = r.id), test)]]

Verdict(m) == LET off == Span(m.test["D5"], KnownSum)
              IN IF 200 * off < START THEN "PASS" ELSE IF 100 * off < START THEN "CLOSE" ELSE "WARNING"

Reported(m) == [m |-> m, verdict |-> Verdict(m)]

run_delay_simulation ==
  /\ s.at = "matrix"
  /\ \E events \in {load_v6_gate_events(s.env.ledger, s.env.events)} :
       s' = [s EXCEPT !.at = "load", !.files = @ \cup {"delay_pnl_matrix.csv"},
               !.matrix = <<Reported(MatrixOf(events, simulate(events, load_bars_cache(events, s.env.files)),
                                              time_split_events(events).test))>>]

---------------------------------------------------------------------------
(* pre_breakout_timing_runner.py                                           *)

Sorted(events) == ByTouch(events)
Split_late(events) == (6 * Len(events)) \div 10 + 1
Split(events) == (6 * Len(events)) \div 10

Load ==
  /\ s.at = "load"
  /\ \E events \in {Sorted(load_v6_gate_events(s.env.ledger, s.env.events))} :
       s' = [s EXCEPT !.at = "simulate", !.events = events, !.split = Split(events),
                      !.cache = load_bars_cache(events, s.env.files)]

TrainOf(seq) == SubSeq(seq, 1, s.split)
TestOf(seq) == SubSeq(seq, s.split + 1, Len(seq))

Wins(results) == SelectSeq(Traded(results), LAMBDA r : r.trade.realistic > 0)
Figures(results, events) ==
  [calendar_sum |-> compute_calendar_sum_from_results(results, events),
   trades |-> Len(Traded(results)), wins |-> Len(Wins(results)),
   pnl |-> SumOf(Traded(results), LAMBDA r : r.trade.realistic)]

Simulate ==
  /\ s.at = "simulate"
  /\ \E results \in {simulate(s.events, s.cache)} :
       s' = [s EXCEPT !.at = "label", !.results = results, !.files = @ \cup {"delay_pnl_matrix.csv"},
               !.baselines = [d \in Range(Labels) |-> Figures(OfLabel(results, d), s.events)]]

\* Taking its label for every event that has one.
Oracle(labels) ==
  compute_calendar_sum_from_results(
    LET taken == Positions(labels, LAMBDA g : g # "skip")
    IN [k \in 1..Len(taken) |-> find_delay_result(s.results[taken[k]], labels[taken[k]])], s.events)

Label ==
  /\ s.at = "label"
  /\ \E labels \in {compute_optimal_labels(s.results)} :
       s' = [s EXCEPT !.at = "features", !.labels = labels, !.oracle = Oracle(labels),
                      !.files = @ \cup {"label_distribution.csv"}]

ExtractFeatures ==
  /\ s.at = "features"
  /\ \E f \in {extract_features(s.events)} :
       s' = [s EXCEPT !.at = "train", !.used = f.used, !.excluded = f.excluded,
               !.rows = impute_features(TrainOf(s.events), TestOf(s.events), Range(f.used))]

\* The train rows that have a label: their positions.
Kept == Positions(TrainOf(s.labels), LAMBDA g : g # "skip")
KeptX == At(s.rows.train, Kept)
KeptY == At(s.labels, Kept)
KeptResults == At(s.results, Kept)

TrainedOn(X, y, results) ==
  IF ~Trainable(X, y) THEN [s EXCEPT !.at = "failed"]
  ELSE [s EXCEPT !.at = "pullback",
                 !.classifiers = <<train_rule_based_classifier(s.env.rules, X, y, results), train_decision_tree(s.env.rules, X, y, results),
                                   train_random_forest(s.env.rules, X, y, results), train_logistic_regression(s.env.rules, X, y, results)>>]

Train == s.at = "train" /\ s' = TrainedOn(KeptX, KeptY, KeptResults)

\* The choice is reported only: every trade keeps the default pullback.
OptimisePullback ==
  /\ s.at = "pullback"
  /\ s' = [s EXCEPT !.at = "predict",
             !.pullback = optimize_pullback_params(
               At(s.events, Positions(TrainOf(s.labels), LAMBDA g : g = "pullback")), s.cache)]

Taken_train(predictions) == [i \in 1..Len(predictions) |-> find_delay_result(s.results[i], predictions[i])]
Taken(predictions) == [i \in 1..Len(predictions) |-> find_delay_result(s.results[s.split + i], predictions[i])]

\* The best learner is fitted once more and applied to both parts.
Answers(best, X, y) ==
  [train |-> predict_all(s.env.rules[<<best.name, best.depth>>], X, y, s.rows.train),
   test |-> predict_all(s.env.rules[<<best.name, best.depth>>], X, y, s.rows.test)]

Applied(a) ==
  [test |-> a.test, train |-> a.train, results |-> Taken(a.test),
   sum |-> compute_calendar_sum_from_results(Taken(a.test), TestOf(s.events)),
   right |-> Cardinality({i \in 1..Len(a.test) : a.test[i] = TestOf(s.labels)[i]}),
   base |-> TestOf(OfLabel(s.results, "D5")),
   base_sum |-> compute_calendar_sum_from_results(TestOf(OfLabel(s.results, "D5")), TestOf(s.events))]

Predict ==
  /\ s.at = "predict"
  /\ s' = [s EXCEPT !.at = "check", !.best = <<Best(s.classifiers)>>,
                    !.applied = <<Applied(Answers(Best(s.classifiers), KeptX, KeptY))>>]

\* A symbol's share of results and events.
Own(results, events, symbol) ==
  Figures(At(results, Positions(events, LAMBDA e : e.symbol = symbol)),
          SelectSeq(events, LAMBDA e : e.symbol = symbol))

SymbolFigures(symbol, a, events, D5, trained) ==
  [test |-> Own(a.results, TestOf(events), symbol), base |-> Own(a.base, TestOf(events), symbol),
   train |-> Own(trained, TrainOf(events), symbol), train_base |-> Own(TrainOf(D5), TrainOf(events), symbol)]

symbol_results(a) ==
  [x \in {"BTC", "ETH"} |->
     SymbolFigures(x, a, s.events, OfLabel(s.results, "D5"),
                   collect_results_from_predictions(a.train, TrainOf(s.results)))]

\* Drops are relative to the size of the train sum; none without one.
Drop(sum, to, percent) == 100 * (sum - to) > percent * Span(sum, 0)
overfitting_check(best, test) ==
  [overfitting |-> best.train # 0 /\ Drop(best.train, test, 50),
   loocv_degradation |-> best.train # 0 /\ 100 * Span(best.train, best.loocv) > 30 * Span(best.train, 0)]

Percent(seq, x) == IF seq = << >> THEN 0 ELSE (100 * Count(seq, x)) \div Len(seq)
regime_stability(trained, test) ==
  {g \in Range(Labels) \cup {"skip"} : Span(Percent(trained, g), Percent(test, g)) > 15}

Check ==
  /\ s.at = "check"
  /\ s' = [s EXCEPT !.at = "report", !.symbols = <<symbol_results(s.applied[1])>>,
             !.checks = <<overfitting_check(s.best[1], s.applied[1].sum)>>,
             !.shifted = regime_stability(TrainOf(s.labels), TestOf(s.labels)),
             !.statistics = <<feature_statistics(KeptX, KeptY)>>]

---------------------------------------------------------------------------
(* report_generator.py                                                     *)

determine_go_nogo(sum, base, checks) ==
  LET rules == << <<checks.overfitting \/ sum <= base, "No-Go">>,
                  <<200 * (sum - base) > START /\ ~checks.loocv_degradation, "Go">>,
                  <<TRUE, "Conditional Go">> >>
  IN rules[Min({i \in 1..3 : rules[i][1]})][2]

trades_row(i) ==
  LET r == s.applied[1].results[i]
  IN [id |-> r.id, touch |-> TestOf(s.events)[i].touch, predicted |-> s.applied[1].test[i],
      delay |-> r.delay, reason |-> r.reason, trade |-> r.trade]

Pnl(r) == IF r.trade = None THEN None ELSE <<r.trade.realistic>>
Delta(p, q) == IF p = None \/ q = None THEN None ELSE <<p[1] - q[1]>>

\* The test rows are numbered from one again, and so are all events: the
\* position found for the i-th test row is i.
attribution_row(i) ==
  LET r == s.applied[1].results[i]
      d5 == find_delay_result(s.results[i], "D5")
  IN [id |-> r.id, predicted |-> s.applied[1].test[i], optimal |-> s.labels[i], pnl |-> Pnl(r),
      base |-> Pnl(d5), delta |-> Delta(Pnl(r), Pnl(d5))]

Near(a, b) == 100 * Span(a, b) < START

summary(a, best, go) ==
  [go |-> go, best |-> best.name, sum |-> a.sum, improvement |-> a.sum - a.base_sum,
   ceiling_low |-> Near(s.oracle, s.baselines["D5"].calendar_sum),
   realization |-> IF s.oracle = 0 THEN 0 ELSE (100 * a.sum) \div s.oracle,
   baselines |-> s.baselines, pullback |-> s.pullback, used |-> s.used, excluded |-> s.excluded,
   checks |-> s.checks[1], shifted |-> s.shifted,
   not_superior |-> {x \in DOMAIN s.symbols[1] :
                       s.symbols[1][x].test.calendar_sum < s.symbols[1][x].base.calendar_sum}]

next_steps(go) ==
  CASE go = "Go" -> "adopt" [] go = "Conditional Go" -> "wait for more events" [] OTHER -> "keep D5"

\* The sections of the report: the labels and the ceiling, the learners and
\* the symbols, the checks and the decision.
report_labels(labels) ==
  [share |-> [g \in Range(Labels) \cup {"skip"} |-> Percent(labels, g)], oracle |-> s.oracle,
   warned |-> Near(s.oracle, s.baselines["D5"].calendar_sum)]

report_tables(best) ==
  [learners |-> [k \in 1..4 |-> [name |-> s.classifiers[k].name, loocv |-> s.classifiers[k].loocv,
                                 star |-> s.classifiers[k].name = best.name]],
   baselines |-> s.baselines, symbols |-> s.symbols[1]]

report_decision(a, go) ==
  [checks |-> s.checks[1], shifted |-> s.shifted, improvement |-> a.sum - a.base_sum, go |-> go,
   next |-> next_steps(go), pullback |-> s.pullback]

Rows(n, Row(_)) == [i \in 1..n |-> Row(i)]

report(a, best, go) ==
  [trades |-> Rows(Len(a.test), trades_row), attribution |-> Rows(Len(a.test), attribution_row),
   summary |-> summary(a, best, go), md |-> <<report_labels(s.labels), report_tables(best), report_decision(a, go)>>]

Outputs == {"trades.csv", "attribution.csv", "feature_importance.csv", "classifier_rules.md",
            "summary.json", "report.md", "delay_pnl_matrix.csv", "label_distribution.csv"}

generate_report ==
  /\ s.at = "report"
  /\ \E go \in {determine_go_nogo(s.applied[1].sum, s.applied[1].base_sum, s.checks[1])} :
       s' = [s EXCEPT !.at = "verify", !.best[1].test = s.applied[1].sum, !.files = Outputs,
                      !.report = <<report(s.applied[1], s.best[1], go)>>]

---------------------------------------------------------------------------
(* The verifications beside the study                                      *)

\* verify_point_in_time.py: a feature known only after the touch is used.
verify_point_in_time == {c \in Range(s.used) : c \in DOMAIN Timing /\ ~Timing[c]}

compute_price_improvement_bps(d5, pulled, side) == Dir(side) * (d5 - pulled)

Status(p) == IF p.bar = None THEN "no_data" ELSE IF p.triggered THEN "triggered" ELSE "fallback"
Waited(e, p) == p.bar[1].t - e.touch
Improved(p, d5, side) ==
  IF p.bar = None \/ d5.entry = None THEN None
  ELSE <<compute_price_improvement_bps(d5.entry[2], p.bar[1].c, side)>>

\* verify_pullback.py stops at an assertion when either outcome is missing.
PullbackVerdict(pulled) ==
  LET Of(status) == {i \in 1..Len(pulled) : Status(pulled[i]) = status}
      Late(i) == Waited(s.events[i], pulled[i]) > Step + PullbackWindow
      Short(i) == Span(Waited(s.events[i], pulled[i]), Step + PullbackWindow) > 1
      compared == {i \in 1..Len(pulled) :
                     Improved(pulled[i], find_delay_result(s.results[i], "D5"), s.events[i].side) # None}
  IN CASE Of("triggered") = {} \/ Of("fallback") = {} -> "assertion"
       [] (\E i \in Of("triggered") : Late(i)) \/ (\E i \in Of("fallback") : Short(i)) \/ compared = {} -> "failed"
       [] OTHER -> "passed"

verify_pullback(events, cache) ==
  PullbackVerdict([i \in 1..Len(events) |->
                     simulate_pullback_entry(events[i], Bars(cache, events[i]), 5, PullbackWindow)])

Verify ==
  /\ s.at = "verify"
  /\ s' = [s EXCEPT !.at = "determinism", !.leaks = verify_point_in_time,
                    !.pulled = verify_pullback(s.events, s.cache)]

\* verify_determinism.py: the outputs are set aside, the study runs again,
\* and what it wrote is compared; an equal copy is removed.
backup_outputs ==
  /\ s.at = "determinism" /\ s.backup = None /\ Outputs \subseteq s.files
  /\ s' = [s EXCEPT !.at = "load", !.backup = s.report]

compare_csv(a, b) == a.trades = b.trades /\ a.attribution = b.attribution
compare_json(a, b) == a.summary = b.summary
compare_md(a, b) == a.md = b.md
Same(a, b) == compare_csv(a, b) /\ compare_json(a, b) /\ compare_md(a, b)

compare_all ==
  /\ s.at = "determinism" /\ s.backup # None
  /\ \E same \in {Same(s.backup[1], s.report[1])} :
       s' = [s EXCEPT !.at = "end", !.same = same, !.backup = IF same THEN None ELSE @]

Init ==
  \E env \in Environments :
    s = [at |-> "matrix", env |-> env, matrix |-> None, events |-> << >>, split |-> 0, cache |-> << >>,
         results |-> << >>, baselines |-> << >>, labels |-> << >>, oracle |-> 0, used |-> << >>,
         excluded |-> << >>, rows |-> << >>, classifiers |-> << >>, pullback |-> << >>, best |-> None,
         applied |-> None, symbols |-> None, checks |-> None, shifted |-> {}, statistics |-> None,
         report |-> None, files |-> {}, leaks |-> {}, pulled |-> "", backup |-> None, same |-> FALSE]

Next ==
  \/ run_delay_simulation \/ Load \/ Simulate \/ Label \/ ExtractFeatures \/ Train \/ OptimisePullback
  \/ Predict \/ Check \/ generate_report \/ Verify \/ backup_outputs \/ compare_all
============================================================================
