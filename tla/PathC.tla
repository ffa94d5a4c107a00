-------------------------------- MODULE PathC --------------------------------
(***************************************************************************)
(* research/entry_redesign/scripts/path_c_unified: the pool of events is   *)
(* widened, every event of it is traded under every delay, and a tree of   *)
(* depth three learns whether to enter fast or slow.  The steps of main    *)
(* are the actions.                                                        *)
(*                                                                         *)
(* The learner, the resampling and the files of earlier studies belong to  *)
(* the environment: a resample or a permutation is a rotation, by a number *)
(* of places that the environment gives.                                   *)
(***************************************************************************)
EXTENDS DelayStudy

CONSTANTS CacheStart, CacheEnd,        \* the time the bars cover
          Target, Enough,              \* how many events a pool should have
          GoFloor, GoStrong, GoLower,  \* the bounds of the decision
          Drift,                       \* how far a repeated trade may differ
          Degraded,                    \* how much worse the new events may be
          Environments

VARIABLE s

Ids(events) == {events[i].id : i \in 1..Len(events)}
FirstOfId(acc, e) == IF e.id \in Ids(acc) THEN acc ELSE Append(acc, e)
drop_duplicates(events) == FoldLeft(FirstOfId, << >>, events)

\* The original events a pool lacks are appended.
With(pool, original) ==
  IF Ids(original) \subseteq Ids(pool) THEN pool
  ELSE drop_duplicates(pool \o Where(original, LAMBDA e : e.id \notin Ids(pool)))

---------------------------------------------------------------------------
(* gate_explorer.py                                                        *)

extract_v6_gate_entries(ledger, reasons) ==
  Where(ledger, LAMBDA r : r.type # "EXIT" /\ r.reason \in reasons)

\* Without a filter the reasons of every row are kept.
AnyReason(ledger) == {r.reason : r \in Range(ledger)}
InitialOnly == {"Zero-Initial-Reentry"}

filter_by_bars_cache_coverage(events) ==
  Where(events, LAMBDA e : CacheStart <= e.touch /\ e.touch <= CacheEnd)

compute_overlap(events, original) == Cardinality(Ids(events) \cap Ids(original))

compute_stats(events) ==
  [symbols |-> [x \in {e.symbol : e \in Range(events)} |-> Len(SelectSeq(events, LAMBDA e : e.symbol = x))],
   sides |-> [x \in {e.side : e \in Range(events)} |-> Len(SelectSeq(events, LAMBDA e : e.side = x))],
   range |-> IF events = << >> THEN None ELSE <<Min({e.touch : e \in Range(events)}), Max({e.touch : e \in Range(events)})>>]

Explored(dimension, events, original) ==
  [dimension |-> dimension, n |-> Len(events), overlap |-> compute_overlap(events, original),
   stats |-> compute_stats(events), sufficient |-> Len(events) >= Enough]

Relaxed(env) ==
  filter_by_bars_cache_coverage(match_events(extract_v6_gate_entries(env.ledger, AnyReason(env.ledger)), env.events))

explore_dimension_a(env, original) == Explored("entry_reason", Relaxed(env), original)

\* Two ledgers; an entry is known by its symbol, time and side.
SameEntry(a, b) == a.symbol = b.symbol /\ a.time = b.time /\ a.side = b.side
Combined(entries) ==
  FoldLeft(LAMBDA acc, r : IF \E k \in 1..Len(acc) : SameEntry(acc[k], r) THEN acc ELSE Append(acc, r),
           << >>, entries)

explore_dimension_b(env, original) ==
  Explored("lifecycle_ledger",
           filter_by_bars_cache_coverage(
             match_events(Combined(extract_v6_gate_entries(env.ledger, InitialOnly)
                                   \o extract_v6_gate_entries(env.observed, InitialOnly)), env.events)),
           original)

explore_dimension_c(env, original) ==
  Explored("direct_events", filter_by_bars_cache_coverage(env.events), original)

\* The file may be missing.
explore_dimension_d(env, original) ==
  Explored("time_range", IF env.t3 = None THEN << >> ELSE filter_by_bars_cache_coverage(env.t3[1]), original)

\* All events within the range if they hold every original one, or if there
\* are any; the relaxed entries never come first.
select_best_strategy(a, c, original, env) ==
  LET Full(d) == d.overlap = Len(original)
      direct == filter_by_bars_cache_coverage(env.events)
      rules == << <<c.n >= Target /\ Full(c), [name |-> "direct", events |-> direct]>>,
                  <<a.n >= Target /\ Full(a), [name |-> "entry_reason", events |-> Relaxed(env)]>>,
                  <<Full(c), [name |-> "largest", events |-> direct]>>,
                  <<c.n > 0, [name |-> "fallback", events |-> With(direct, original)]>>,
                  <<TRUE, [name |-> "original", events |-> original]>> >>
  IN rules[Min({i \in 1..5 : rules[i][1]})][2]

\* gate_exploration_report.md
generate_report_md(report) ==
  [insufficient |-> {d.dimension : d \in {report.dimensions[k] : k \in {j \in 1..4 : ~report.dimensions[j].sufficient}}},
   unmet |-> ~report.target_met, n |-> report.n, strategy |-> report.strategy]

GateReport(dimensions, chosen, original) ==
  [dimensions |-> dimensions, strategy |-> chosen.name, n |-> Len(With(chosen.events, original)),
   target_met |-> Len(With(chosen.events, original)) >= Target]

GateReportOf(dimensions, original, env) ==
  GateReport(dimensions, select_best_strategy(dimensions[1], dimensions[3], original, env), original)

explore_gate_relaxation(original, env) ==
  GateReportOf(<<explore_dimension_a(env, original), explore_dimension_b(env, original),
                 explore_dimension_c(env, original), explore_dimension_d(env, original)>>, original, env)

---------------------------------------------------------------------------
(* expanded_data_layer.py                                                  *)

\* The chosen strategy is not asked: the pool is computed again.
load_expanded_events_only(original, events) == filter_by_bars_cache_coverage(events)
load_expanded_events(original, events) == With(filter_by_bars_cache_coverage(events), original)

\* A file of bars may be missing; its months stay out of the cache.
load_monthly_bars(files, key) == IF key \in DOMAIN files THEN files[key] ELSE << >>
load_expanded_bars_cache(events, files) ==
  LET keys == {k \in {Key(e) : e \in Range(events)} : load_monthly_bars(files, k) # << >>}
  IN [k \in keys |-> load_monthly_bars(files, k)]

---------------------------------------------------------------------------
(* delay_simulation_runner.py                                              *)

make_empty_delay_results(e) == [i \in 1..Len(Labels) |-> DelayResult(e, Labels[i], None, "NoData", None)]

build_matrix(events, results) ==
  {[id |-> r.id, label |-> r.label, trade |-> r.trade] : r \in UNION {Range(results[i]) : i \in 1..Len(events)}}

Simulated(events, cache) ==
  [i \in 1..Len(events) |->
     IF Bars(cache, events[i]) = << >> THEN make_empty_delay_results(events[i])
     ELSE simulate_all_delays(events[i], Bars(cache, events[i]))]

per_delay_traded_rate(results) ==
  [d \in Range(Labels) |->
     IF results = << >> THEN 0
     ELSE (100 * Len(SelectSeq(results, LAMBDA r : find_delay_result(r, d).trade # None))) \div Len(results)]

\* The trades both matrices know; none is no drift.
run_drift_check(matrix, old) ==
  LET both == {p \in matrix \X old : p[1].id = p[2].id /\ p[1].label = p[2].label
                                      /\ p[1].trade # None /\ p[2].trade # None}
  IN [n |-> Cardinality(both),
      warning |-> \E p \in both : Span(p[1].trade.realistic, p[2].trade.realistic) > Drift]

SimulationStats(events, cache, results, old) ==
  [total |-> Len(events), skipped |-> Len(SelectSeq(events, LAMBDA e : Bars(cache, e) = << >>)),
   rate |-> per_delay_traded_rate(results),
   drift |-> IF old = None THEN None ELSE <<run_drift_check(build_matrix(events, results), old[1])>>]

---------------------------------------------------------------------------
(* label_generator.py                                                      *)

compute_distribution(labels) == [g \in {"fast", "slow", "skip"} |-> Count(labels, g)]
compute_pct(labels) == [g \in {"fast", "slow", "skip"} |-> Share(labels, g)]

\* The results of an event, the last of its id.
ResultsOf(results, id) ==
  LET same == {i \in 1..Len(results) : results[i][1].id = id}
  IN IF same = {} THEN None ELSE <<results[Max(same)]>>

RelabelledOf(events, results) ==
  generate_3regime_labels([i \in 1..Len(events) |-> ResultsOf(results, events[i].id)[1]])

Halves(sorted, n) == [train |-> SubSeq(sorted, 1, n), test |-> SubSeq(sorted, n + 1, Len(sorted))]

Labelled(events, labels) == [i \in 1..Len(events) |-> [event |-> events[i], label |-> labels[i]]]
InTime(labelled) == SortSeq(labelled, LAMBDA a, b : a.event.touch < b.event.touch)
EventsOf(labelled) == [i \in 1..Len(labelled) |-> labelled[i].event]
LabelsOf(labelled) == [i \in 1..Len(labelled) |-> labelled[i].label]

LabelStats(train, test, all, original) ==
  [train |-> compute_distribution(train), test |-> compute_distribution(test),
   train_pct |-> compute_pct(train), test_pct |-> compute_pct(test),
   shift |-> Apart(all, original, "skip", 10)]

generate_labels_and_split(events, results) ==
  LET sorted == InTime(Labelled(events, generate_3regime_labels(results)))
  IN Halves(sorted, (6 * Len(sorted)) \div 10)

---------------------------------------------------------------------------
(* classifier_trainer.py                                                   *)

resolve_3regime_predictions(predictions, results) ==
  [i \in 1..Len(predictions) |-> resolve_single_3regime_prediction(predictions[i], results[i])]

\* In the order of the events.
extract_delay_results_by_ids(results, events) ==
  [i \in 1..Len(events) |->
     IF ResultsOf(results, events[i].id) = None THEN make_empty_delay_results(events[i])
     ELSE ResultsOf(results, events[i].id)[1]]

compute_calendar_sum_silo(results) == compute_calendar_sum(results)

\* What a tree of this depth answers, fitted to (X, y).
TreeAnswers(depth, X, y, rows) ==
  [i \in 1..Len(rows) |->
     CASE s.env.trees[depth] = "majority" ->
            (IF Count(y, "slow") > Count(y, "fast") THEN "slow" ELSE "fast")
       [] s.env.trees[depth] = "nearest" -> Nearest1(X, y, rows[i])
       [] OTHER -> y[1]]

loocv_calendar_sum_3regime(depth, X, y, results) ==
  compute_calendar_sum_silo(resolve_3regime_predictions(
    [i \in 1..Len(y) |-> TreeAnswers(depth, RemoveAt(X, i), RemoveAt(y, i), <<X[i]>>)[1]], results))

Fittable(X, y) == Len(y) > 1 /\ NoHole(X)

\* The rows that are not to be skipped.
Entered(labels) == Positions(labels, LAMBDA g : g # "skip")

TrainingResult(X, y, rows, results, test_results) ==
  [loocv |-> loocv_calendar_sum_3regime(3, X, y, results),
   train |-> compute_calendar_sum_silo(resolve_3regime_predictions(TreeAnswers(3, X, y, X), results)),
   predictions |-> TreeAnswers(3, X, y, rows),
   test |-> compute_calendar_sum_silo(resolve_3regime_predictions(TreeAnswers(3, X, y, rows), test_results)),
   right |-> Cardinality({i \in 1..Len(y) : TreeAnswers(3, X, y, X)[i] = y[i]}), text |-> s.env.text]

train_and_evaluate(rows, kept, labels, train_results, test_results) ==
  TrainingResult(At(rows.train, kept), At(labels, kept), rows.test, At(train_results, kept), test_results)

\* The rules of a tree: each a sequence of conditions <<feature, op>>.  The
\* first condition is the root; a child is the second one behind it.
Opposite(op) == IF op = "<=" THEN ">" ELSE "<="
Child(rules, feature, op) ==
  LET behind == SelectSeq(rules, LAMBDA r : Len(r) >= 2 /\ r[1] = <<feature, op>>)
  IN IF behind = << >> THEN << >> ELSE <<Head(behind)[2]>>

extract_split_nodes(text) ==
  LET rules == SelectSeq(text, LAMBDA r : r # << >>)
  IN IF rules = << >> THEN << >>
     ELSE <<rules[1][1]>> \o Child(rules, rules[1][1][1], rules[1][1][2])
                          \o Child(rules, rules[1][1][1], Opposite(rules[1][1][2]))

NodeAt(nodes, i) == IF i <= Len(nodes) THEN <<nodes[i]>> ELSE None

Compared(new, old) ==
  LET n == Min({3, Max({Len(new), Len(old)})})
      score == 100 - 25 * Cardinality({i \in 1..n : NodeAt(new, i) # NodeAt(old, i)})
  IN [score |-> score, unstable |-> score < 50]

compare_rules(text, original) == Compared(extract_split_nodes(text), extract_split_nodes(original))

\* The rules of the earlier study were never stored: no rule is read.
load_original_a2_rule_text == << >>

compare_depths(X, y, results) ==
  LET score == [d \in 2..5 |-> loocv_calendar_sum_3regime(d, X, y, results)]
  IN [by_depth |-> score, best |-> Min({d \in 2..5 : \A x \in 2..5 : score[x] <= score[d]})]

---------------------------------------------------------------------------
(* robustness.py                                                           *)

Rotated(seq, k) == [i \in 1..Len(seq) |-> seq[((i + k - 1) % Len(seq)) + 1]]
resampled_calendar_sum(results) == compute_calendar_sum(results)

BootstrapResult(values) ==
  [mean |-> SumOf(values, LAMBDA v : v) \div Len(values), lower |-> percentile(values, 5),
   upper |-> percentile(values, 95)]

bootstrap_calendar_sum(results, draws) ==
  IF results = << >> THEN [mean |-> 0, lower |-> 0, upper |-> 0]
  ELSE BootstrapResult(SortSeq([k \in 1..Len(draws) |-> resampled_calendar_sum(Resample(results, draws[k]))],
                               LAMBDA a, b : a < b))

per_symbol_bootstrap(results, draws) ==
  [x \in {infer_symbol_from_event_id(r.id) : r \in Range(results)} |->
     bootstrap_calendar_sum(SelectSeq(results, LAMBDA r : infer_symbol_from_event_id(r.id) = x), draws)]

check_label_distribution_shift(train, test) ==
  /\ train # << >> /\ test # << >>
  /\ \E g \in {"skip", "fast", "slow"} : Apart(train, test, g, 15)

Earned(results) == [i \in 1..Len(results) |-> IF results[i].trade = None THEN 0 ELSE results[i].trade.realistic]
Total(pnls) == SumOf(pnls, LAMBDA v : v)

\* The difference of two means, times both lengths.
Gap(a, b) == Total(a) * Len(b) - Total(b) * Len(a)

\* In percent.
bootstrap_mean_diff_pvalue(a, b, draws) ==
  IF a = << >> \/ b = << >> THEN 100
  ELSE LET Of(k) == Rotated(a \o b, k)
           extreme == {k \in 1..Len(draws) :
                         Span(Gap(SubSeq(Of(draws[k]), 1, Len(a)), SubSeq(Of(draws[k]), Len(a) + 1, Len(a) + Len(b))), 0)
                           >= Span(Gap(a, b), 0)}
       IN (100 * Cardinality(extreme)) \div Len(draws)

Worse(a, b, by) == IF a = << >> \/ b = << >>
                   THEN (IF a = << >> THEN -Total(b) > by * Len(b) ELSE Total(a) > by * Len(a))
                   ELSE Gap(a, b) > by * Len(a) * Len(b)

GateQuality(a, b, draws) ==
  [p |-> bootstrap_mean_diff_pvalue(a, b, draws),
   degradation |-> bootstrap_mean_diff_pvalue(a, b, draws) < 5 /\ Worse(a, b, Degraded)]

gate_quality_check(results, original, draws) ==
  GateQuality(Earned(SelectSeq(results, LAMBDA r : r.id \in original)),
              Earned(SelectSeq(results, LAMBDA r : r.id \notin original)), draws)

run_robustness_checks(results, training, train, test, original, draws) ==
  [overall |-> bootstrap_calendar_sum(results, draws), symbols |-> per_symbol_bootstrap(results, draws),
   overfitting |-> 2 * training.test < training.train,
   loocv_degradation |-> check_loocv_degradation(training.loocv, training.train),
   label_shift |-> check_label_distribution_shift(train, test),
   gate |-> gate_quality_check(results, original, draws),
   small_sample |-> Len(train) + Len(test) < Target]

---------------------------------------------------------------------------
(* report_generator.py                                                     *)

determine_go_nogo(sum, overfitting, lower) ==
  LET rules == << <<sum <= GoFloor, "No-Go">>,
                  <<sum > GoStrong /\ ~overfitting /\ lower > GoLower, "Strong Go">>,
                  <<TRUE, "Marginal Go">> >>
  IN rules[Min({i \in 1..3 : rules[i][1]})][2]

Width(b) == b.upper - b.lower

validate_hypotheses(training, checks, comparison) ==
  [sample_stability |-> training.test > GoFloor /\ Width(checks.overall) < 3 * (START \div 100),
   gate_quality |-> ~checks.gate.degradation, rule_convergence |-> comparison.score >= 50]

build_comparison_table(training, checks, history) ==
  <<history.baseline, history.refinement, [sum |-> training.test, lower |-> checks.overall.lower, upper |-> checks.overall.upper]>>

generate_main_report(go, history) ==
  [go |-> go, gate |-> generate_report_md(s.gate[1]), simulation |-> s.stats[1], labels |-> s.label_stats[1],
   table |-> build_comparison_table(s.training[1], s.checks[1], history), depth |-> s.depths[1],
   hypotheses |-> validate_hypotheses(s.training[1], s.checks[1], s.comparison[1])]

summary_flags ==
  {f \in {"small_sample_warning", "overfitting_flag", "loocv_degradation_flag", "label_distribution_shift",
          "gate_quality_degradation", "rule_instability_warning", "expansion_target_met"} :
   [small_sample_warning |-> s.checks[1].small_sample, overfitting_flag |-> s.checks[1].overfitting,
    loocv_degradation_flag |-> s.checks[1].loocv_degradation, label_distribution_shift |-> s.checks[1].label_shift,
    gate_quality_degradation |-> s.checks[1].gate.degradation,
    rule_instability_warning |-> s.comparison[1].unstable, expansion_target_met |-> s.gate[1].target_met][f]}

generate_summary_json(go, history) ==
  [go |-> go, total |-> s.gate[1].n, train |-> Len(s.train), test |-> Len(s.test), sum |-> s.training[1].test,
   flags |-> summary_flags, history |-> history, depth |-> s.depths[1].best, stability |-> s.comparison[1].score]

\* The last row claims every original event, whatever their number.
generate_events_stats_csv(report) ==
  [k \in 1..4 |-> <<report.dimensions[k].dimension, report.dimensions[k].n, report.dimensions[k].overlap,
                    report.dimensions[k].sufficient>>]
  \o << <<"FINAL", report.n, 116, report.target_met>> >>

generate_rule_comparison_md(comparison, depths) ==
  [score |-> comparison.score, unstable |-> comparison.unstable, best |-> depths.best, kept |-> depths.best = 3]

generate_trades_csv(training) == [i \in 1..Len(training.predictions) |-> <<i - 1, training.predictions[i]>>]

generate_bootstrap_json(checks) == [overall |-> checks.overall, symbols |-> checks.symbols, gate |-> checks.gate]

generate_report(go, history) ==
  [main |-> generate_main_report(go, history), summary |-> generate_summary_json(go, history),
   stats |-> generate_events_stats_csv(s.gate[1]),
   rules |-> generate_rule_comparison_md(s.comparison[1], s.depths[1]),
   trades |-> generate_trades_csv(s.training[1]), bootstrap |-> generate_bootstrap_json(s.checks[1])]

---------------------------------------------------------------------------
(* path_c_runner.py                                                        *)

\* A file that is missing or cannot be read leaves the defaults.
Defaults == [baseline |-> [sum |-> 2980, lower |-> 1160, upper |-> 4730],
             refinement |-> [sum |-> 3390, lower |-> 1600, upper |-> 5180]]
load_historical_results(found) ==
  [k \in {"baseline", "refinement"} |-> IF found[k] = None THEN Defaults[k] ELSE found[k][1]]

LoadOriginal ==
  /\ s.at = "original"
  /\ s' = [s EXCEPT !.at = "gate", !.original = ByTouch(load_v6_gate_events(s.env.ledger, s.env.events))]

ExploreGate ==
  /\ s.at = "gate"
  /\ s' = [s EXCEPT !.at = "expand", !.gate = <<explore_gate_relaxation(s.original, s.env)>>]

LoadExpanded ==
  /\ s.at = "expand"
  /\ \E pool \in {load_expanded_events(s.original, s.env.events)} :
       s' = [s EXCEPT !.at = "simulate", !.events = pool, !.cache = load_expanded_bars_cache(pool, s.env.files)]

\* An event is listed as skipped when its first delay has no data.
run_multi_delay_simulation ==
  /\ s.at = "simulate"
  /\ \E results \in {Simulated(s.events, s.cache)} :
       s' = [s EXCEPT !.at = "label", !.results = results,
               !.stats = <<SimulationStats(s.events, s.cache, results, s.env.matrix)>>,
               !.skipped = IF \A i \in 1..Len(s.events) : Bars(s.cache, s.events[i]) # << >> THEN {}
                           ELSE {r[1].id : r \in {x \in Range(results) : x[1].reason = "NoData"}}]

Label ==
  /\ s.at = "label"
  /\ \E parts \in {generate_labels_and_split(s.events, s.results)} :
       s' = [s EXCEPT !.at = "train", !.train = EventsOf(parts.train), !.test = EventsOf(parts.test),
               !.train_labels = LabelsOf(parts.train), !.test_labels = LabelsOf(parts.test),
               !.label_stats = <<LabelStats(LabelsOf(parts.train), LabelsOf(parts.test),
                                            generate_3regime_labels(s.results), RelabelledOf(s.original, s.results))>>]

Rows(other) == impute_features(s.train, other, Range(extract_features(s.train).used))

TrainedOn(rows, kept) ==
  IF ~Fittable(At(rows.train, kept), At(s.train_labels, kept)) \/ ~NoHole(rows.test) THEN [s EXCEPT !.at = "failed"]
  ELSE [s EXCEPT !.at = "compare",
                 !.training = <<train_and_evaluate(rows, kept, s.train_labels,
                                                   extract_delay_results_by_ids(s.results, s.train),
                                                   extract_delay_results_by_ids(s.results, s.test))>>]

Train == /\ s.at = "train"
         /\ s' = IF s.train = << >> THEN [s EXCEPT !.at = "failed"] ELSE TrainedOn(Rows(s.test), Entered(s.train_labels))

\* The features are made again, with the train rows in the place of the test.
Compare ==
  /\ s.at = "compare"
  /\ \E rows \in {Rows(s.train)}, kept \in {Entered(s.train_labels)} :
       s' = [s EXCEPT !.at = "robust", !.comparison = <<compare_rules(s.training[1].text, load_original_a2_rule_text)>>,
               !.depths = <<compare_depths(At(rows.train, kept), At(s.train_labels, kept),
                                           At(extract_delay_results_by_ids(s.results, s.train), kept))>>]

Check ==
  /\ s.at = "robust"
  /\ \E resolved \in {resolve_3regime_predictions(s.training[1].predictions,
                                                  extract_delay_results_by_ids(s.results, s.test))} :
       s' = [s EXCEPT !.at = "report", !.resolved = resolved,
               !.checks = <<run_robustness_checks(resolved, s.training[1], s.train_labels, s.test_labels,
                                                  Ids(s.original), s.env.draws)>>]

Report ==
  /\ s.at = "report"
  /\ \E go \in {determine_go_nogo(s.training[1].test, s.checks[1].overfitting, s.checks[1].overall.lower)} :
       s' = [s EXCEPT !.at = "end", !.report = <<generate_report(go, load_historical_results(s.env.history))>>]

Init ==
  \E env \in Environments :
    s = [at |-> "original", env |-> env, original |-> << >>, gate |-> None, events |-> << >>, cache |-> << >>,
         results |-> << >>, stats |-> None, skipped |-> {}, train |-> << >>, test |-> << >>,
         train_labels |-> << >>, test_labels |-> << >>, label_stats |-> None, training |-> None,
         comparison |-> None, depths |-> None, resolved |-> << >>, checks |-> None, report |-> None]

Next ==
  \/ LoadOriginal \/ ExploreGate \/ LoadExpanded \/ run_multi_delay_simulation \/ Label \/ Train
  \/ Compare \/ Check \/ Report
============================================================================
