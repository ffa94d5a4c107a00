----------------------------- MODULE Refinement -----------------------------
(***************************************************************************)
(* research/entry_redesign/scripts/pretouch_refinement: more features,     *)
(* fewer classes, or both.  Five arms are compared with the earlier study, *)
(* the best one is taken apart and checked.  The steps of main are the     *)
(* actions.                                                                *)
(*                                                                         *)
(* The matrix of delays and the summary of the earlier study are files: a  *)
(* row of the matrix is one result of DelayStudy.                          *)
(***************************************************************************)
EXTENDS Learners, EnhancedFeatures

CONSTANTS ExpectedRows,         \* the length the matrix must have
          Strong, Marginal,     \* the bounds of the decision
          Environments

VARIABLE s

Ids(events) == {events[i].id : i \in 1..Len(events)}
Percent(hundredths) == (hundredths * START) \div 10000

---------------------------------------------------------------------------
(* regime_labels.py                                                        *)

\* A file that is missing or has another shape is refused.
load_delay_pnl_matrix(file) == file # None /\ Len(file[1]) = ExpectedRows

\* A row that was filled but not traded has no number: neither has its sum.
DelaySum(rows) ==
  IF \E i \in 1..Len(rows) : rows[i].entry # None /\ rows[i].trade = None THEN None
  ELSE Some(SumOver(Traded(rows), LAMBDA r : r.id[1]))

\* The first delay no later one exceeds; nothing exceeds what is no number.
Exceeds(a, b) == a # None /\ b # None /\ a[1] > b[1]
FirstMax(sums) ==
  FoldLeft(LAMBDA best, d : IF Exceeds(sums[d], sums[best]) THEN d ELSE best, "D0", Delays)

best_global_delay(matrix, ids) ==
  FirstMax([d \in Range(Delays) |-> DelaySum(SelectSeq(matrix, LAMBDA r : r.id \in ids /\ r.label = d))])

Earns(matrix, id, delay) ==
  LET rows == SelectSeq(matrix, LAMBDA r : r.id = id /\ r.label = delay)
  IN rows # << >> /\ Last(rows).trade # None /\ Last(rows).trade.realistic > 0

generate_2regime_labels(matrix, events, delay) ==
  [i \in 1..Len(events) |-> IF Earns(matrix, events[i].id, delay) THEN "enter" ELSE "skip"]

compute_label_distributions(labels, early, late) ==
  [counts |-> [schema \in DOMAIN labels |->
                 [part \in {"train", "test"} |->
                    LET own == At(labels[schema], IF part = "train" THEN early ELSE late)
                    IN [g \in Range(own) |-> Count(own, g)]]],
   imbalanced |-> LET own == At(labels[2], early)
                  IN own # << >> /\ (10 * Count(own, "enter") < 4 * Len(own) \/ 10 * Count(own, "enter") > 9 * Len(own))]

---------------------------------------------------------------------------
(* arm_runner.py                                                           *)

Arm(name, enhanced, schema) == [name |-> name, enhanced |-> enhanced, schema |-> schema]
ARM_CONFIGS ==
  <<Arm("Baseline", FALSE, 5), Arm("A1", TRUE, 5), Arm("A2", FALSE, 3), Arm("A3", FALSE, 2),
    Arm("A4", TRUE, 3), Arm("A5", TRUE, 2)>>

RowOf(matrix, id, label) == Where(matrix, LAMBDA r : r.id = id /\ r.label = label)

\* Every event has a row of every label, and there are no other rows.
Rebuildable(matrix, events) ==
  /\ \A i \in 1..Len(events), k \in 1..Len(Labels) : RowOf(matrix, events[i].id, Labels[k]) # << >>
  /\ Len(events) * Len(Labels) = Len(matrix)

rebuild_delay_results_from_matrix(matrix, events) ==
  [i \in 1..Len(events) |-> [k \in 1..Len(Labels) |-> Head(RowOf(matrix, events[i].id, Labels[k]))]]

\* The delay the labels were made for is not handed over.
resolve_2regime_prediction(label, results) ==
  IF label = "skip" THEN NoTrade(results[1].id, "skip", "Skip") ELSE find_delay_result(results, "D0")

Resolved(schema, label, results) ==
  CASE schema = 3 -> resolve_single_3regime_prediction(label, results)
    [] schema = 2 -> resolve_2regime_prediction(label, results)
    [] OTHER -> find_delay_result(results, label)

ResolvedAll(schema, predictions, results) ==
  [i \in 1..Len(predictions) |-> Resolved(schema, predictions[i], results[i])]

compute_calendar_sum_silo(results) == compute_calendar_sum(results)

\* The rows of an arm: a row of the original features, and one of the others.
Wide(a, b) == [c \in DOMAIN a \cup DOMAIN b |-> IF c \in DOMAIN a THEN a[c] ELSE b[c]]
RowsOf(config, part) ==
  IF config.enhanced THEN [i \in 1..Len(s.original[part]) |-> Wide(s.original[part][i], s.enhanced[1][part][i])]
  ELSE s.original[part]

select_labels_for_arm(config) == At(s.labels[config.schema], s.train_at)

\* Two classes keep the rows to skip, they are one of the classes.
KeptRows(config) ==
  Positions(select_labels_for_arm(config), LAMBDA g : config.schema = 2 \/ g # "skip")

Data(config) ==
  [X |-> At(RowsOf(config, "train"), KeptRows(config)), y |-> At(select_labels_for_arm(config), KeptRows(config)),
   results |-> At(At(s.results, s.train_at), KeptRows(config)), test |-> RowsOf(config, "test")]

\* The learner is fitted again to the rows it was chosen on.
Predicted(best, d) == predict_all(s.env.rules[<<best.name, best.depth>>], d.X, d.y, d.test)

evaluate_best_on_test(best, d, config) ==
  compute_calendar_sum(ResolvedAll(config.schema, Predicted(best, d), At(s.results, s.test_at)))

Rate(sum, oracle) == IF oracle = 0 THEN 0 ELSE (100 * sum) \div oracle

ArmResult(config, classifiers, best, test) ==
  [config |-> config, classifiers |-> classifiers, best |-> [best EXCEPT !.test = test], test |-> test,
   rate |-> Rate(test, s.env.legacy[1].oracle)]

Judged(config, d, classifiers) ==
  ArmResult(config, classifiers, Best(classifiers), evaluate_best_on_test(Best(classifiers), d, config))

\* The scores of the learners match labels with delays, in every arm.
ArmOn(config, d) ==
  Judged(config, d, <<train_rule_based_classifier(s.env.rules, d.X, d.y, d.results),
                      train_decision_tree(s.env.rules, d.X, d.y, d.results),
                      train_random_forest(s.env.rules, d.X, d.y, d.results),
                      train_logistic_regression(s.env.rules, d.X, d.y, d.results)>>)

run_single_arm(config) == ArmOn(config, Data(config))

\* From the summary of the earlier study.
build_baseline_arm_result(config, legacy) ==
  ArmResult(config, legacy.classifiers, legacy.best, legacy.best.test)

ArmRuns(config) ==
  config.name = "Baseline" \/ ((config.enhanced => s.enhanced # None) /\ Trainable(Data(config).X, Data(config).y)
                               /\ NoHole(Data(config).test))

run_all_arms ==
  [k \in 1..Len(ARM_CONFIGS) |->
     IF k = 1 THEN build_baseline_arm_result(ARM_CONFIGS[1], s.env.legacy[1]) ELSE run_single_arm(ARM_CONFIGS[k])]

BestArm(arms) == arms[Min({k \in 1..Len(arms) : \A j \in 1..Len(arms) : arms[j].test <= arms[k].test})]

generate_arm_comparison_csv(arms) ==
  {<<a.config.name, a.classifiers[k].name, a.classifiers[k].loocv, a.classifiers[k].test>> :
     a \in Range(arms), k \in 1..4}

---------------------------------------------------------------------------
(* ablation.py                                                             *)

find_best_in_group(results, delays) == Hindsight(results, "group", delays)

Selected(schema, delay, label, results) ==
  CASE label = "skip" -> NoTrade(results[1].id, "skip", "Skip")
    [] schema = 5 -> find_delay_result(results, label)
    [] schema = 2 -> find_delay_result(results, delay)
    [] OTHER -> find_best_in_group(results, IF label = "fast" THEN Fast ELSE Slow)

compute_test_calendar_sum(predictions, results, schema, delay) ==
  compute_calendar_sum_silo([i \in 1..Len(predictions) |-> Selected(schema, delay, predictions[i], results[i])])

compute_loocv_calendar_sum(rule, X, y, results) == loocv_calendar_sum_inline(rule, X, y, results)

Dropped(row, columns) == [c \in DOMAIN row \ columns |-> row[c]]
DroppedAll(rows, columns) == [i \in 1..Len(rows) |-> Dropped(rows[i], columns)]

bootstrap_delta_ci(predictions, results, schema, delay, base) ==
  LET deltas == SortSeq([k \in 1..Len(s.env.draws) |->
                           compute_test_calendar_sum(Resample(predictions, s.env.draws[k]),
                                                     Resample(results, s.env.draws[k]), schema, delay) - base],
                        LAMBDA a, b : a < b)
  IN <<percentile(deltas, 5), percentile(deltas, 95)>>

AblationResult(group, removed, test, loocv, delta, ci) ==
  [group |-> group, removed |-> removed, test |-> test, loocv |-> loocv, rate |-> Rate(test, s.env.legacy[1].oracle),
   delta |-> delta, high |-> delta < -Percent(30), negative |-> delta >= 0, ci |-> ci]

Ablated(group, columns, predictions, loocv, schema, delay, base) ==
  LET sum == compute_test_calendar_sum(predictions, At(s.results, s.test_at), schema, delay)
  IN AblationResult(group, columns, sum, loocv, sum - base,
                    bootstrap_delta_ci(predictions, At(s.results, s.test_at), schema, delay, base))

AblatedGroup(g, best, d, rule) ==
  LET columns == Range(Groups[g][2]) \cap DOMAIN d.test[1]
      X == DroppedAll(d.X, columns)
  IN IF columns = {} THEN AblationResult(Groups[g][1], Range(Groups[g][2]), best.test, 0, 0, <<0, 0>>)
     ELSE Ablated(Groups[g][1], columns, predict_all(rule, X, d.y, DroppedAll(d.test, columns)),
                  compute_loocv_calendar_sum(rule, X, d.y, d.results), best.config.schema,
                  s.best_global_delay, best.test)

\* Rows to skip are left out here with two classes too: one class is left.
AblationData(config) ==
  LET kept == Positions(select_labels_for_arm(config), LAMBDA g : g # "skip")
  IN [X |-> At(RowsOf(config, "train"), kept), y |-> At(select_labels_for_arm(config), kept),
      results |-> At(At(s.results, s.train_at), kept), test |-> RowsOf(config, "test")]

build_classifier(best) == s.env.rules[<<best.name, best.depth>>]

Ablates(best, d) ==
  Fits(best.best.name, d.X, d.y)
  /\ \A i \in 1..Len(d.y) : Fits(best.best.name, RemoveAt(d.X, i), RemoveAt(d.y, i))

run_ablation(best, d) ==
  [g \in 1..Len(Groups) |-> AblatedGroup(g, best, d, build_classifier(best.best))]

is_significant(r) == ~(r.ci[1] <= 0 /\ 0 <= r.ci[2])

generate_ablation_report(results) ==
  [high |-> SelectSeq(results, LAMBDA r : r.high), keep |-> {r.group : r \in {x \in Range(results) : ~x.negative}},
   exclude |-> {r.group : r \in {x \in Range(results) : x.negative}},
   significant |-> {r.group : r \in {x \in Range(results) : is_significant(x)}}]

---------------------------------------------------------------------------
(* refinement_runner.py                                                    *)

Load ==
  /\ s.at = "load"
  /\ \E events \in {load_v6_gate_events(s.env.ledger, s.env.events)} :
       s' = IF ~load_delay_pnl_matrix(s.env.matrix) \/ s.env.legacy = None
                \/ ~Rebuildable(s.env.matrix[1], events) THEN [s EXCEPT !.at = "failed"]
            ELSE [s EXCEPT !.at = "label", !.events = events, !.cache = load_bars_cache(events, s.env.files),
                    !.test = time_split_events(events).test,
                    !.train_at = Positions(events, LAMBDA e : e.id \in Ids(time_split_events(events).train)),
                    !.test_at = Positions(events, LAMBDA e : e.id \in Ids(time_split_events(events).test)),
                    !.results = rebuild_delay_results_from_matrix(s.env.matrix[1], events)]

LabelsFor(delay) ==
  [schema \in {2, 3, 5} |->
     CASE schema = 5 -> compute_optimal_labels(s.results) [] schema = 3 -> generate_3regime_labels(s.results)
       [] OTHER -> generate_2regime_labels(s.env.matrix[1], s.events, delay)]

Label ==
  /\ s.at = "label"
  /\ \E delay \in {best_global_delay(s.env.matrix[1], Ids(At(s.events, s.train_at)))} :
     \E labels \in {LabelsFor(delay)} :
       s' = [s EXCEPT !.at = "features", !.labels = labels, !.best_global_delay = delay,
                      !.distribution = <<compute_label_distributions(labels, s.train_at, s.test_at)>>]

\* Sessions become numbers.
Encoding == [none |-> 0, asia_europe |-> 1, europe_us |-> 2, us_asia |-> 3]
Encoded(row) == [row EXCEPT !.session_overlap = IF @ = None THEN None ELSE Some(Encoding[@[1]])]
AsEvents(rows) == [i \in 1..Len(rows) |-> [features |-> Encoded(rows[i])]]

EnhancedRows(rows, used) ==
  IF used = << >> THEN None
  ELSE Some(impute_features(AsEvents(At(rows, s.train_at)), AsEvents(At(rows, s.test_at)), Range(used)))

WithFeatures(x, original) ==
  [s EXCEPT !.at = "arms", !.extracted = <<x>>, !.audit = <<generate_pit_audit_report(x.audit)>>,
     !.original = impute_features(At(s.events, s.train_at), At(s.events, s.test_at), Range(original.used)),
     !.enhanced = EnhancedRows(x.rows, x.used)]

ExtractFeatures ==
  /\ s.at = "features"
  /\ \E extended \in {load_extended_bars_cache(s.events, s.env.files, "extended" \in s.env.broken)} :
     \E x \in {extract_enhanced_features(s.events, s.cache, extended, s.env.broken)} :
       s' = [WithFeatures(x, extract_features(s.events)) EXCEPT !.extended = extended]

RunArms ==
  /\ s.at = "arms"
  /\ s' = IF \E k \in 1..Len(ARM_CONFIGS) : ~ArmRuns(ARM_CONFIGS[k]) THEN [s EXCEPT !.at = "failed"]
          ELSE [s EXCEPT !.at = "ablate", !.arms = run_all_arms]

\* Only an arm with the new features is taken apart.
Ablate ==
  /\ s.at = "ablate"
  /\ \E best \in {BestArm(s.arms)} :
       \/ /\ ~best.config.enhanced
          /\ s' = [s EXCEPT !.at = "robust"]
       \/ /\ best.config.enhanced
          /\ \E d \in {AblationData(best.config)} :
               s' = IF ~Ablates(best, d) THEN [s EXCEPT !.at = "failed"]
                    ELSE [s EXCEPT !.at = "robust", !.ablation = run_ablation(best, d),
                                   !.apart = <<generate_ablation_report(run_ablation(best, d))>>]

ConfidenceInterval(results) ==
  LET sums == SortSeq([k \in 1..Len(s.env.draws) |-> compute_calendar_sum_silo(Resample(results, s.env.draws[k]))],
                      LAMBDA a, b : a < b)
  IN IF results = << >> THEN <<0, 0>> ELSE <<percentile(sums, 5), percentile(sums, 95)>>

\* The symbols are those of the test events in the order of time; the
\* results are in the order of the events.
SymbolResults(resolved, symbol) == At(resolved, Positions(s.test, LAMBDA e : e.symbol = symbol))

SymbolBootstrap(results) ==
  [n |-> Len(results), sum |-> compute_calendar_sum_silo(results), ci |-> ConfidenceInterval(results)]

Overfitting(best) ==
  [overfitting |-> 2 * best.test < best.best.train,
   loocv_degradation |-> check_loocv_degradation(best.best.loocv, best.best.train)]

LabelShift(early, late) == {g \in Range(early) \cup Range(late) : Apart(early, late, g, 15)}

Robustness(best, resolved) ==
  [ci |-> ConfidenceInterval(resolved),
   symbols |-> [x \in {"BTC", "ETH"} |-> SymbolBootstrap(SymbolResults(resolved, x))],
   flags |-> Overfitting(best),
   shifted |-> LabelShift(At(s.labels[best.config.schema], s.train_at), At(s.labels[best.config.schema], s.test_at)),
   improvement |-> best.test - s.env.legacy[1].best.test]

BestRows(config, kept, y) ==
  [X |-> At(RowsOf(config, "train"), kept), y |-> At(y, kept), test |-> RowsOf(config, "test")]

BestData_unfiltered(config) ==
  BestRows(config, [i \in 1..Len(s.train_at) |-> i], At(s.labels[config.schema], s.train_at))

\* The rows of the best arm are put together a second time.
BestData(config) ==
  BestRows(config, Positions(At(s.labels[config.schema], s.train_at), LAMBDA g : config.schema = 2 \/ g # "skip"),
           At(s.labels[config.schema], s.train_at))

\* The best arm predicts once more, for the checks.
Check ==
  /\ s.at = "robust"
  /\ \E best \in {BestArm(s.arms)} : \E d \in {BestData(best.config)} :
       s' = IF ~Fits(best.best.name, d.X, d.y) THEN [s EXCEPT !.at = "failed"]
            ELSE [s EXCEPT !.at = "report",
                    !.resolved = ResolvedAll(best.config.schema, predict_all(build_classifier(best.best), d.X, d.y, d.test),
                                             At(s.results, s.test_at))]

---------------------------------------------------------------------------
(* refinement_report.py                                                    *)

determine_go_nogo(arms, legacy, flags) ==
  LET best == BestArm(arms).test
      rules == << <<\A k \in 2..Len(arms) : arms[k].test < legacy, "No-Go">>,
                  <<best > Strong /\ ~flags.overfitting, "Strong Go">>,
                  <<best > Marginal \/ flags.loocv_degradation, "Marginal Go">>,
                  <<TRUE, "No-Go">> >>
  IN rules[Min({i \in 1..4 : rules[i][1]})][2]

Superior(a, base) == a - base > Percent(50)

generate_hypothesis_validation(arms) ==
  LET T(k) == arms[k].test
  IN [h1 |-> Superior(T(2), T(1)), h2 |-> Superior(Max({T(3), T(4)}), T(1)),
      h3 |-> (\A k \in 2..4 : T(k) <= Strong) /\ (\E k \in 5..6 : T(k) > Strong)]

check_refinement_noop(best, legacy) == Span(best, legacy) < Percent(5)

\* The accuracy is a share of one and always below the bound of 40.
check_accuracy_calendar_decoupled(best, legacy) == best.best.accuracy < 4000 /\ Superior(best.test, legacy)

generate_declarations_section(arms, best, legacy) ==
  [noop |-> check_refinement_noop(best.test, legacy), decoupled |-> check_accuracy_calendar_decoupled(best, legacy),
   no_superior |-> \A k \in 2..Len(arms) : arms[k].test < legacy]

generate_main_report(go, best, legacy, robust) ==
  [go |-> go, hypotheses |-> generate_hypothesis_validation(s.arms), ci |-> robust.ci,
   exclude |-> IF s.ablation = << >> \/ go # "Strong Go" THEN {} ELSE s.apart[1].exclude,
   table |-> [k \in 1..Len(s.arms) |-> <<s.arms[k].config.name, s.arms[k].test - legacy, s.arms[k].rate>>],
   declarations |-> generate_declarations_section(s.arms, best, legacy)]

generate_summary_json(go, best, legacy, robust) ==
  [go |-> go, best |-> best.config.name, test |-> best.test, delay |-> s.best_global_delay, robust |-> robust,
   flags |-> generate_declarations_section(s.arms, best, legacy),
   ablation |-> [g \in 1..Len(s.ablation) |-> <<s.ablation[g].group, s.ablation[g].delta, s.ablation[g].ci>>]]

\* No learner was asked for the test rows in its own result: no trade is listed.
generate_trades_csv(best) == << >>

generate_refinement_report(go, best, legacy, robust) ==
  [main |-> generate_main_report(go, best, legacy, robust), summary |-> generate_summary_json(go, best, legacy, robust),
   trades |-> generate_trades_csv(best), arms |-> generate_arm_comparison_csv(s.arms)]

Report ==
  /\ s.at = "report"
  /\ \E best \in {BestArm(s.arms)} : \E robust \in {Robustness(best, s.resolved)} :
       s' = [s EXCEPT !.at = "end", !.robust = <<robust>>,
               !.report = <<generate_refinement_report(
                              determine_go_nogo(s.arms, s.env.legacy[1].best.test, robust.flags),
                              best, s.env.legacy[1].best.test, robust)>>]

Init ==
  \E env \in Environments :
    s = [at |-> "load", env |-> env, events |-> << >>, cache |-> << >>, extended |-> << >>, test |-> << >>,
         train_at |-> << >>, test_at |-> << >>, results |-> << >>, labels |-> << >>, best_global_delay |-> "",
         distribution |-> None, extracted |-> None, audit |-> None, original |-> << >>, enhanced |-> None,
         arms |-> << >>, ablation |-> << >>, apart |-> None, resolved |-> << >>, robust |-> None, report |-> None]

Next == Load \/ Label \/ ExtractFeatures \/ RunArms \/ Ablate \/ Check \/ Report
============================================================================
