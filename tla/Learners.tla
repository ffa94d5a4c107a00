------------------------------ MODULE Learners ------------------------------
(***************************************************************************)
(* The four classifiers of pre_breakout_timing/timing_classifier.py.  Each *)
(* is tried at its depths, by leaving out one row after another, and the   *)
(* best depth is fitted to all rows.  "rules" says what a learner of a     *)
(* depth answers (see DelayStudy).                                         *)
(***************************************************************************)
EXTENDS DelayStudy

loocv_calendar_sum_inline(rule, X, y, results) ==
  compute_calendar_sum(collect_results_from_predictions(
    [i \in 1..Len(y) |-> predict(rule, RemoveAt(X, i), RemoveAt(y, i), X[i])], results))

Depths(family) ==
  CASE family = "DecisionTree" -> <<2, 3, 4, 5>> [] family = "RandomForest" -> <<3, 4, 5>> [] OTHER -> <<3>>

Deeper_last(best, tried) == <<tried>>
Deeper(best, tried) == IF best = None \/ tried.loocv > best[1].loocv THEN <<tried>> ELSE best

Tried(rules, family, depth, X, y, results) ==
  [depth |-> depth, loocv |-> loocv_calendar_sum_inline(rules[<<family, depth>>], X, y, results)]

ClassifierResult(family, chosen, X, y, results, predictions) ==
  [name |-> family, depth |-> chosen.depth, loocv |-> chosen.loocv,
   train |-> compute_calendar_sum(collect_results_from_predictions(predictions, results)),
   right |-> Cardinality({i \in 1..Len(y) : predictions[i] = y[i]}), test |-> 0, accuracy |-> 0]

Fitted(rules, family, chosen, X, y, results) ==
  ClassifierResult(family, chosen, X, y, results, predict_all(rules[<<family, chosen.depth>>], X, y, X))

train(rules, family, X, y, results) ==
  Fitted(rules, family, FoldLeft(LAMBDA best, d : Deeper(best, Tried(rules, family, d, X, y, results)),
                                 None, Depths(family))[1], X, y, results)

train_rule_based_classifier(rules, X, y, results) == train(rules, "RuleBased_DT3", X, y, results)
train_decision_tree(rules, X, y, results) == train(rules, "DecisionTree", X, y, results)
train_random_forest(rules, X, y, results) == train(rules, "RandomForest", X, y, results)
train_logistic_regression(rules, X, y, results) == train(rules, "LogisticRegression", X, y, results)

Families == {"RuleBased_DT3", "DecisionTree", "RandomForest", "LogisticRegression"}
Trainable(X, y) ==
  \A family \in Families :
    Fits(family, X, y) /\ \A i \in 1..Len(y) : Fits(family, RemoveAt(X, i), RemoveAt(y, i))

\* The first of the best under leave-one-out.
Best(trained) ==
  trained[Min({i \in 1..Len(trained) : \A j \in 1..Len(trained) : trained[j].loocv <= trained[i].loocv})]
============================================================================
