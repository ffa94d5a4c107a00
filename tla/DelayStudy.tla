----------------------------- MODULE DelayStudy -----------------------------
(***************************************************************************)
(* What the studies of the entry delay share (pre_breakout_timing): every  *)
(* event is traded under four fixed delays and a pullback, the labels this *)
(* gives, the calendar sum, the features known at the touch, and what a    *)
(* fitted learner answers.                                                 *)
(*                                                                         *)
(* The learners are external: what a fitted model answers is one of three  *)
(* simple rules, chosen by the environment for each learner and depth.     *)
(***************************************************************************)
EXTENDS TimingExecution

CONSTANTS Step,          \* the difference of two delays
          PullbackWindow, PullbackGrid, \* the default window and the grid searched
          Candidates,    \* the feature columns asked for, in order
          Tolerance      \* how much less than the best a label may earn

Delays == <<"D0", "D5", "D10", "D15">>
Labels == Delays \o <<"pullback">>
Rank(label) == CHOOSE i \in 1..Len(Labels) : Labels[i] = label
Positions(seq, P(_)) == Where([i \in 1..Len(seq) |-> i], LAMBDA i : P(seq[i]))
At(seq, idx) == [k \in 1..Len(idx) |-> seq[idx[k]]]
Count(seq, x) == Len(SelectSeq(seq, LAMBDA y : y = x))

---------------------------------------------------------------------------
(* delay_simulator.py                                                      *)

\* A fixed delay is reported as asked for, a pullback as it happened.
DelayOf(e, label, entry) ==
  CASE label # "pullback" -> (Rank(label) - 1) * Step
    [] label = "pullback" /\ entry = None -> 0
    [] OTHER -> entry[1] - e.touch

DelayResult(e, label, entry, reason, trade) ==
  [id |-> e.id, label |-> label, entry |-> entry, delay |-> DelayOf(e, label, entry),
   reason |-> reason, trade |-> trade]

Traded(results) == Where(results, LAMBDA r : r.trade # None)

Filled(e, label, bar, trade) ==
  DelayResult(e, label, <<bar.t, bar.c>>, IF trade = None THEN "MinStopFilter" ELSE trade.reason, trade)

\* The result of entering at the close of a bar, or without one.
Enter(e, bars, label, bar) ==
  IF bar = None THEN DelayResult(e, label, None, "NoData", None)
  ELSE Filled(e, label, bar[1], execute_trade(bars, e, bar[1].t, bar[1].c))

\* The reference is the close of the first bar of the window; the search
\* for the pullback begins with that bar.
Pulled(e, window, target) ==
  LET Reaches(b) == 100 * (Dir(e.side) * Head(window).c - Adverse(b, e.side)) >= target * e.atr
      hits == Where(window, Reaches)
  IN IF hits # << >> THEN [bar |-> <<Head(hits)>>, triggered |-> TRUE]
     ELSE [bar |-> <<Last(window)>>, triggered |-> FALSE]

PulledIn(e, window, target) ==
  IF window = << >> THEN [bar |-> None, triggered |-> FALSE] ELSE Pulled(e, window, target)

simulate_pullback_entry(e, bars, target, width) ==
  PulledIn(e, Between(bars, e.touch + Step, e.touch + Step + width), target)

simulate_all_delays(e, bars) ==
  [i \in 1..Len(Delays) |-> Enter(e, bars, Delays[i], FirstFrom(bars, e.touch + (i - 1) * Step))]
  \o <<Enter(e, bars, "pullback", simulate_pullback_entry(e, bars, 5, PullbackWindow).bar)>>

\* Without bars every delay is NoData.
simulate(events, cache) ==
  [i \in 1..Len(events) |-> simulate_all_delays(events[i], Bars(cache, events[i]))]

\* The earliest delay that earns nearly the best; none may be worth taking.
OptimalLabel(traded) ==
  LET best == Max({traded[i].trade.realistic : i \in 1..Len(traded)})
  IN IF best < 0 THEN "skip"
     ELSE Head(SelectSeq(traded, LAMBDA r : r.trade.realistic >= best - Tolerance)).label

compute_optimal_labels(results) ==
  [i \in 1..Len(results) |->
     IF Traded(results[i]) = << >> THEN "skip" ELSE OptimalLabel(Traded(results[i]))]

---------------------------------------------------------------------------
(* The calendar sum: a silo is a symbol and a month; its balance compounds *)
(* in the order of the entries.                                            *)

START == 100000
Grow(balance, r) == balance + (balance * Exec.notional_share * r.trade.realistic) \div 1000000
Earlier(a, b) == a.entry[1] < b.entry[1]
\* sorted is stable: a trade goes behind those of its time.
PutIn(sorted, r) ==
  InsertAt(sorted, 1 + Cardinality({i \in 1..Len(sorted) : ~Earlier(r, sorted[i])}), r)
SiloReturn(trades) == FoldLeft(Grow, START, FoldLeft(PutIn, << >>, trades)) - START

SumOver(trades, Symbol(_)) ==
  MapThenSumSet(LAMBDA k : SiloReturn(Where(trades, LAMBDA r : <<Symbol(r), r.entry[1] \div 100>> = k)),
                {<<Symbol(trades[i]), trades[i].entry[1] \div 100>> : i \in 1..Len(trades)})

\* The symbol of a result is looked up in the events, the last of its id.
SymbolIn(events, id) ==
  LET same == {i \in 1..Len(events) : events[i].id = id}
  IN IF same = {} THEN "unknown" ELSE events[Max(same)].symbol

compute_calendar_sum_from_results(results, events) ==
  SumOver(Traded(results), LAMBDA r : SymbolIn(events, r.id))

\* An id begins with its symbol.
infer_symbol_from_event_id(id) == IF id[1] \in {"BTC", "ETH"} THEN id[1] ELSE "unknown"
compute_calendar_sum(results) == SumOver(Traded(results), LAMBDA r : infer_symbol_from_event_id(r.id))

---------------------------------------------------------------------------
(* pullback_strategy.py                                                    *)

PullbackResults(events, cache, p) ==
  [i \in 1..Len(events) |->
     LET e == events[i]
     IN Enter(e, Bars(cache, e), "pullback", simulate_pullback_entry(e, Bars(cache, e), p[1], p[2]).bar)]

BetterPullback(best, tried) == IF best = None \/ tried[2] > best[2] THEN tried ELSE best

optimize_pullback_params(events, cache) ==
  IF events = << >> THEN <<5, PullbackWindow>>
  ELSE FoldLeft(LAMBDA best, p :
                  BetterPullback(best, <<p, compute_calendar_sum(PullbackResults(events, cache, p))>>),
                None, PullbackGrid)[1]

---------------------------------------------------------------------------
(* feature_extractor.py                                                    *)

Missing(rows, col) == Len(SelectSeq(rows, LAMBDA e : e.features[col] = None))

Usable(events, col) ==
  col \in DOMAIN events[1].features /\ 2 * Missing(events, col) <= Len(events)

extract_features(events) ==
  [used |-> SelectSeq(Candidates, LAMBDA c : Usable(events, c)),
   excluded |-> SelectSeq(Candidates, LAMBDA c : ~Usable(events, c))]

Median2(o) == IF o = << >> THEN None ELSE <<o[(Len(o) + 1) \div 2] + o[Len(o) \div 2 + 1]>>
Values(rows, col) == LET known == SelectSeq(rows, LAMBDA e : e.features[col] # None)
                     IN SortSeq([i \in 1..Len(known) |-> known[i].features[col][1]], <)

\* Values are doubled, so that a median of two is exact.
Imputed(e, used, medians) ==
  [c \in used |-> IF e.features[c] = None THEN medians[c] ELSE <<2 * e.features[c][1]>>]

ImputedRows(rows, used, medians) == [i \in 1..Len(rows) |-> Imputed(rows[i], used, medians)]

impute_with(train, test, used, medians) ==
  [train |-> ImputedRows(train, used, medians), test |-> ImputedRows(test, used, medians),
   filled |-> [c \in used |-> <<Missing(train, c), Missing(test, c)>>]]

impute_features_all(train, test, used) ==
  impute_with(train, test, used, [c \in used |-> Median2(Values(train \o test, c))])

impute_features(train, test, used) ==
  impute_with(train, test, used, [c \in used |-> Median2(Values(train, c))])

\* Extremes of every feature, over all rows and over those of each label.
feature_statistics(X, y) ==
  [c \in DOMAIN X[1] |->
     [g \in Range(y) \cup {"all"} |->
        LET of == {X[i][c] : i \in {j \in 1..Len(y) : g = "all" \/ y[j] = g}}
        IN [min |-> Min({v[1] : v \in of \ {None}}), max |-> Max({v[1] : v \in of \ {None}})]]]

---------------------------------------------------------------------------
(* timing_classifier.py                                                    *)

Far(a, b) == MapThenSumSet(LAMBDA c : Span(a[c][1], b[c][1]), DOMAIN a)

Majority(y) == y[Min({i \in 1..Len(y) : \A j \in 1..Len(y) : Count(y, y[j]) <= Count(y, y[i])})]
Nearest1(X, y, x) == y[CHOOSE i \in 1..Len(X) : \A j \in 1..Len(X) :
                          Far(X[i], x) < Far(X[j], x) \/ (Far(X[i], x) = Far(X[j], x) /\ i <= j)]

\* What a learner fitted to (X, y) answers for x.
predict(rule, X, y, x) ==
  CASE rule = "majority" -> Majority(y) [] rule = "nearest" -> Nearest1(X, y, x) [] OTHER -> y[1]

predict_all(rule, X, y, rows) == [i \in 1..Len(rows) |-> predict(rule, X, y, rows[i])]

\* A fit raises without rows, on a hole, and for the regression on one class.
Fits(family, X, y) ==
  /\ y # << >> /\ \A i \in 1..Len(X) : \A c \in DOMAIN X[i] : X[i][c] # None
  /\ family = "LogisticRegression" => Cardinality(Range(y)) > 1

find_delay_result(results, label) ==
  LET same == Where(results, LAMBDA r : r.label = label)
  IN IF same = << >> THEN [Head(results) EXCEPT !.label = label, !.entry = None, !.delay = 0,
                                                !.reason = "NoMatch", !.trade = None]
     ELSE Head(same)

collect_results_from_predictions(predictions, results) ==
  [i \in 1..Len(predictions) |-> find_delay_result(results[i], predictions[i])]

---------------------------------------------------------------------------
(* regime_labels.py: coarser labels                                        *)

Fast == {"D0", "D5"}
Slow == {"D10", "D15", "pullback"}

\* The best any of the delays earned; an event without a trade counts as 0.
BestOf(results, delays) ==
  LET earned == {results[i].trade.realistic :
                   i \in {j \in 1..Len(results) : results[j].label \in delays /\ results[j].trade # None}}
  IN IF earned = {} THEN 0 ELSE Max(earned)

RegimeLabel(fast, slow) ==
  IF fast < 0 /\ slow < 0 THEN "skip"
  ELSE IF fast >= slow \/ slow - fast < Tolerance THEN "fast" ELSE "slow"

generate_3regime_labels(results) ==
  [i \in 1..Len(results) |-> RegimeLabel(BestOf(results[i], Fast), BestOf(results[i], Slow))]

Share(labels, g) == IF labels = << >> THEN 0 ELSE (10000 * Count(labels, g)) \div Len(labels)
\* Two shares differ by more than so many points; no label is a share of 0.
Apart(a, b, g, points) ==
  LET na == Max({1, Len(a)}) nb == Max({1, Len(b)})
  IN 100 * Span(Count(a, g) * nb, Count(b, g) * na) > points * na * nb

NoTrade(id, label, reason) ==
  [id |-> id, label |-> label, entry |-> None, delay |-> 0, reason |-> reason, trade |-> None]

\* The trade that earned most among the delays of the regime.
Hindsight(results, label, delays) ==
  LET traded == Where(results, LAMBDA r : r.label \in delays /\ r.trade # None)
  IN IF traded = << >> THEN NoTrade(results[1].id, label, "NoMatch")
     ELSE Head(Where(traded, LAMBDA r : r.trade.realistic = BestOf(results, delays)))

resolve_single_3regime_prediction(label, results) ==
  CASE label = "skip" -> NoTrade(results[1].id, "skip", "Skip")
    [] label = "fast" -> Hindsight(results, label, Fast)
    [] label = "slow" -> Hindsight(results, label, Slow)
    [] OTHER -> find_delay_result(results, label)

---------------------------------------------------------------------------
(* The resampling of the robustness checks: a draw belongs to the          *)
(* environment.                                                            *)

NoHole(X) == \A i \in 1..Len(X) : \A c \in DOMAIN X[i] : X[i][c] # None

\* Every draw takes some results twice and others not at all.
Resample(seq, k) == [i \in 1..Len(seq) |-> seq[((k * i) % Len(seq)) + 1]]

\* Linear between the two nearest.
percentile(sorted, p) ==
  LET at == p * (Len(sorted) - 1)
      lo == at \div 100 + 1
      hi == Min({lo + 1, Len(sorted)})
  IN sorted[lo] + ((at % 100) * (sorted[hi] - sorted[lo])) \div 100

check_loocv_degradation(loocv, train) ==
  IF train = 0 THEN loocv < 0
  ELSE 10 * loocv < 7 * train \/ 10 * Span(loocv, train) > 3 * Span(train, 0)
============================================================================
