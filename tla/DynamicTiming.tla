--------------------------- MODULE DynamicTiming ---------------------------
(***************************************************************************)
(* research/entry_redesign/scripts/dynamic_timing: after the touch of a    *)
(* level the model looks at the one-second bars every few seconds and      *)
(* enters, waits for a pullback, skips or looks again; a position is then  *)
(* walked bar by bar.  Thresholds are searched on the earlier events and   *)
(* judged on the later ones.                                               *)
(***************************************************************************)
EXTENDS TimingExecution

CONSTANTS Interval,      \* seconds between two looks
          DefaultParams, \* the defaults of TimingParams
          Layer1, Layer2, Scan,  \* the lists of values the searches try
          Environments   \* ledgers, events and bar files of a run

VARIABLE s

---------------------------------------------------------------------------
(* feature_engine.py and regime_classifier.py.  The bars carry no volume:  *)
(* both flow figures are the constant one half.                            *)

\* What a look tells of the bars it has seen; "late" are those of the last step.
Features(e, step, seen, late) ==
  IF seen = << >> THEN None
  ELSE [step |-> step,
        extension |-> Dir(e.side) * (Last(seen).c - e.level),
        speed |-> Span(Last(seen).c, Head(seen).c),
        pullback |-> Max({Favourable(seen[i], e.side) : i \in 1..Len(seen)}) - Dir(e.side) * Last(seen).c,
        flow |-> 50,
        lastSpeed |-> IF late = << >> THEN Span(Last(seen).c, Head(seen).c)
                      ELSE Span(Last(late).c, Head(late).c),
        onward |-> Len(SelectSeq(seen, LAMBDA b : Dir(e.side) * (b.c - b.o) > 0)),
        count |-> Len(seen)]

FeaturesUpTo(bars, e, step, end) ==
  Features(e, step, Between(bars, e.touch, end), Between(bars, Max({e.touch, end - Interval}), end))

extract_step_features_ahead(bars, e, step) == FeaturesUpTo(bars, e, step, e.touch + (step + 2) * Interval)
extract_step_features(bars, e, step) == FeaturesUpTo(bars, e, step, e.touch + step * Interval)

AtLeast(x, hundredths, atr) == 100 * x >= hundredths * atr

\* The first rule that applies decides.
classify(f, p, atr) ==
  LET rules ==
        << <<AtLeast(f.speed, p.strong_momentum, atr) /\ f.flow >= p.strong_flow,
             "immediate", "Strong Momentum">>,
           <<f.flow < p.weak_flow /\ f.step >= p.min_steps_for_skip, "skip", "Weak Signal">>,
           <<AtLeast(f.extension, p.extension, atr) /\ 100 * f.pullback <= 2 * atr,
             "wait_pullback", "Over-Extended">>,
           <<~AtLeast(f.lastSpeed, p.fading, atr) /\ f.step >= 3 /\ f.flow < 50,
             "skip", "Fading Momentum">>,
           <<AtLeast(f.speed, p.moderate_momentum, atr) /\ 10 * f.onward >= 6 * f.count,
             "immediate", "Moderate Momentum">>,
           <<f.step < p.max_steps, "continue_observe", "Developing">>,
           <<TRUE, "immediate", "Default">> >>
  IN Tail(rules[Min({i \in 1..Len(rules) : rules[i][1]})])

---------------------------------------------------------------------------
(* pullback_monitor.py: the first bar after the decision that reaches the  *)
(* target fills at its close; one that runs away first gives up.           *)

wait_for_pullback(bars, at, price, e, p) ==
  LET window == Between(bars, at + 1, at + p.decision_window)
      Reaches(b) == 100 * (Dir(e.side) * price - Adverse(b, e.side)) >= p.pullback_target * e.atr
      RunsSpan(b) == 100 * (Favourable(b, e.side) - Dir(e.side) * price) >= p.abandon_extension * e.atr
      ends == Where(window, LAMBDA b : Reaches(b) \/ RunsSpan(b))
  IN IF ends = << >> \/ ~Reaches(Head(ends)) THEN None ELSE <<Head(ends)>>

---------------------------------------------------------------------------
(* dynamic_entry_timing_runner.py, the walk over the events                *)

Result(e, decision, regime, path, fill, bars) ==
  [id |-> e.id, symbol |-> e.symbol, side |-> e.side, touch |-> e.touch, decision |-> decision,
   regime |-> regime, path |-> path,
   entry |-> IF fill = None THEN None ELSE <<fill[1].t, fill[1].c>>,
   trade |-> IF fill = None THEN None ELSE execute_trade(bars, e, fill[1].t, fill[1].c)]

\* The bar an immediate entry or a pullback fills at.
Fill(bars, e, p, verdict, at) ==
  IF verdict[1] = "wait_pullback" /\ at # None
  THEN wait_for_pullback(bars, at[1].t, at[1].c, e, p) ELSE at

Unseen(acc) ==
  [acc EXCEPT !.path = Append(@, "DataMissing"), !.missing = @ + 1,
              !.verdict = IF acc.missing + 1 >= 3 THEN <<"skip", "ConsecutiveDataMissing">> ELSE None]

Seen(acc, step, verdict) ==
  [acc EXCEPT !.path = Append(@, verdict[2]), !.missing = 0, !.step = step,
              !.verdict = IF verdict[1] = "continue_observe" THEN None ELSE verdict]

\* One look at the bars, unless an earlier one has decided.
Look(e, p, acc, step, f) ==
  IF acc.verdict # None THEN acc
  ELSE IF f = None THEN Unseen(acc) ELSE Seen(acc, step, classify(f, p, e.atr))

\* The looks of an event; the loop that runs out of steps enters at the last.
Looks(bars, e, p) ==
  FoldLeft(LAMBDA acc, k : Look(e, p, acc, k, extract_step_features(bars, e, k)),
           [path |-> << >>, missing |-> 0, step |-> 0, verdict |-> None], [k \in 1..p.max_steps |-> k])

RanOut(acc, p) ==
  IF acc.verdict # None THEN acc
  ELSE [acc EXCEPT !.verdict = <<"immediate", "Default">>, !.step = p.max_steps,
                   !.path = Append(@, "Default")]

Settle(bars, e, p, acc) ==
  Result(e, acc.verdict[1], acc.verdict[2], acc.path,
         IF acc.verdict[1] = "skip" THEN None
         ELSE Fill(bars, e, p, acc.verdict, FirstFrom(bars, e.touch + acc.step * Interval)), bars)

TimeOne(bars, e, p) ==
  IF bars = << >> THEN Result(e, "skip", "NoData", << >>, None, bars)
  ELSE Settle(bars, e, p, RanOut(Looks(bars, e, p), p))

run_dynamic_timing(events, cache, p) ==
  [i \in 1..Len(events) |-> TimeOne(Bars(cache, events[i]), events[i], p)]

run_baseline(events, cache, delay) ==
  [i \in 1..Len(events) |->
     LET e == events[i] bars == Bars(cache, e)
     IN Result(e, "baseline", delay, << >>, FirstFrom(bars, e.touch + delay), bars)]

run_all_baselines(events, cache) ==
  [a |-> run_baseline(events, cache, Interval), b |-> run_baseline(events, cache, 12 * Interval),
   c |-> run_baseline(events, cache, 0)]

---------------------------------------------------------------------------
(* Metrics.  A silo is a symbol and a month; its balance compounds.        *)

Traded(results) == Where(results, LAMBDA r : r.trade # None)
Silo(r) == <<r.symbol, r.trade.entry_time \div 100>>
START == 100000

Grow(balance, r) == balance + (balance * Exec.notional_share * r.trade.realistic) \div 1000000

SumOfSilos(trades) ==
  MapThenSumSet(LAMBDA silo : FoldLeft(Grow, START, Where(trades, LAMBDA r : Silo(r) = silo)) - START,
                {Silo(trades[i]) : i \in 1..Len(trades)})

compute_calendar_sum(results) == SumOfSilos(Traded(results))

Wins(results) == SelectSeq(Traded(results), LAMBDA r : r.trade.realistic > 0)
Losses(results) == SelectSeq(Traded(results), LAMBDA r : r.trade.realistic <= 0)
OfDecision(results, d) == SelectSeq(results, LAMBDA r : r.decision = d)

compute_metrics(results) ==
  [calendar_sum |-> compute_calendar_sum(results), trades |-> Len(Traded(results)),
   wins |-> Len(Wins(results)), losses |-> Len(Losses(results)),
   skipped |-> IF Traded(results) = << >> THEN Len(results) ELSE Len(OfDecision(results, "skip")),
   pulled |-> Len(OfDecision(results, "wait_pullback")),
   filled |-> Len(Traded(OfDecision(results, "wait_pullback"))),
   quality |-> SumOf(Traded(results), LAMBDA r : r.trade.realistic)]

Evaluation(dynamic, base, symbols, train, test) ==
  [dynamic |-> dynamic, baselines |-> base,
   metrics |-> [dynamic |-> compute_metrics(dynamic), a |-> compute_metrics(base.a),
                b |-> compute_metrics(base.b), c |-> compute_metrics(base.c)],
   overfitting |-> train > 0 /\ 2 * (train - test) > train,
   train |-> train, test |-> test,
   negative |-> {x \in symbols :
                   compute_calendar_sum(SelectSeq(dynamic, LAMBDA r : r.symbol = x)) < 0}]

Judged(dynamic, base, symbols, train) ==
  Evaluation(dynamic, base, symbols, train, compute_calendar_sum(dynamic))

evaluate_on_test_set(events, cache, p, train) ==
  Judged(run_dynamic_timing(events, cache, p), run_all_baselines(events, cache),
         {events[i].symbol : i \in 1..Len(events)}, train)

Share(results, regime) ==
  IF results = << >> THEN 0
  ELSE (100 * Len(SelectSeq(results, LAMBDA r : r.regime = regime))) \div Len(results)

GroupStats(group) ==
  [count |-> Len(group), trades |-> Len(Traded(group)), wins |-> Len(Wins(group)),
   calendar |-> compute_calendar_sum(group)]

Shifted(a, b) == Span(a, b) > 20

compute_regime_stability(train, test) ==
  LET regimes == {r.regime : r \in Range(train \o test)}
  IN [shifted |-> {g \in regimes : Shifted(Share(train, g), Share(test, g))},
      stats |-> [g \in regimes |-> GroupStats(SelectSeq(train \o test, LAMBDA r : r.regime = g))]]

---------------------------------------------------------------------------
(* The two searches: every combination of the lists, in the order of       *)
(* itertools.product; a later one must be strictly better to be chosen.    *)

\* Each of the combinations with every value of one more list.
With(list, p) == [j \in 1..Len(list[2]) |-> [p EXCEPT ![list[1]] = list[2][j]]]
Widen(acc, list) == FoldLeft(LAMBDA all, p : all \o With(list, p), << >>, acc)
Combos(lists, base) == FoldLeft(Widen, <<base>>, lists)

Score(p) == compute_calendar_sum(run_dynamic_timing(s.train, s.cache, p))

Row(p, r) ==
  [params |-> p, score |-> compute_calendar_sum(r), trades |-> Len(Traded(r)),
   skips |-> Len(OfDecision(r, "skip"))]

Tried(p) == Row(p, run_dynamic_timing(s.train, s.cache, p))

\* The record kept after one more combination was tried.
Search(best, t) == IF best = None \/ t.score > best[1].score THEN <<t>> ELSE best

Loaded(events) ==
  [s EXCEPT !.at = "layer1", !.cache = load_bars_cache(events, s.env.files),
            !.train = time_split_events(events).train, !.test = time_split_events(events).test,
            !.todo = Combos(Layer1, DefaultParams)]

Load == s.at = "load" /\ s' = Loaded(load_v6_gate_events(s.env.ledger, s.env.events))

\* The second search starts from the thresholds of the first; every other
\* threshold of the combination it tries is new.
ToLayer2_losing_first(best) == Combos(Layer2, [best EXCEPT !.max_steps = DefaultParams.max_steps])
ToLayer2(best) == Combos(Layer2, best)

run_grid_search_layer1 ==
  /\ s.at = "layer1"
  /\ \E best \in {Search(s.best, Tried(Head(s.todo)))} :
       s' = IF Len(s.todo) > 1
            THEN [s EXCEPT !.todo = Tail(@), !.best = best]
            ELSE [s EXCEPT !.at = "layer2", !.layer1 = best, !.best = None,
                           !.todo = ToLayer2(best[1].params), !.files = @ \cup {"layer1.csv"}]

run_grid_search_layer2 ==
  /\ s.at = "layer2"
  /\ \E best \in {Search(s.best, Tried(Head(s.todo)))} :
       s' = IF Len(s.todo) > 1
            THEN [s EXCEPT !.todo = Tail(@), !.best = best]
            ELSE [s EXCEPT !.at = "evaluate", !.todo = << >>, !.best = best,
                           !.files = @ \cup {"layer2.csv", "params.json"}]

Evaluate ==
  /\ s.at = "evaluate"
  /\ s' = [s EXCEPT !.at = "analyse",
             !.eval = <<evaluate_on_test_set(s.test, s.cache, s.best[1].params, Score(s.best[1].params))>>]

\* Each parameter alone is moved over its list; high: the sum moves by more than 3 %.
Spread(sums) == Max(sums) - Min(sums)

run_sensitivity_analysis(p) ==
  {list[1] : list \in {l \in Range(Scan) :
     100 * Spread({Score([p EXCEPT ![l[1]] = v]) : v \in Range(l[2])}) > 3 * START}}

Analyse ==
  /\ s.at = "analyse"
  /\ LET p == s.best[1].params
     IN s' = [s EXCEPT !.at = "output", !.sensitive = run_sensitivity_analysis(p),
                !.stability = <<compute_regime_stability(run_dynamic_timing(s.train, s.cache, p),
                                                        s.eval[1].dynamic)>>]

---------------------------------------------------------------------------
(* The files and the report                                                *)

\* The longest stretch of looks without a bar.
Longest(path) ==
  FoldLeft(LAMBDA acc, r : LET run == IF r = "DataMissing" THEN acc[1] + 1 ELSE 0
                           IN <<run, Max({acc[2], run})>>, <<0, 0>>, path)[2]

BaselineOf(id, rows) ==
  LET same == {i \in 1..Len(rows) : rows[i].id = id}
  IN IF same = {} THEN None ELSE <<rows[Max(same)]>>

Pnl(r) == IF r = None \/ r[1].trade = None THEN None ELSE <<r[1].trade.realistic>>

attribution(r, base) ==
  LET p == Pnl(<<r>>)
      q == Pnl(BaselineOf(r.id, base))
  IN [id |-> r.id, pnl |-> p, base |-> q,
      delta |-> IF p = None \/ q = None THEN None ELSE <<p[1] - q[1]>>]

Median2(o) == o[(Len(o) + 1) \div 2] + o[Len(o) \div 2 + 1]

\* By how much a pullback improved on the first baseline's price.
Better(r, b) ==
  IF b = None \/ b[1].entry = None \/ r.entry = None THEN << >>
  ELSE <<Dir(r.side) * (b[1].entry[2] - r.entry[2])>>

Gains(dynamic, base) ==
  FoldLeft(LAMBDA acc, r : acc \o Better(r, BaselineOf(r.id, base)), << >>,
           Traded(OfDecision(dynamic, "wait_pullback")))

IsMarginal(gains) == gains = << >> \/ Median2(SortSeq(gains, <)) < 10

generate_output_files(dynamic, base) ==
  [attribution |-> [i \in 1..Len(dynamic) |-> attribution(dynamic[i], base)],
   trades |-> Traded(dynamic),
   gaps |-> {r.id : r \in {x \in Range(dynamic) : Longest(x.path) >= 3}},
   marginal |-> IsMarginal(Gains(dynamic, base))]

Output ==
  /\ s.at = "output"
  /\ s' = [s EXCEPT !.at = "report",
             !.out = <<generate_output_files(s.eval[1].dynamic, s.eval[1].baselines.a)>>,
             !.files = @ \cup {"attribution.csv", "trades.csv", "summary.json"}]

go_decision(ev, sensitive) ==
  LET gain == ev.metrics.dynamic.calendar_sum - ev.metrics.a.calendar_sum
  IN CASE ev.overfitting \/ gain <= 0 -> "No-Go"
       [] ~(ev.overfitting \/ gain <= 0) /\ 100 * gain > START /\ sensitive = {} -> "Go"
       [] OTHER -> "Conditional Go"

warnings(ev, out) ==
  LET on == [not_superior |-> ev.metrics.dynamic.calendar_sum <= ev.metrics.a.calendar_sum,
             overfitting |-> ev.overfitting, pullback_marginal |-> out.marginal, small_sample |-> TRUE]
  IN {w \in DOMAIN on : on[w]}

\* Why the model did not beat the first baseline, as far as the report says.
causes(ev) ==
  LET m == ev.metrics.dynamic
      on == [skips |-> 10 * m.skipped > 2 * Len(ev.dynamic), fills |-> 2 * m.filled < m.pulled \/ m.pulled = 0]
  IN IF m.calendar_sum <= ev.metrics.a.calendar_sum THEN {c \in DOMAIN on : on[c]} ELSE {}

\* A column of figures for the model and one for every baseline.
comparison(ev) == [m \in DOMAIN ev.metrics |-> ev.metrics[m]]

regime_table(stability) == {[regime |-> g, row |-> stability.stats[g]] : g \in DOMAIN stability.stats}

next_steps(decision, ev, sensitive) ==
  CASE decision = "Go" -> {"live design", "a/b test"}
    [] decision = "Conditional Go" -> {"more events", "simpler model"}
                                      \cup (IF sensitive # {} THEN {"fix parameters"} ELSE {})
    [] OTHER -> {"static parameters"} \cup (IF "not_superior" \in warnings(ev, s.out[1])
                                            THEN {"post-mortem"} ELSE {})

generate_report ==
  /\ s.at = "report"
  /\ LET ev == s.eval[1]
         go == go_decision(ev, s.sensitive)
     IN s' = [s EXCEPT !.at = "end", !.files = @ \cup {"report.md"},
                !.report = <<[decision |-> go, warnings |-> warnings(ev, s.out[1]), causes |-> causes(ev), table |-> comparison(ev),
                              regimes |-> regime_table(s.stability[1]), shifted |-> s.stability[1].shifted,
                              sensitive |-> s.sensitive, negative |-> ev.negative,
                              next |-> next_steps(go, ev, s.sensitive)]>>]

Init ==
  \E env \in Environments :
    s = [at |-> "load", env |-> env, cache |-> << >>, train |-> << >>, test |-> << >>, todo |-> << >>,
         layer1 |-> None, best |-> None, eval |-> None, sensitive |-> {}, stability |-> None,
         out |-> None, report |-> None, files |-> {}]

Next == Load \/ run_grid_search_layer1 \/ run_grid_search_layer2 \/ Evaluate \/ Analyse \/ Output
        \/ generate_report
============================================================================
