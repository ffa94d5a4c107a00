---------------------------- MODULE EntryReports ----------------------------
(***************************************************************************)
(* What the entry-redesign harness derives from a ledger: the metrics of   *)
(* both gate modes, the decision flags of the summary, the attribution by  *)
(* symbol and month, the counters of InvariantChecker, and the assertions  *)
(* of invariants/assertions.py, which recompute the same facts on their    *)
(* own.  A ledger is a sequence of the rows of EntryDecision.              *)
(*                                                                         *)
(* A row's notional is 0 or 1, so the quotient realistic_pnl / notional is *)
(* realistic_pnl, or not finite when the notional is 0 (Finite).  A mean   *)
(* is the pair <<sum, count>>, null is << >>.                              *)
(***************************************************************************)
EXTENDS EntryDecision, TLC

CONSTANTS
    Symbols,       \* BTCUSDT, ETHUSDT
    Months,        \* the execute months of the walk-forward calendar
    MaxTradesPerBar, QualityFloor, SmallSample

\* A month is its number.
ASSUME CalendarAssumption == IsFiniteSet(Symbols) /\ IsFiniteSet(Months) /\ Months \subseteq Int
ASSUME LimitAssumption == MaxTradesPerBar \in Nat

Modes == {"nogate", "gate001"}
TotalSilos == Cardinality(Symbols) * Cardinality(Months)

(* A part of a ledger is the set I of its rows.                            *)
OfMode(rows, I, mode) == {i \in I : rows[i].gate_mode = mode}
OfSymbols(rows, I, who) == {i \in I : rows[i].symbol \in who}
OfSilo(rows, I, symbol, month) == {i \in I : rows[i].symbol = symbol /\ rows[i].month = month}
Total(rows, I, f(_)) == SumOver(I, LAMBDA i : f(rows[i]))
Realistic(r) == r.pnl.realistic
Priced(rows, I) == {i \in I : rows[i].notional # 0}
Finite(rows, I) == Priced(rows, I) = I
Wins(rows, I) == {i \in I : Realistic(rows[i]) > 0}
Losses(rows, I) == {i \in I : Realistic(rows[i]) < 0}

(* A mean with quotients by zero of one sign only is infinite, otherwise it *)
(* is not a number.                                                        *)
Infinite(rows, I) ==
    LET zero == I \ Priced(rows, I)
    IN zero # {} /\ (zero \subseteq Wins(rows, I) \/ zero \subseteq Losses(rows, I))

(* mean(wins) / |mean(losses)| as a fraction, null when a side is empty.   *)
payoff_ratio(rows, I) ==
    LET won == Wins(rows, I)
        lost == Losses(rows, I)
    IN IF won = {} \/ lost = {} THEN << >>
       ELSE <<Total(rows, won, Realistic) * Cardinality(lost), -Total(rows, lost, Realistic) * Cardinality(won)>>

win_rate(rows, I) == IF I = {} THEN << >> ELSE <<Cardinality(Wins(rows, I)), Cardinality(I)>>

(* The deepest fall of the running sum below its running maximum, which is *)
(* the worst sum of the trades after one up to another.  Trades are taken  *)
(* by the time of their entry, those of one second in the ledger's order.  *)
After(rows, j, k) ==
    LET a == rows[j] b == rows[k]
    IN \/ a.month < b.month
       \/ a.month = b.month /\ (a.entry < b.entry \/ (a.entry = b.entry /\ j < k))

Fall(rows, I, j, k) ==
    -Total(rows, {i \in I : After(rows, j, i) /\ ~After(rows, k, i)}, Realistic)

max_drawdown(rows, I) ==
    Max({0} \cup {Fall(rows, I, p[1], p[2]) : p \in {q \in I \X I : After(rows, q[1], q[2])}})

Silos(rows, I) == {<<rows[i].symbol, rows[i].month>> : i \in I}

compute_metrics(rows, I, silos) ==
    [trade_count |-> Cardinality(I), win_rate |-> win_rate(rows, I), payoff |-> payoff_ratio(rows, I),
     pnl |-> Total(rows, I, Realistic), drawdown |-> max_drawdown(rows, I),
     raw |-> Total(rows, I, LAMBDA r : r.pnl.raw),
     taker_both |-> Total(rows, I, LAMBDA r : r.pnl.taker_both),
     quality |-> IF I = {} THEN << >> ELSE <<Total(rows, I, Realistic), Cardinality(I)>>,
     active |-> Cardinality(Silos(rows, I)), empty |-> silos - Cardinality(Silos(rows, I)),
     silo_sum |-> SumOver(Silos(rows, I), LAMBDA k : Total(rows, OfSilo(rows, I, k[1], k[2]), Realistic)),
     finite |-> Finite(rows, I), infinite |-> Infinite(rows, I)]

aggregate(rows, I, silos) == [m \in Modes |-> compute_metrics(rows, OfMode(rows, I, m), silos)]

----------------------------------------------------------------------------
(* The reference a candidate is compared with: the baseline's no-gate rows,*)
(* all of them or one symbol's.  No baseline rows: null.                   *)
compute_baseline_reference(baseRows, who) ==
    LET trades == OfSymbols(baseRows, OfMode(baseRows, DOMAIN baseRows, "nogate"), who)
    IN [win_rate |-> win_rate(baseRows, trades),
        payoff |-> payoff_ratio(baseRows, Priced(baseRows, trades))]

compute_event_expectation_positive(m, ref) ==
    /\ m.silo_sum >= 0
    /\ m.quality # << >> /\ m.quality[1] >= QualityFloor * m.quality[2]
    /\ m.win_rate # << >> /\ ref.win_rate # << >>
    /\ m.win_rate[1] * ref.win_rate[2] > ref.win_rate[1] * m.win_rate[2]
    /\ m.payoff # << >> /\ ref.payoff # << >>
    /\ 100 * m.payoff[1] * ref.payoff[2] >= 95 * ref.payoff[1] * m.payoff[2]

compute_small_sample_flag(all, perSymbol) ==
    all < 3 * SmallSample \/ \E x \in Symbols : perSymbol[x] < SmallSample

compute_asymmetry_tag(positive) ==
    IF positive = {} THEN "none"
    ELSE IF positive = Symbols THEN "all_symbols_positive"
    ELSE "one_symbol_positive"

compute_symbol_metrics(rows, x) ==
    aggregate(rows, OfSymbols(rows, DOMAIN rows, {x}), Cardinality(Months))

build_summary(rows, baseRows) ==
    LET metrics == aggregate(rows, DOMAIN rows, TotalSilos)
        own == [x \in Symbols |-> compute_symbol_metrics(rows, x)["nogate"]]
    IN [metrics |-> metrics,
        positive |-> compute_event_expectation_positive(metrics["nogate"],
                         compute_baseline_reference(baseRows, Symbols)),
        small_sample |-> compute_small_sample_flag(metrics["nogate"].trade_count,
                             [x \in Symbols |-> own[x].trade_count]),
        asymmetry |-> compute_asymmetry_tag({x \in Symbols :
                          compute_event_expectation_positive(own[x],
                              compute_baseline_reference(baseRows, {x}))}),
        live |-> FALSE]

----------------------------------------------------------------------------
(* Attribution: one row per symbol and month, traded or not.  The per-silo *)
(* baseline figures are never filled in, so the deltas to the baseline are *)
(* the candidate's own figures.                                            *)
determine_layer_dependency(metrics, spec) ==
    IF spec.pre # "none" /\ spec.post[1] # "none" THEN "combined"
    ELSE IF metrics["nogate"].silo_sum >= 0 THEN "entry_only"
    ELSE IF metrics["gate001"].silo_sum >= 0 THEN "gate_dependent"
    ELSE "entry_only"

\* Mutant: a silo is picked by its month, whatever the symbol.
build_attribution_rows_by_month(rows, spec) ==
    [k \in Symbols \X Months |->
        LET silo == aggregate(rows, {i \in DOMAIN rows : rows[i].month = k[2]}, 1)
        IN [silo |-> silo, delta |-> silo["nogate"].pnl,
            gate_effect |-> <<silo["gate001"].pnl, silo["nogate"].pnl>>,
            dependency |-> determine_layer_dependency(aggregate(rows, DOMAIN rows, TotalSilos), spec),
            unfilled |-> 0]]

build_attribution_rows(rows, spec) ==
    [k \in Symbols \X Months |->
        LET silo == aggregate(rows, OfSilo(rows, DOMAIN rows, k[1], k[2]), 1)
        IN [silo |-> silo, delta |-> silo["nogate"].pnl,
            gate_effect |-> <<silo["gate001"].pnl, silo["nogate"].pnl>>,
            dependency |-> determine_layer_dependency(aggregate(rows, DOMAIN rows, TotalSilos), spec),
            unfilled |-> 0]]

(* Formatting refuses a figure that is not finite: the writer raises.      *)
AttributionWritable(table) == \A k \in DOMAIN table : \A m \in Modes : table[k].silo[m].finite

----------------------------------------------------------------------------
(* InvariantChecker: counters, most of them constant zeros.                *)
BarGroups(rows) == {<<rows[i].month, rows[i].symbol, rows[i].gate_mode>> : i \in DOMAIN rows}
GroupSize(rows, g) ==
    Cardinality({i \in DOMAIN rows : <<rows[i].month, rows[i].symbol, rows[i].gate_mode>> = g})

\* Mutant: the bound itself counts as a violation.
check_p3_strict(rows) == Cardinality({g \in BarGroups(rows) : GroupSize(rows, g) >= MaxTradesPerBar})

check_p3(rows) == Cardinality({g \in BarGroups(rows) : GroupSize(rows, g) > MaxTradesPerBar})

monotonicity_holds(p) == p.taker_both <= p.realistic /\ p.realistic <= p.slip /\ p.slip <= p.raw

check_p4(rows) == Cardinality({i \in DOMAIN rows : ~monotonicity_holds(rows[i].pnl)})

check_p9(rows, summary) ==
    Cardinality({i \in DOMAIN rows : rows[i].notional = 0})
    + Cardinality({m \in Modes :
          LET q == summary.metrics[m].quality
              priced == Priced(rows, OfMode(rows, DOMAIN rows, m))
              far == IF summary.metrics[m].finite
                       THEN q[1] * Cardinality(priced) # Total(rows, priced, Realistic) * q[2]
                       ELSE summary.metrics[m].infinite
          IN IF summary.metrics[m].trade_count = 0 THEN q # << >>
             ELSE q = << >> \/ (priced # {} /\ far)})

check_p12(summary) ==
    Cardinality({m \in Modes : summary.metrics[m].active + summary.metrics[m].empty # TotalSilos})

Counters == {"P1_missing", "P1_spurious", "P3", "P4", "P5", "P6", "P7", "P8", "P9", "P10", "P11", "P12"}

check(rows, summary) ==
    [count |-> [c \in Counters |->
        CASE c = "P3" -> check_p3(rows)
          [] c = "P4" -> check_p4(rows)
          [] c = "P9" -> check_p9(rows, summary)
          [] c = "P12" -> check_p12(summary)
          [] c = "P10" -> (IF summary.live THEN 1 ELSE 0)
          [] OTHER -> 0],
     live |-> summary.live]

has_violations(v) == (\E c \in Counters : v.count[c] > 0) \/ v.live

(* The entries of the violations report; P1 may have two, the flag of a    *)
(* live output adds one when the counter P10 added none.                   *)
collect_violations(v) ==
    {c \in Counters : v.count[c] > 0} \cup (IF v.live THEN {"P10"} ELSE {})

(* The smoke script's own verdict on the counters.                         *)
assert_no_violations(v) == {c \in Counters : v.count[c] # 0} \cup (IF v.live THEN {"live"} ELSE {})

(* summary_json_writer refuses a summary without its fields; the pipeline  *)
(* always provides them.                                                   *)
SummaryFields == {"metrics", "positive", "small_sample", "asymmetry", "live"}
validate_top_level_fields(summary) == SummaryFields \subseteq DOMAIN summary

----------------------------------------------------------------------------
(* assertions.py: an assertion raises when its fact does not hold of the   *)
(* ledger and the summary.                                                 *)
assert_invariant_P1(v) == v.count["P1_missing"] + v.count["P1_spurious"] = 0

assert_invariant_P3(rows) == \A g \in BarGroups(rows) : GroupSize(rows, g) <= MaxTradesPerBar

assert_invariant_P4(rows) ==
    \A i \in DOMAIN rows :
        LET p == rows[i].pnl
        IN ~(p.taker_both > p.realistic \/ p.realistic > p.slip \/ p.slip > p.raw)

(* Train, validation and execute windows are half-open and pairwise apart. *)
Apart(a, b) == ~(a[1] < b[2] /\ b[1] < a[2])
WindowsApart(x) ==
    /\ Apart(x.train, x.validation) /\ Apart(x.validation, x.execute)
    /\ Apart(x.train, x.execute) /\ x.execute[1] >= x.validation[2]

(* Only a summary that lists its splits has them checked; build_summary    *)
(* lists none.                                                             *)
walkforward_splits(summary) ==
    IF "walkforward_splits" \in DOMAIN summary THEN summary.walkforward_splits ELSE {}
assert_invariant_P6(summary, v) ==
    v.count["P6"] = 0 /\ \A x \in walkforward_splits(summary) : WindowsApart(x)

assert_invariant_P7(v) == v.count["P7"] = 0

(* Its counter; the JSON round trip and the column order, which no counter *)
(* holds either, are left out.                                             *)
assert_invariant_P8(v) == v.count["P8"] = 0

assert_invariant_P9(rows, summary) ==
    /\ \A i \in DOMAIN rows : rows[i].notional # 0
    /\ \A m \in Modes :
          LET valid == Priced(rows, OfMode(rows, DOMAIN rows, m))
              q == summary.metrics[m].quality
          IN /\ (summary.metrics[m].trade_count = 0) <=> (q = << >>)
             /\ q # << >> /\ valid # {} => q[1] * Cardinality(valid) = Total(rows, valid, Realistic) * q[2]

(* A pull-back limit that was not filled has no price and no row.          *)
assert_invariant_P11(rows, v) == v.count["P11"] = 0 /\ \A i \in DOMAIN rows : rows[i].entry # 0

assert_invariant_P12(summary) ==
    \A m \in Modes : summary.metrics[m].active = TotalSilos - summary.metrics[m].empty

=============================================================================
