--------------------------- MODULE EntryDecision ---------------------------
(***************************************************************************)
(* How the entry-redesign harness (research/entry_redesign) decides one    *)
(* event: detector, confirmation, pre-touch gate, post-touch gate, entry   *)
(* price, costs and the candidate_001 gate, as operators on a candidate    *)
(* specification and an event.                                             *)
(*                                                                         *)
(* Seconds are the positions of ev.bars.  Prices are ticks relative to the *)
(* breakout level (prev_high_2 of a long, prev_low_2 of a short), so the   *)
(* level itself is 0.  One bar of one second carries its high, its low,    *)
(* its close - open ("move"), the side of its taker volume and its spread. *)
(* Money is in basis points of a unit of notional.                         *)
(***************************************************************************)
EXTENDS Integers, Sequences, FiniteSets, FiniteSetsExt

CONSTANTS
    ValidD,       \* the entry delays a specification may have (VALID_D)
    ValidH        \* the feature horizons it may have (VALID_H)

\* Both are seconds.
ASSUME SecondsAssumption == ValidD \subseteq Nat /\ ValidH \subseteq Nat

SumOver(S, f(_)) == FoldSet(LAMBDA x, acc : acc + f(x), 0, S)
SumOf(f) == SumOver(DOMAIN f, LAMBDA x : f[x])

(***************************************************************************)
(* The specification: six axes.  A confirmation, a price mode and a        *)
(* post-touch band are a family and its parameter.                         *)
(***************************************************************************)
Families == {"none", "persistence", "retest", "minvol"}
PriceModes == {"market_on_touch", "limit_at_level", "limit_tb", "pullback"}
PreBands == {"none", "fast_clean", "fast_clean_strict"}
PostBands == {"none", "cont1s", "tickimb", "spread"}

EntryCandidateSpec ==
    [D : Int, H : Int, tc : Families \X Nat, ep : PriceModes \X Nat, pre : PreBands,
     post : PostBands \X Nat]

BASELINE == [D |-> 0, H |-> 0, tc |-> <<"none", 0>>, ep |-> <<"market_on_touch", 0>>,
             pre |-> "none", post |-> <<"none", 0>>]

\* Mutant: a horizon longer than the delay is accepted.
validate_any_horizon(spec) ==
    IF spec.D \notin ValidD THEN "invalid_D" ELSE IF spec.H \notin ValidH THEN "invalid_H" ELSE "ok"

validate(spec) ==
    IF spec.D \notin ValidD THEN "invalid_D"
    ELSE IF spec.H \notin ValidH THEN "invalid_H"
    ELSE IF spec.H > spec.D THEN "H_gt_D"
    ELSE "ok"

(* A candidate's identifier: the tokens of its axes and a digest of them.  *)
(* Axes outside the token maps have no identifier (KeyError).              *)
HasId(spec) == spec.D \in ValidD /\ spec.H \in ValidH

generate_candidate_id(spec) ==
    IF HasId(spec) THEN <<spec.D, spec.H, spec.tc, spec.ep, spec.pre, spec.post>>
    ELSE <<"unknown_rejected">>

(* The subset scanned by default: the baseline and, one axis at a time,    *)
(* every other value of that axis.                                         *)
DEFAULT_SUBSET(axisD, axisH, axisTC, axisEP, axisPre, axisPost) ==
    {BASELINE}
        \cup {[BASELINE EXCEPT !.D = d] : d \in axisD}
        \cup {[BASELINE EXCEPT !.H = h] : h \in {k \in axisH : k <= BASELINE.D}}
        \cup {[BASELINE EXCEPT !.tc = c] : c \in axisTC}
        \cup {[BASELINE EXCEPT !.ep = m] : m \in axisEP}
        \cup {[BASELINE EXCEPT !.pre = b] : b \in axisPre}
        \cup {[BASELINE EXCEPT !.post = b] : b \in axisPost}

----------------------------------------------------------------------------
(* What is known of an event: its side, its seconds and its figures.       *)
Second == [high : Int, low : Int, move : Int, taker : {"buy", "sell"}, spread : Int]
Tape == [side : {"long", "short"}, bars : Seq(Second), pre : [distance : Int, speed : Int, pullback : Int],
         hours : Nat, volume : Nat, raw : Int, notional : Nat]

(* Detector: the first second whose bar touches the level; 0 is none.      *)
Touches(side, bar) == IF side = "long" THEN bar.high >= 0 ELSE bar.low <= 0

detect(ev) ==
    LET hits == {i \in DOMAIN ev.bars : Touches(ev.side, ev.bars[i])}
    IN IF hits = {} THEN 0 ELSE Min(hits)

(* The seconds a window of n seconds opened at the trigger may read.       *)
Window(ev, t, n) == {i \in DOMAIN ev.bars : t <= i /\ i <= t + n}

evaluate_persistence(n, spec, ev, t) ==
    \E i \in Window(ev, t, spec.D) :
        /\ i + n - 1 \in Window(ev, t, spec.D)
        /\ \A j \in i..(i + n - 1) : Touches(ev.side, ev.bars[j])

(* The trigger's own bar is not a retest of the level.                     *)
evaluate_retest(buffer, spec, ev, t) ==
    \E i \in Window(ev, t, spec.D) \ {t} :
        IF ev.side = "long" THEN ev.bars[i].low \in -buffer..buffer
        ELSE ev.bars[i].high \in -buffer..buffer

(* Twenty closed hours are needed for the median; the notional traded in   *)
(* the trigger's second is compared with a share of it.                    *)
evaluate_min_volume(threshold, ev) == ev.hours >= 20 /\ ev.volume >= threshold

evaluate(spec, ev, t) ==
    CASE spec.tc[1] = "none"        -> TRUE
      [] spec.tc[1] = "persistence" -> evaluate_persistence(spec.tc[2], spec, ev, t)
      [] spec.tc[1] = "retest"      -> evaluate_retest(spec.tc[2], spec, ev, t)
      [] spec.tc[1] = "minvol"      -> evaluate_min_volume(spec.tc[2], ev)

(* Share of the taker volume on the trade's side, in hundredths; -1 is     *)
(* None: no trade in the window.                                           *)
compute_tick_imbalance(ev, t, h) ==
    LET w == Window(ev, t, h)
        side == {i \in w : ev.bars[i].taker = IF ev.side = "long" THEN "buy" ELSE "sell"}
    IN IF w = {} THEN -1 ELSE (100 * Cardinality(side)) \div Cardinality(w)

----------------------------------------------------------------------------
(* Pre-touch gate: distance, speed and pull-back in hundredths of the ATR. *)
check_fast_clean(p) == p.distance \in 10..15 /\ p.speed >= 20 /\ p.pullback \in 0..2
check_fast_clean_strict(p) == p.distance \in 10..12 /\ p.speed >= 30 /\ p.pullback \in 0..2

allow_pretouch(spec, ev) ==
    \/ spec.pre = "none"
    \/ spec.pre = "fast_clean" /\ check_fast_clean(ev.pre)
    \/ spec.pre = "fast_clean_strict" /\ check_fast_clean_strict(ev.pre)

(* Post-touch gate, on the window [trigger, trigger + H].                  *)
check_continuation_1s(threshold, ev, w) ==
    /\ w # {}
    /\ LET total == SumOf([i \in w |-> ev.bars[i].move])
       IN IF ev.side = "long" THEN total >= threshold ELSE total <= -threshold

check_tick_imbalance(threshold, ev, t, h) == compute_tick_imbalance(ev, t, h) >= threshold

check_spread_ticks(threshold, ev, t) == t \in DOMAIN ev.bars /\ ev.bars[t].spread <= threshold

allow_posttouch(spec, ev, t) ==
    CASE spec.post[1] = "none"    -> TRUE
      [] spec.post[1] = "cont1s"  -> check_continuation_1s(spec.post[2], ev, Window(ev, t, spec.H))
      [] spec.post[1] = "tickimb" -> check_tick_imbalance(spec.post[2], ev, t, spec.H)
      [] spec.post[1] = "spread"  -> check_spread_ticks(spec.post[2], ev, t)

----------------------------------------------------------------------------
(* Entry price.  A pull-back limit that is not touched within D seconds of *)
(* the trigger is not filled: no fallback.                                 *)
Filled(price, second) == [filled |-> TRUE, price |-> price, ts |-> second]
Unfilled == [filled |-> FALSE, price |-> 0, ts |-> 0]

resolve_market_on_touch(t) == Filled(0, t)
resolve_limit_at_level(t) == Filled(0, t)
resolve_limit_plus_tick_buffer(k, ev, t) == Filled(IF ev.side = "long" THEN k ELSE -k, t)

resolve_post_touch_pullback_limit(p, spec, ev, t) ==
    LET target == IF ev.side = "long" THEN -p ELSE p
        hit == {i \in Window(ev, t, spec.D) :
                   IF ev.side = "long" THEN ev.bars[i].low <= target
                   ELSE ev.bars[i].high >= target}
    IN IF hit = {} THEN Unfilled ELSE Filled(target, Min(hit))

resolve(spec, ev, t) ==
    CASE spec.ep[1] = "market_on_touch" -> resolve_market_on_touch(t)
      [] spec.ep[1] = "limit_at_level"  -> resolve_limit_at_level(t)
      [] spec.ep[1] = "limit_tb"        -> resolve_limit_plus_tick_buffer(spec.ep[2], ev, t)
      [] spec.ep[1] = "pullback"        -> resolve_post_touch_pullback_limit(spec.ep[2], spec, ev, t)

(* Costs: two sides of slippage, then fees of a maker entry or a taker one.*)
SLIP == 2
MAKER == 2
TAKER == 4

apply(raw, notional) ==
    LET slip == raw - 2 * SLIP * notional
    IN [raw |-> raw, slip |-> slip, realistic |-> slip - (MAKER + TAKER) * notional,
        taker_both |-> slip - 2 * TAKER * notional]

(* The candidate_001 gate compares three figures of the validation month   *)
(* with fixed thresholds (in tenths); without figures the runner uses 0.   *)
evaluate_gate001(m) == m.over_dd <= 100 /\ m.markov <= 9 /\ m.sized >= 5

gate_evaluate(m, mode) == mode = "nogate" \/ evaluate_gate001(m)

----------------------------------------------------------------------------
(* The body of the event loop: the pair of ledger rows an event adds, one  *)
(* per gate mode, or nothing.                                              *)
Decided(spec, ev) ==
    LET t == detect(ev)
    IN /\ t # 0
       /\ evaluate(spec, ev, t)
       /\ allow_pretouch(spec, ev)
       /\ allow_posttouch(spec, ev, t)
       /\ resolve(spec, ev, t).filled

Row(spec, ev, metrics, mode) ==
    LET t == detect(ev)
        r == resolve(spec, ev, t)
    IN [symbol |-> ev.symbol, month |-> ev.month, side |-> ev.side, trigger |-> t,
        entry |-> r.ts, price |-> r.price, notional |-> ev.notional, gate_mode |-> mode,
        pnl |-> apply(ev.raw, ev.notional),
        reason |-> IF gate_evaluate(metrics, mode) THEN "exit" ELSE "gate_rejected",
        event |-> ev]

RowsOf(spec, ev, metrics) ==
    IF Decided(spec, ev) THEN <<Row(spec, ev, metrics, "nogate"), Row(spec, ev, metrics, "gate001")>>
    ELSE << >>

============================================================================
